----------------------------- MODULE Enforcement -----------------------------
(***************************************************************************)
(* What the control plane promises the data path.  The rule table in force *)
(* is only ever replaced as a whole, in one step, by the complete          *)
(* translation of the configuration the daemon then holds, together with   *)
(* that configuration's logging and conntrack switches; a default policy   *)
(* only ever takes the value that configuration gives it.                  *)
(***************************************************************************)
EXTENDS RuleModel

VARIABLES
  want,    \* the configuration the daemon holds (on_disk)
  policy,  \* default action per direction, as the data path sees it
  table    \* rule list and switches, as the data path sees them

vars == <<want, policy, table>>

AllowAll == [d \in Directions |-> "allow"]
EmptyTable == [rules |-> <<>>, logging |-> FALSE, conntrack |-> FALSE]

Init ==
  /\ want = DefaultDisk
  /\ policy = AllowAll
  /\ table = EmptyTable

\* A request, or reading the rules file.
Reconfigure ==
  /\ want' \in OnDisk
  /\ UNCHANGED <<policy, table>>

ApplyPolicy(d) ==
  /\ policy' = [policy EXCEPT ![d] = PolicyOf(want)[d]]
  /\ UNCHANGED <<want, table>>

Publish ==
  /\ Implements(table', want)
  /\ UNCHANGED <<want, policy>>

\* The process ends, and with it the maps and the attached programs.
Restart ==
  /\ want' = DefaultDisk
  /\ policy' = AllowAll
  /\ table' = EmptyTable

Next ==
  \/ Reconfigure
  \/ \E d \in Directions : ApplyPolicy(d)
  \/ Publish
  \/ Restart

Spec == Init /\ [][Next]_vars
=============================================================================
