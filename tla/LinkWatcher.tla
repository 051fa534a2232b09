----------------------------- MODULE LinkWatcher -----------------------------
(***************************************************************************)
(* Interfaces that come and go, and the daemon that follows them: the      *)
(* initial attach and sync of run_daemon, the polling loop of              *)
(* watch_interfaces, and requests that re-resolve every rule in between.   *)
(*                                                                         *)
(* A rule that names an interface is stored with the ifindex that name had *)
(* when the rules were last synchronised, or IFACE_ABSENT.  The watcher    *)
(* compares two snapshots of /sys/class/net; it never looks at what the    *)
(* RULES map holds.  All rules build (RuleSync models those that do not).  *)
(***************************************************************************)
EXTENDS Integers, FiniteSets

CONSTANTS
  Names,      \* interface names that pass iface_filter
  FileRules,  \* names the rules file mentions when moatd starts
  L2Max,      \* capacity of the IFACE_L2 map (64 in the code)
  Faults,     \* attaches that may fail on an interface that exists
  MaxEvents   \* bound on link events and refused XDP attaches

ASSUME WatcherAssumption ==
  /\ Names # {} /\ FileRules \subseteq Names
  /\ L2Max \in Nat \ {0} /\ MaxEvents \in Nat
  /\ Faults \subseteq {"xdp", "tc"}

IFACE_ABSENT == -1
Absent == [ifindex |-> 0, up |-> FALSE]

VARIABLES
  link,      \* name |-> its ifindex and whether operstate is up or unknown
  events,    \* link events and refusals so far, no less than the last ifindex
  xdp, tc,   \* ifindexes with the ingress, the egress program attached
  IFACE_L2,  \* ifindexes whose L2 header length is recorded
  rules,     \* names mentioned by the rules
  resolved,  \* name |-> iface_ifindex of its rules in the RULES map
  attached,  \* watcher: name |-> ifindex it attached to, 0 if none
  last,      \* watcher: the snapshot it compares with
  current,   \* watcher: the snapshot of this pass
  todo,      \* watcher: names of this pass still to be attached
  pc,        \* watcher: where it is, with the name it is attaching
  rushed     \* history: names that changed before the last change was noticed

kernel == <<xdp, tc, IFACE_L2>>
snapshots == <<last, current>>
vars == <<link, events, kernel, rules, resolved, attached, snapshots, todo, pc, rushed>>

Exists(nm) == link[nm].ifindex # 0
At(p) == [at |-> p]
Attaching(p) == [at |-> p, name |-> pc.name]

\* The daemon runs its initial attach and sync before it serves anybody.
Starting == last = <<>>

\* /sys/class/net as one readout: name |-> ifindex and state.
iface_snapshot == link

iface_ifindex(nm) == link[nm].ifindex

resolve_iface(nm) == IF link[nm].up THEN link[nm].ifindex ELSE IFACE_ABSENT

\* What sync_rules leaves in the RULES map for the names in R.
sync_rules(R) == [nm \in Names |-> IF nm \in R THEN resolve_iface(nm) ELSE IFACE_ABSENT]

\* Mutant: an interface that came back under another ifindex is taken for known.
ToAttach_ByName(s) == {nm \in Names : s[nm].ifindex # 0 /\ attached[nm] = 0}

\* Interfaces of snapshot s that attach_to_iface is called for.
ToAttach(s) == {nm \in Names : s[nm].ifindex # 0 /\ attached[nm] # s[nm].ifindex}

Init ==
  /\ link \in [Names -> {Absent, [ifindex |-> 1, up |-> TRUE]}]
  /\ \A m, nm \in Names : Exists(m) /\ Exists(nm) => m = nm
  /\ events = 1
  /\ xdp = {} /\ tc = {} /\ IFACE_L2 = {}
  /\ rules = FileRules
  /\ resolved = [nm \in Names |-> IFACE_ABSENT]
  /\ attached = [nm \in Names |-> 0]
  /\ last = <<>> /\ current = link
  /\ todo = {nm \in Names : Exists(nm)}
  /\ pc = At("attach")
  /\ rushed = {}

-----------------------------------------------------------------------------
(* attach_to_iface, for one name after the other.  It goes by name: what   *)
(* it attaches to is the interface that has the name at that moment.       *)

Pick ==
  /\ pc.at = "attach"
  /\ \E nm \in todo :
       /\ pc' = [at |-> "xdp", name |-> nm]
       /\ todo' = todo \ {nm}
  /\ UNCHANGED <<link, events, kernel, rules, resolved, attached, snapshots, rushed>>

\* The kernel has at most one XDP program per interface: a second attach is
\* refused in driver mode and in SKB mode.
attach_xdp_with_fallback(nm) == Exists(nm) /\ iface_ifindex(nm) \notin xdp

AttachXdp ==
  /\ pc.at = "xdp"
  /\ IF attach_xdp_with_fallback(pc.name)
     THEN xdp' = xdp \cup {iface_ifindex(pc.name)} /\ pc' = Attaching("tc")
     ELSE xdp' = xdp /\ pc' = At("attach")
  /\ UNCHANGED <<link, events, tc, IFACE_L2, rules, resolved, attached,
                 snapshots, todo, rushed>>

\* Both modes are refused although the interface could have a program.  Each
\* poll tries again; that it is not refused for good is in the bound.
AttachXdpFails ==
  /\ pc.at = "xdp" /\ "xdp" \in Faults
  /\ events < MaxEvents /\ events' = events + 1
  /\ pc' = At("attach")
  /\ UNCHANGED <<link, kernel, rules, resolved, attached, snapshots, todo, rushed>>

\* Mutant: the program is attached by the ifindex of the snapshot, not by name.
AttachTc_BySnapshot ==
  /\ pc.at = "tc"
  /\ IF Exists(pc.name)
     THEN tc' = tc \cup {current[pc.name].ifindex} /\ pc' = Attaching("l2")
     ELSE tc' = tc /\ pc' = At("attach")
  /\ UNCHANGED <<link, events, xdp, IFACE_L2, rules, resolved, attached,
                 snapshots, todo, rushed>>

AttachTc ==
  /\ pc.at = "tc"
  /\ IF Exists(pc.name)
     THEN tc' = tc \cup {iface_ifindex(pc.name)} /\ pc' = Attaching("l2")
     ELSE tc' = tc /\ pc' = At("attach")
  /\ UNCHANGED <<link, events, xdp, IFACE_L2, rules, resolved, attached,
                 snapshots, todo, rushed>>

\* Mutant: the error of the TC attach is swallowed.
AttachTcFails_Ignored ==
  /\ pc.at = "tc" /\ "tc" \in Faults
  /\ pc' = Attaching("l2")
  /\ UNCHANGED <<link, events, kernel, rules, resolved, attached, snapshots, todo, rushed>>

AttachTcFails ==
  /\ pc.at = "tc" /\ "tc" \in Faults
  /\ pc' = At("attach")
  /\ UNCHANGED <<link, events, kernel, rules, resolved, attached, snapshots, todo, rushed>>

\* Mutant: the header length is recorded once per name, not per ifindex.
SetL2_OncePerName ==
  /\ pc.at = "l2"
  /\ IFACE_L2' = IF Exists(pc.name) /\ attached[pc.name] = 0 /\ Cardinality(IFACE_L2) < L2Max
                 THEN IFACE_L2 \cup {iface_ifindex(pc.name)} ELSE IFACE_L2
  /\ attached' = [attached EXCEPT ![pc.name] = current[pc.name].ifindex]
  /\ pc' = At("attach")
  /\ UNCHANGED <<link, events, xdp, tc, rules, resolved, snapshots, todo, rushed>>

\* A full map is only warned about; the interface counts as attached, under
\* the ifindex of the snapshot.
SetL2 ==
  /\ pc.at = "l2"
  /\ IFACE_L2' = IF Exists(pc.name) /\ Cardinality(IFACE_L2) < L2Max
                 THEN IFACE_L2 \cup {iface_ifindex(pc.name)} ELSE IFACE_L2
  /\ attached' = [attached EXCEPT ![pc.name] = current[pc.name].ifindex]
  /\ pc' = At("attach")
  /\ UNCHANGED <<link, events, xdp, tc, rules, resolved, snapshots, todo, rushed>>

AttachDone ==
  /\ pc.at = "attach" /\ todo = {}
  /\ pc' = IF Starting THEN At("initial_sync") ELSE At("compare")
  /\ UNCHANGED <<link, events, kernel, rules, resolved, attached, snapshots, todo, rushed>>

-----------------------------------------------------------------------------
(* run_daemon after the attach, and the loop of watch_interfaces. *)

InitialSync ==
  /\ pc.at = "initial_sync"
  /\ resolved' = sync_rules(rules)
  /\ pc' = At("baseline")
  /\ UNCHANGED <<link, events, kernel, rules, attached, snapshots, todo, rushed>>

\* The spawned watcher takes its baseline when it is first polled.
Baseline ==
  /\ pc.at = "baseline"
  /\ last' = iface_snapshot /\ current' = iface_snapshot
  /\ pc' = At("wait")
  /\ UNCHANGED <<link, events, kernel, rules, resolved, attached, todo, rushed>>

Poll ==
  /\ pc.at = "wait"
  /\ current' = iface_snapshot
  /\ todo' = ToAttach(iface_snapshot)
  /\ pc' = At("attach")
  /\ UNCHANGED <<link, events, kernel, rules, resolved, attached, last, rushed>>

Compare ==
  /\ pc.at = "compare"
  /\ pc' = IF current = last THEN At("wait") ELSE At("check")
  /\ UNCHANGED <<link, events, kernel, rules, resolved, attached, snapshots, todo, rushed>>

\* Mutant: interfaces that disappeared are left out of the comparison.
Changed_OnlyPresent == {nm \in Names : current[nm].ifindex # 0 /\ current[nm] # last[nm]}

Changed == {nm \in Names : current[nm] # last[nm]}

\* touches_rules, under a lock of its own.
Check ==
  /\ pc.at = "check"
  /\ IF Changed \cap rules # {}
     THEN pc' = At("sync") /\ last' = last
     ELSE pc' = At("wait") /\ last' = current
  /\ UNCHANGED <<link, events, kernel, rules, resolved, attached, current, todo, rushed>>

Sync ==
  /\ pc.at = "sync"
  /\ resolved' = sync_rules(rules)
  /\ last' = current
  /\ pc' = At("wait")
  /\ UNCHANGED <<link, events, kernel, rules, attached, current, todo, rushed>>

-----------------------------------------------------------------------------
(* Requests: each ends in a sync of all rules.  They are served as soon as *)
(* the initial sync is done, before the watcher has its baseline.          *)

Serving == ~Starting \/ pc.at = "baseline"

ChangeRules ==
  /\ Serving
  /\ \E R \in SUBSET Names : rules' = R /\ resolved' = sync_rules(R)
  /\ UNCHANGED <<link, events, kernel, attached, snapshots, todo, pc, rushed>>

-----------------------------------------------------------------------------
(* Link events.  The kernel detaches the programs of an interface that     *)
(* goes away; nothing removes its IFACE_L2 entry.                          *)

\* The present state of nm is handled, or the initial sync will handle it.
Noticed(nm) ==
  IF Starting THEN pc.at # "baseline"
  ELSE last[nm] = link[nm] /\ current[nm] = link[nm]

LinkEvent(nm, new) ==
  /\ events < MaxEvents
  /\ rushed' = IF Noticed(nm) THEN rushed ELSE rushed \cup {nm}
  /\ events' = events + 1
  /\ link' = [link EXCEPT ![nm] = new]
  /\ xdp' = IF new.ifindex = link[nm].ifindex THEN xdp ELSE xdp \ {link[nm].ifindex}
  /\ tc' = IF new.ifindex = link[nm].ifindex THEN tc ELSE tc \ {link[nm].ifindex}
  /\ UNCHANGED <<IFACE_L2, rules, resolved, attached, snapshots, todo, pc>>

\* An interface is created, or deleted and created again within one event.
Create(nm) == \E u \in BOOLEAN : LinkEvent(nm, [ifindex |-> events + 1, up |-> u])
Delete(nm) == Exists(nm) /\ LinkEvent(nm, Absent)
Flip(nm) == Exists(nm) /\ LinkEvent(nm, [link[nm] EXCEPT !.up = ~@])

-----------------------------------------------------------------------------
Watcher ==
  \/ Pick \/ AttachXdp \/ AttachXdpFails \/ AttachTc \/ AttachTcFails \/ SetL2 \/ AttachDone
  \/ InitialSync \/ Baseline \/ Poll \/ Compare \/ Check \/ Sync

Next ==
  \/ Watcher
  \/ ChangeRules
  \/ \E nm \in Names : Create(nm) \/ Delete(nm) \/ Flip(nm)

\* The timer of the watcher fires every two seconds, and its task is scheduled.
Spec == Init /\ [][Next]_vars /\ WF_vars(Watcher)

-----------------------------------------------------------------------------
Indexes == 0..(MaxEvents + 1)
LinkState == [ifindex : Indexes, up : BOOLEAN]
Places ==
  [at : {"attach", "initial_sync", "baseline", "wait", "compare", "check", "sync"}]
    \cup [at : {"xdp", "tc", "l2"}, name : Names]

\* Programs are attached only to interfaces that exist, and IFACE_L2 never
\* holds more than its capacity.
TypeOK ==
  /\ link \in [Names -> LinkState]
  /\ events \in Indexes
  /\ tc \subseteq {link[nm].ifindex : nm \in Names} \ {0}
  /\ xdp \subseteq {link[nm].ifindex : nm \in Names} \ {0}
  /\ IFACE_L2 \subseteq Indexes \ {0} /\ Cardinality(IFACE_L2) <= L2Max
  /\ rules \subseteq Names
  /\ resolved \in [Names -> Indexes \cup {IFACE_ABSENT}]
  /\ attached \in [Names -> Indexes]
  /\ current \in [Names -> LinkState]
  /\ Starting \/ last \in [Names -> LinkState]
  /\ todo \subseteq Names /\ rushed \subseteq Names
  /\ pc \in Places

\* An interface recorded as attached under its present ifindex has both
\* programs, even if it was replaced or an attach failed in the middle.
AttachedMeansFiltered ==
  \A nm \in Names :
    Exists(nm) /\ attached[nm] = link[nm].ifindex
      => link[nm].ifindex \in xdp /\ link[nm].ifindex \in tc

\* As long as IFACE_L2 has room, the data path knows the L2 header length of
\* every interface recorded as attached, also of one that was replaced between
\* the steps of its attach; without it a raw-L3 interface is taken for Ethernet
\* and its traffic passes as not IP.
L2KnownWhileRoom ==
  \A nm \in Names :
    Exists(nm) /\ attached[nm] = link[nm].ifindex
      => link[nm].ifindex \in IFACE_L2 \/ Cardinality(IFACE_L2) = L2Max

\* The rules that name an interface of S point at it in the map.
InStep(S) == \A nm \in rules \cap S : resolved[nm] = resolve_iface(nm)

\* When the links stop changing, every rule ends up with the ifindex of the
\* interface it names (or disabled, if that is gone or down) and stays so,
\* provided that interface never changed again before the watcher had noticed
\* its last change.
RulesFollowLinks == <>[]InStep(Names \ rushed)

\* Every interface is eventually filtered on ingress, however it came about and
\* however often its attach was refused before, at start or in a poll.
EveryInterfaceFiltered ==
  <>[](\A nm \in Names : Exists(nm) => link[nm].ifindex \in xdp)

-----------------------------------------------------------------------------
(* What the repository says and the code does not do. *)

\* "the behaviour is identical from the rule's point of view" to a netlink
\* subscription: whatever the links did, the rules end up in step with them.
AsIfSubscribed == <>[]InStep(Names)
=============================================================================
