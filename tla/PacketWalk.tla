----------------------------- MODULE PacketWalk -----------------------------
(***************************************************************************)
(* walk_rules of the eBPF data path composed with the daemon of RuleSync.  *)
(* On every CPU a packet reads CONFIG once, then slot after slot of that   *)
(* bank, then, if nothing matched, the default policy.  None of this is    *)
(* synchronised with the daemon: each map read is a step of its own.       *)
(*                                                                         *)
(* A slot is read in one step.  The kernel copies a value into an array    *)
(* map without a lock, so a read that races with a write of the same slot  *)
(* may in fact be torn; OneSyncIsSafe says when no such race exists.        *)
(***************************************************************************)
EXTENDS RuleSync

CONSTANT Cpus

VARIABLE walk   \* per CPU: the walk in progress, or the last one

walkVars == <<vars, walk>>

NoWalk == [at |-> "idle"]

\* What the stack of walk_rules holds.  Recorded with it for the properties
\* below: the verdicts that evaluating the packet in one instant would have
\* given so far, and how many operations of the daemon the walk has overlapped
\* (capped at 2).
Walks ==
  [at : {"walk", "done"}, p : Packets, bank : Banks, count : 0..RULES_MAX,
   i : 1..(RULES_MAX + 1), verdict : Actions \cup {"none"},
   verdicts : SUBSET Actions, overlaps : 0..2]

Walking(c) == walk[c].at = "walk"

WInit == Init /\ walk = [c \in Cpus |-> NoWalk]

-----------------------------------------------------------------------------
(* The data path.  It runs while the programs are attached. *)

Attached == daemon \in {"starting", "running"}

\* CONFIG.get(0): bank and count, taken once.
ReadConfig(c, p) ==
  /\ Attached /\ ~Walking(c)
  /\ walk' = [walk EXCEPT ![c] =
       [at |-> "walk", p |-> p, bank |-> CONFIG.active_bank,
        count |-> CONFIG.rule_count, i |-> 1, verdict |-> "none",
        verdicts |-> {VerdictNow(p)}, overlaps |-> IF pc = "idle" THEN 0 ELSE 1]]
  /\ UNCHANGED vars

\* Mutant: the loop runs one slot past rule_count.
ReadSlot_OffByOne(c) ==
  /\ Walking(c)
  /\ walk[c].i <= walk[c].count + 1 /\ walk[c].i \in Slots
  /\ LET rule == RULES[<<walk[c].bank, walk[c].i>>]
     IN  walk' = IF Matches(rule, walk[c].p)
                 THEN [walk EXCEPT ![c].at = "done", ![c].verdict = rule.action]
                 ELSE [walk EXCEPT ![c].i = @ + 1]
  /\ UNCHANGED vars

\* Mutant: the active bank is read again for every slot.
ReadSlot_RereadsBank(c) ==
  /\ Walking(c)
  /\ walk[c].i <= walk[c].count
  /\ LET rule == RULES[<<CONFIG.active_bank, walk[c].i>>]
     IN  walk' = IF Matches(rule, walk[c].p)
                 THEN [walk EXCEPT ![c].at = "done", ![c].verdict = rule.action]
                 ELSE [walk EXCEPT ![c].i = @ + 1]
  /\ UNCHANGED vars

ReadSlot(c) ==
  /\ Walking(c)
  /\ walk[c].i <= walk[c].count
  /\ LET rule == RULES[<<walk[c].bank, walk[c].i>>]
     IN  walk' = IF Matches(rule, walk[c].p)
                 THEN [walk EXCEPT ![c].at = "done", ![c].verdict = rule.action]
                 ELSE [walk EXCEPT ![c].i = @ + 1]
  /\ UNCHANGED vars

ReadDefault(c) ==
  /\ Walking(c)
  /\ walk[c].i > walk[c].count
  /\ walk' = [walk EXCEPT ![c].at = "done",
                          ![c].verdict = DEFAULT_POLICY[walk[c].p.direction]]
  /\ UNCHANGED vars

-----------------------------------------------------------------------------
(* The daemon takes a step.  A walk goes on with what it has read; a walk  *)
(* on the maps of a process that has ended no longer concerns anybody.     *)

Observe(w) ==
  IF w.at # "walk" THEN w
  ELSE [w EXCEPT
          !.verdicts = @ \cup {Verdict(ActiveRules', DEFAULT_POLICY', w.p)},
          !.overlaps = IF pc = "idle" /\ pc' # "idle" /\ @ < 2 THEN @ + 1 ELSE @]

DaemonStep ==
  /\ Next
  /\ walk' = IF daemon' \in {"down", "failed"}
             THEN [c \in Cpus |-> NoWalk]
             ELSE [c \in Cpus |-> Observe(walk[c])]

WNext ==
  \/ DaemonStep
  \/ \E c \in Cpus : \/ \E p \in Packets : ReadConfig(c, p)
                     \/ ReadSlot(c)
                     \/ ReadDefault(c)

WSpec == WInit /\ [][WNext]_walkVars

-----------------------------------------------------------------------------
\* Every walk is at a slot of a bank, or one past the last live one.
WTypeOK ==
  /\ TypeOK
  /\ walk \in [Cpus -> {NoWalk} \cup Walks]
  /\ \A c \in Cpus : walk[c] # NoWalk => walk[c].i <= walk[c].count + 1

\* A packet that overlaps at most one operation of the daemon gets the verdict
\* of the maps as they stood at one instant of its walk: never a mixture of
\* two rule lists, nor of an old list with a default it never met.
VerdictOfOneInstant ==
  \A c \in Cpus :
    walk[c].at = "done" /\ walk[c].overlaps <= 1
      => walk[c].verdict \in walk[c].verdicts

\* The bank a packet is walking is not the one the daemon is writing, while
\* the walk has overlapped only the operation in progress.
OneSyncIsSafe ==
  \A c \in Cpus :
    Walking(c) /\ walk[c].overlaps <= 1 /\ pc = "write"
      => walk[c].bank # target

-----------------------------------------------------------------------------
\* "the data path never reads a half-written rule": no packet is about to read
\* from a bank of which the daemon has rewritten some slots, not yet the others.
NeverHalfWritten ==
  \A c \in Cpus :
    ~ /\ Walking(c) /\ walk[c].bank = target /\ walk[c].i <= walk[c].count
      /\ pc = "write" /\ n \in 2..LiveCount(on_disk)
=============================================================================
