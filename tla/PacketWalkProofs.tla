-------------------------- MODULE PacketWalkProofs --------------------------
(***************************************************************************)
(* Proofs about PacketWalk, for every number of CPUs, bank size, rule set, *)
(* packet set and bound.  The daemon's part of the invariant is the one of *)
(* RuleSyncProofs.                                                         *)
(***************************************************************************)
EXTENDS PacketWalk, RuleSyncProofs, FiniteSetTheorems, WellFoundedInduction

USE DEF Banks, Slots

\* A nonempty set of naturals has a least element: among the intervals that its
\* elements bound, one has no other inside it.
LEMMA LeastElement ==
  ASSUME NEW S, S \subseteq Nat, S # {}
  PROVE  \E k \in S : \A j \in S : k <= j
<1> DEFINE T == {1..k : k \in S}
           R == StrictSubsetOrdering(Nat)
<1>1. T \subseteq FiniteSubsetsOf(Nat)
  <2> SUFFICES ASSUME NEW k \in S PROVE 1..k \in FiniteSubsetsOf(Nat)
    OBVIOUS
  <2>1. IsFiniteSet(1..k)
    BY FS_Interval
  <2> QED
    BY <2>1 DEF FiniteSubsetsOf
<1>2. IsWellFoundedOn(R, FiniteSubsetsOf(Nat))
  BY FS_StrictSubsetOrderingWellFounded
<1>3. T # {}
  OBVIOUS
<1>4. PICK x \in T : \A y \in T : ~ (<<y, x>> \in R)
  <2> HIDE DEF T, R
  <2> QED
    BY <1>1, <1>2, <1>3, WFMin
<1>5. PICK k \in S : x = 1..k
  BY <1>4
<1>6. ASSUME NEW j \in S, j < k PROVE FALSE
  <2>1. 1..j \subseteq 1..k /\ 1..j # 1..k
    BY <1>6
  <2>2. <<1..j, 1..k>> \in R
    BY <2>1 DEF StrictSubsetOrdering
  <2> QED
    BY <2>2, <1>4, <1>5
<1> QED
  BY <1>6

-----------------------------------------------------------------------------
(* First match. *)

\* A verdict is an action: that of a matching rule, or a default.
LEMMA VerdictType ==
  ASSUME NEW m \in Nat, NEW rules \in [1..m -> WireRule],
         NEW policy \in [Directions -> Actions], NEW p \in Packets
  PROVE  Verdict(rules, policy, p) \in Actions
<1> DEFINE hits == {k \in DOMAIN rules : Matches(rules[k], p)}
           first == CHOOSE k \in hits : \A j \in hits : k <= j
<1>1. policy[p.direction] \in Actions
  BY PacketsAssumption
<1>2. hits \subseteq 1..m
  OBVIOUS
<1>3. ASSUME hits # {} PROVE first \in hits
  <2>1. \E k \in hits : \A j \in hits : k <= j
    <3>1. hits \subseteq Nat
      BY <1>2
    <3> HIDE DEF hits
    <3> QED
      BY <3>1, <1>3, LeastElement
  <2> QED
    BY <2>1
<1>4. ASSUME hits # {} PROVE rules[first].action \in Actions
  <2>1. first \in 1..m
    BY <1>2, <1>3, <1>4
  <2>2. rules[first] \in WireRule
    BY <2>1
  <2> QED
    BY <2>2 DEF WireRule
<1> QED
  BY <1>1, <1>4 DEF Verdict

\* The first rule that matches decides.
LEMMA FirstMatch ==
  ASSUME NEW m \in Nat, NEW rules, DOMAIN rules = 1..m, NEW policy, NEW p,
         NEW k \in 1..m, Matches(rules[k], p),
         \A j \in 1..(k - 1) : ~Matches(rules[j], p)
  PROVE  Verdict(rules, policy, p) = rules[k].action
<1> DEFINE hits == {j \in DOMAIN rules : Matches(rules[j], p)}
<1>1. k \in hits /\ hits \subseteq 1..m
  OBVIOUS
<1>2. \A j \in hits : k <= j
  OBVIOUS
<1>3. (CHOOSE j \in hits : \A l \in hits : j <= l) = k
  <2>1. \A j \in hits : (\A l \in hits : j <= l) => j = k
    BY <1>1, <1>2
  <2> HIDE DEF hits
  <2> QED
    BY <1>1, <1>2, <2>1
<1> QED
  BY <1>1, <1>3 DEF Verdict

\* With no match the default policy decides.
LEMMA NoMatch ==
  ASSUME NEW rules, NEW policy, NEW p,
         \A j \in DOMAIN rules : ~Matches(rules[j], p)
  PROVE  Verdict(rules, policy, p) = policy[p.direction]
<1>1. {j \in DOMAIN rules : Matches(rules[j], p)} = {}
  OBVIOUS
<1> QED
  BY <1>1 DEF Verdict

\* Evaluating a packet against a bank of the maps gives an action.
LEMMA BankVerdictType ==
  ASSUME NEW R \in [Banks \X Slots -> WireRule], NEW b \in Banks,
         NEW m \in 0..RULES_MAX, NEW policy \in [Directions -> Actions],
         NEW p \in Packets
  PROVE  Verdict([k \in 1..m |-> R[<<b, k>>]], policy, p) \in Actions
<1> DEFINE rules == [k \in 1..m |-> R[<<b, k>>]]
<1>1. m \in Nat
  BY RulesMaxAssumption
<1>2. \A k \in 1..m : R[<<b, k>>] \in WireRule
  BY <1>1, RulesMaxAssumption
<1>3. rules \in [1..m -> WireRule]
  BY <1>2
<1>4. Verdict(rules, policy, p) \in Actions
  <2> HIDE DEF rules
  <2> QED
    BY <1>1, <1>3, VerdictType
<1> QED
  BY <1>4

\* So does evaluating it against the bank in force.
LEMMA VerdictNowType ==
  ASSUME NEW p \in Packets
  PROVE  /\ TypeOK => VerdictNow(p) \in Actions
         /\ TypeOK' => Verdict(ActiveRules', DEFAULT_POLICY', p) \in Actions
<1>1. ASSUME TypeOK PROVE VerdictNow(p) \in Actions
  <2>1. CONFIG.rule_count \in 0..RULES_MAX /\ CONFIG.active_bank \in Banks
    BY <1>1 DEF TypeOK, GlobalConfig
  <2> QED
    BY <1>1, <2>1, BankVerdictType DEF TypeOK, ActiveRules, VerdictNow
<1>2. ASSUME TypeOK' PROVE Verdict(ActiveRules', DEFAULT_POLICY', p) \in Actions
  <2>1. CONFIG'.rule_count \in 0..RULES_MAX /\ CONFIG'.active_bank \in Banks
    BY <1>2 DEF TypeOK, GlobalConfig
  <2> QED
    BY <1>2, <2>1, BankVerdictType DEF TypeOK, ActiveRules
<1> QED
  BY <1>1, <1>2
-----------------------------------------------------------------------------
(* The inductive invariant. *)

\* The rule list a walk has read CONFIG for, as the maps hold it now.
WalkedRules(w) == [k \in 1..w.count |-> RULES[<<w.bank, k>>]]

OnActiveBank(w) == w.bank = CONFIG.active_bank /\ w.count = CONFIG.rule_count

\* A walk that overlapped at most one operation is on the bank in force, or on
\* the one that this operation, now over, has replaced.  Either way its bank is
\* not being written: the rules it has passed still do not match, and the
\* verdict it is heading for is one the packet would have got in one instant.
Undisturbed(w) ==
  /\ OnActiveBank(w) \/ (pc = "idle" /\ w.overlaps = 1)
  /\ w.overlaps = 0 => pc = "idle"
  /\ \A j \in 1..(w.i - 1) : ~Matches(RULES[<<w.bank, j>>], w.p)
  /\ Verdict(WalkedRules(w), DEFAULT_POLICY, w.p) \in w.verdicts

Snapshot ==
  \A c \in Cpus : Walking(c) /\ walk[c].overlaps <= 1 => Undisturbed(walk[c])

WIInv ==
  /\ IInv
  /\ WTypeOK
  /\ "config" \notin Faults => Snapshot /\ VerdictOfOneInstant

-----------------------------------------------------------------------------
(* What the daemon's steps do to the maps a walk reads. *)

\* Between two operations nothing but the end of the process changes a map.
LEMMA IdleKeepsMaps ==
  ASSUME Next, pc = "idle", pc' = "idle", daemon' \notin {"down", "failed"}
  PROVE  UNCHANGED maps
<1>1. CASE Attach \/ WatcherSync \/ Step \/ StepFails
  BY <1>1 DEF Attach, WatcherSync, Lock, Step, Load, Save, Build, SetPolicyIn,
              SetPolicyOut, SetPolicy, WriteSlot, FlipBank, SlotsLeft, StepFails,
              SaveFails, PolicyFails, BuildFails, SlotFails, ConfigFails
<1>2. CASE Exit
  BY <1>2 DEF Exit, NoProcess
<1>3. CASE Request
  BY <1>3 DEF Request, add_rule, delete_rule, set_default, set_logging, reset, Query,
              Handle, Refuse, vars
<1> QED
  BY <1>1, <1>2, <1>3 DEF Next

\* While daemon and kernel agree on the bank, a step leaves CONFIG and the bank
\* in force as they are, or is the flip, which leaves everything else.
LEMMA ActiveBankIsStable ==
  ASSUME "config" \notin Faults, IInv, Next, daemon' \notin {"down", "failed"}
  PROVE  \/ /\ CONFIG' = CONFIG
            /\ \A k \in Slots : RULES'[<<CONFIG.active_bank, k>>]
                                 = RULES[<<CONFIG.active_bank, k>>]
         \/ /\ pc = "write" /\ pc' = "idle"
            /\ UNCHANGED <<RULES, DEFAULT_POLICY>>
<1>1. CASE UNCHANGED <<RULES, CONFIG>>
  BY <1>1
<1>2. CASE WriteSlot
  <2>1. CONFIG' = CONFIG /\ RULES' = [RULES EXCEPT ![<<target, n>>] = wire[n]]
    BY <1>2 DEF WriteSlot
  <2>2. target # CONFIG.active_bank /\ CONFIG.active_bank \in Banks
    BY DEF IInv, SameBank, TypeOK, GlobalConfig, target
  <2> QED
    BY <2>1, <2>2 DEF IInv, TypeOK
<1>3. CASE FlipBank
  BY <1>3 DEF FlipBank, Succeed
<1> QED
  BY <1>1, <1>2, <1>3, QuietSteps

-----------------------------------------------------------------------------
(* The steps. *)

\* What observing a step of the daemon adds to a walk.
LEMMA ObserveFacts ==
  ASSUME NEW c \in Cpus, walk[c] \in Walks, Walking(c),
         walk'[c] = Observe(walk[c])
  PROVE  /\ walk'[c].at = "walk" /\ walk'[c].p = walk[c].p
         /\ walk'[c].bank = walk[c].bank /\ walk'[c].count = walk[c].count
         /\ walk'[c].i = walk[c].i /\ walk'[c].verdict = walk[c].verdict
         /\ walk'[c].verdicts
              = walk[c].verdicts \cup {Verdict(ActiveRules', DEFAULT_POLICY', walk[c].p)}
         /\ walk'[c].overlaps
              = IF pc = "idle" /\ pc' # "idle" /\ walk[c].overlaps < 2
                THEN walk[c].overlaps + 1 ELSE walk[c].overlaps
         /\ TypeOK' => walk'[c] \in Walks
<1> DEFINE v == Verdict(ActiveRules', DEFAULT_POLICY', walk[c].p)
<1>1. walk[c].p \in Packets
  BY DEF Walks
<1>2. TypeOK' => v \in Actions
  BY <1>1, VerdictNowType
<1>3. Observe(walk[c])
        = [walk[c] EXCEPT !.verdicts = @ \cup {v},
             !.overlaps = IF pc = "idle" /\ pc' # "idle" /\ @ < 2 THEN @ + 1 ELSE @]
  BY DEF Observe, Walking
<1> HIDE DEF v
<1>4. walk'[c] = [walk[c] EXCEPT !.verdicts = @ \cup {v},
             !.overlaps = IF pc = "idle" /\ pc' # "idle" /\ @ < 2 THEN @ + 1 ELSE @]
  BY <1>3
<1>5. walk[c].at = "walk"
  BY DEF Walking
<1>6. ASSUME TypeOK' PROVE walk'[c] \in Walks
  <2>1. walk[c].verdicts \cup {v} \in SUBSET Actions
    BY <1>2, <1>6 DEF Walks
  <2>2. (IF pc = "idle" /\ pc' # "idle" /\ walk[c].overlaps < 2
         THEN walk[c].overlaps + 1 ELSE walk[c].overlaps) \in 0..2
    BY DEF Walks
  <2> QED
    BY <1>4, <2>1, <2>2 DEF Walks
<1>7. /\ walk'[c].at = "walk" /\ walk'[c].p = walk[c].p
      /\ walk'[c].bank = walk[c].bank /\ walk'[c].count = walk[c].count
      /\ walk'[c].i = walk[c].i /\ walk'[c].verdict = walk[c].verdict
      /\ walk'[c].verdicts = walk[c].verdicts \cup {v}
      /\ walk'[c].overlaps
           = IF pc = "idle" /\ pc' # "idle" /\ walk[c].overlaps < 2
             THEN walk[c].overlaps + 1 ELSE walk[c].overlaps
  BY <1>4, <1>5 DEF Walks
<1> QED
  BY <1>6, <1>7 DEF v

\* A step of the daemon keeps a walk undisturbed unless it is the start of a
\* second operation.
LEMMA ObserveUndisturbed ==
  ASSUME "config" \notin Faults, IInv, Next, daemon' \notin {"down", "failed"},
         NEW c \in Cpus, walk[c] \in Walks, Walking(c), walk[c].i <= walk[c].count + 1,
         walk'[c] = Observe(walk[c]),
         walk[c].overlaps <= 1 => Undisturbed(walk[c]), walk'[c].overlaps <= 1
  PROVE  Undisturbed(walk[c])'
<1>1. /\ walk[c].bank \in Banks /\ walk[c].count \in 0..RULES_MAX
      /\ walk[c].i \in 1..(RULES_MAX + 1) /\ walk[c].overlaps \in 0..2
  BY DEF Walks
<1>2. walk[c].overlaps <= 1 /\ Undisturbed(walk[c])
  BY <1>1, ObserveFacts
<1>3. \/ /\ OnActiveBank(walk[c]) /\ CONFIG' = CONFIG
         /\ \A k \in Slots : RULES'[<<CONFIG.active_bank, k>>]
                              = RULES[<<CONFIG.active_bank, k>>]
      \/ /\ walk[c].overlaps = 1 /\ pc' = "idle"
         /\ UNCHANGED <<RULES, DEFAULT_POLICY>>
  <2>1. CASE OnActiveBank(walk[c])
    <3>1. pc = "write" => walk[c].overlaps = 1
      BY <1>1, <1>2 DEF Undisturbed
    <3> QED
      BY <2>1, <3>1, ActiveBankIsStable
  <2>2. CASE ~OnActiveBank(walk[c])
    <3>1. pc = "idle" /\ walk[c].overlaps = 1
      BY <1>2, <2>2 DEF Undisturbed
    <3>2. pc' = "idle"
      BY <3>1, ObserveFacts
    <3> QED
      BY <3>1, <3>2, IdleKeepsMaps DEF maps
  <2> QED
    BY <2>1, <2>2
<1>4. walk[c].i - 1 \in 0..RULES_MAX /\ walk[c].i - 1 <= walk[c].count
  BY <1>1, RulesMaxAssumption
<1>5. CASE /\ OnActiveBank(walk[c]) /\ CONFIG' = CONFIG
           /\ \A k \in Slots : RULES'[<<CONFIG.active_bank, k>>]
                                = RULES[<<CONFIG.active_bank, k>>]
  <2>1. OnActiveBank(walk[c])'
    BY <1>5, ObserveFacts DEF OnActiveBank
  <2>2. (walk[c].overlaps = 0)' => pc' = "idle"
    BY <1>1, <1>2, ObserveFacts DEF Undisturbed
  <2>3. \A j \in 1..(walk'[c].i - 1) : ~Matches(RULES'[<<walk'[c].bank, j>>], walk'[c].p)
    <3>1. \A j \in 1..(walk[c].i - 1) : j \in Slots
      BY <1>4, RulesMaxAssumption
    <3>2. \A j \in 1..(walk[c].i - 1) :
            RULES'[<<walk[c].bank, j>>] = RULES[<<walk[c].bank, j>>]
      BY <1>5, <3>1 DEF OnActiveBank
    <3> QED
      BY <1>2, <3>2, ObserveFacts DEF Undisturbed
  <2>4. (Verdict(WalkedRules(walk[c]), DEFAULT_POLICY, walk[c].p) \in walk[c].verdicts)'
    <3>1. WalkedRules(walk[c])' = ActiveRules'
      BY <2>1 DEF OnActiveBank, WalkedRules, ActiveRules
    <3> QED
      BY <3>1, ObserveFacts
  <2> QED
    BY <2>1, <2>2, <2>3, <2>4 DEF Undisturbed
<1>6. CASE /\ walk[c].overlaps = 1 /\ pc' = "idle"
           /\ UNCHANGED <<RULES, DEFAULT_POLICY>>
  <2>1. walk'[c].overlaps = 1
    BY <1>6, ObserveFacts
  <2>2. \A j \in 1..(walk'[c].i - 1) : ~Matches(RULES'[<<walk'[c].bank, j>>], walk'[c].p)
    BY <1>2, <1>6, ObserveFacts DEF Undisturbed
  <2>3. WalkedRules(walk[c])' = WalkedRules(walk[c])
    BY <1>6, ObserveFacts DEF WalkedRules
  <2>4. (Verdict(WalkedRules(walk[c]), DEFAULT_POLICY, walk[c].p) \in walk[c].verdicts)'
    BY <1>2, <1>6, <2>3, ObserveFacts DEF Undisturbed
  <2> QED
    BY <1>6, <2>1, <2>2, <2>4 DEF Undisturbed
<1> QED
  BY <1>3, <1>5, <1>6
\* A walk in progress, or ended, holds the values of walk_rules.
LEMMA WalksOnly ==
  ASSUME WTypeOK, NEW c \in Cpus, walk[c].at \in {"walk", "done"}
  PROVE  walk[c] \in Walks /\ walk[c].i <= walk[c].count + 1
<1>1. walk[c] # NoWalk
  BY DEF NoWalk
<1> QED
  BY <1>1 DEF WTypeOK

\* WIInv holds before moatd first runs: no packet is being looked at.
LEMMA WInitWIInv == WInit => WIInv
<1> SUFFICES ASSUME WInit PROVE WIInv
  OBVIOUS
<1>1. IInv /\ TypeOK
  BY InitIInv DEF WInit, IInv
<1>2. \A c \in Cpus : walk[c] = NoWalk /\ walk[c].at = "idle"
  BY DEF WInit, NoWalk
<1>3. walk \in [Cpus -> {NoWalk} \cup Walks]
  BY DEF WInit
<1> QED
  BY <1>1, <1>2, <1>3 DEF WIInv, WTypeOK, Snapshot, Walking, VerdictOfOneInstant

\* A step of the daemon, seen by every walk at once.
LEMMA DaemonStepWIInv == WIInv /\ DaemonStep => WIInv'
<1> SUFFICES ASSUME WIInv, DaemonStep PROVE WIInv'
  OBVIOUS
<1>1. IInv /\ IInv' /\ TypeOK'
  BY NextIInv DEF WIInv, DaemonStep, IInv
<1>2. CASE daemon' \in {"down", "failed"}
  <2>1. walk' = [c \in Cpus |-> NoWalk]
    BY <1>2 DEF DaemonStep
  <2>2. \A c \in Cpus : walk'[c] = NoWalk /\ walk'[c].at = "idle"
    BY <2>1 DEF NoWalk
  <2> QED
    BY <1>1, <2>1, <2>2 DEF WIInv, WTypeOK, Snapshot, Walking, VerdictOfOneInstant
<1>3. CASE daemon' \notin {"down", "failed"}
  <2>1. walk' = [c \in Cpus |-> Observe(walk[c])]
    BY <1>3 DEF DaemonStep
  <2>2. \A c \in Cpus : walk'[c] = Observe(walk[c])
    BY <2>1
  <2>3. ASSUME NEW c \in Cpus, ~Walking(c) PROVE walk'[c] = walk[c]
    BY <2>2, <2>3 DEF Observe, Walking
  <2>4. ASSUME NEW c \in Cpus
        PROVE  /\ walk'[c] \in {NoWalk} \cup Walks
               /\ walk'[c] # NoWalk => walk'[c].i <= walk'[c].count + 1
    <3>1. CASE Walking(c)
      <4>1. walk[c] \in Walks /\ walk[c].i <= walk[c].count + 1
        BY <3>1, WalksOnly DEF WIInv, Walking
      <4> QED
        BY <1>1, <2>2, <3>1, <4>1, ObserveFacts
    <3>2. CASE ~Walking(c)
      BY <2>3, <3>2 DEF WIInv, WTypeOK
    <3> QED
      BY <3>1, <3>2
  <2>5. WTypeOK'
    <3>1. walk' \in [Cpus -> {NoWalk} \cup Walks]
      BY <2>1, <2>2, <2>4
    <3> QED
      BY <1>1, <2>4, <3>1 DEF WTypeOK
  <2>6. ASSUME "config" \notin Faults, NEW c \in Cpus,
               walk'[c].at = "walk", walk'[c].overlaps <= 1
        PROVE  Undisturbed(walk[c])'
    <3>1. Walking(c)
      BY <2>3, <2>6 DEF Walking
    <3>2. walk[c] \in Walks /\ walk[c].i <= walk[c].count + 1
      BY <3>1, WalksOnly DEF WIInv, Walking
    <3>3. walk[c].overlaps <= 1 => Undisturbed(walk[c])
      BY <2>6, <3>1 DEF WIInv, Snapshot
    <3> QED
      BY <1>1, <1>3, <2>2, <2>6, <3>1, <3>2, <3>3, ObserveUndisturbed DEF DaemonStep
  <2>7. ASSUME "config" \notin Faults, NEW c \in Cpus,
               walk'[c].at = "done", walk'[c].overlaps <= 1
        PROVE  walk'[c].verdict \in walk'[c].verdicts
    <3>1. ~Walking(c)
      <4> SUFFICES ASSUME Walking(c) PROVE FALSE
        OBVIOUS
      <4>1. walk[c] \in Walks
        BY WalksOnly DEF WIInv, Walking
      <4> QED
        BY <2>2, <2>7, <4>1, ObserveFacts
    <3> QED
      BY <2>3, <2>7, <3>1 DEF WIInv, VerdictOfOneInstant
  <2> QED
    BY <1>1, <2>5, <2>6, <2>7 DEF WIInv, Snapshot, Walking, VerdictOfOneInstant
<1> QED
  BY <1>2, <1>3

\* A step of one walk leaves the others, and the daemon, alone.
LEMMA OneWalkWIInv ==
  ASSUME WIInv, UNCHANGED vars, NEW c \in Cpus, NEW w \in Walks,
         walk' = [walk EXCEPT ![c] = w], w.i <= w.count + 1,
         "config" \notin Faults /\ w.at = "walk" /\ w.overlaps <= 1 => Undisturbed(w),
         "config" \notin Faults /\ w.at = "done" /\ w.overlaps <= 1
           => w.verdict \in w.verdicts
  PROVE  WIInv'
<1>1. IInv' /\ TypeOK'
  BY StutterIInv DEF WIInv, IInv
<1>2. walk'[c] = w /\ \A d \in Cpus \ {c} : walk'[d] = walk[d]
  BY DEF WIInv, WTypeOK
<1>3. WTypeOK'
  BY <1>1, <1>2 DEF WIInv, WTypeOK
<1>4. UNCHANGED <<RULES, DEFAULT_POLICY, CONFIG, pc>>
  BY DEF vars, maps
<1>5. ASSUME "config" \notin Faults, NEW d \in Cpus,
             walk'[d].at = "walk", walk'[d].overlaps <= 1
      PROVE  Undisturbed(walk[d])'
  <2>1. Undisturbed(walk'[d])
    BY <1>2, <1>5 DEF WIInv, Snapshot, Walking
  <2> QED
    BY <1>4, <2>1 DEF Undisturbed, OnActiveBank, WalkedRules
<1>6. ASSUME "config" \notin Faults PROVE VerdictOfOneInstant'
  BY <1>2, <1>6 DEF WIInv, VerdictOfOneInstant
<1> QED
  BY <1>1, <1>3, <1>5, <1>6 DEF WIInv, Snapshot, Walking
\* A walk starts on the bank in force, heading for the verdict of now.
LEMMA ReadConfigWIInv ==
  ASSUME WIInv, NEW c \in Cpus, NEW p \in Packets, ReadConfig(c, p)
  PROVE  WIInv'
<1> DEFINE w == [at |-> "walk", p |-> p, bank |-> CONFIG.active_bank,
                 count |-> CONFIG.rule_count, i |-> 1, verdict |-> "none",
                 verdicts |-> {VerdictNow(p)},
                 overlaps |-> IF pc = "idle" THEN 0 ELSE 1]
<1>1. walk' = [walk EXCEPT ![c] = w] /\ UNCHANGED vars
  BY DEF ReadConfig
<1>2. TypeOK /\ VerdictNow(p) \in Actions
  BY VerdictNowType DEF WIInv, WTypeOK
<1>3. CONFIG.active_bank \in Banks /\ CONFIG.rule_count \in 0..RULES_MAX
  BY <1>2 DEF TypeOK, GlobalConfig
<1>4. w \in Walks
  BY <1>2, <1>3, RulesMaxAssumption DEF Walks
<1>5. w.i <= w.count + 1
  BY <1>3, RulesMaxAssumption
<1>6. Undisturbed(w)
  <2>1. OnActiveBank(w) /\ WalkedRules(w) = ActiveRules
    BY DEF OnActiveBank, WalkedRules, ActiveRules
  <2>2. Verdict(WalkedRules(w), DEFAULT_POLICY, w.p) \in w.verdicts
    BY <2>1 DEF VerdictNow
  <2>3. w.overlaps = 0 => pc = "idle"
    OBVIOUS
  <2>4. 1..(w.i - 1) = {}
    OBVIOUS
  <2> HIDE DEF w
  <2> QED
    BY <2>1, <2>2, <2>3, <2>4 DEF Undisturbed
<1>7. w.at = "walk"
  OBVIOUS
<1> HIDE DEF w
<1> QED
  BY <1>1, <1>4, <1>5, <1>6, <1>7, OneWalkWIInv

\* A slot either decides, and is then the first of its list to match, or is
\* passed.
LEMMA ReadSlotWIInv ==
  ASSUME WIInv, NEW c \in Cpus, ReadSlot(c)
  PROVE  WIInv'
<1> DEFINE w == walk[c]
           rule == RULES[<<w.bank, w.i>>]
           hit == [w EXCEPT !.at = "done", !.verdict = rule.action]
           miss == [w EXCEPT !.i = @ + 1]
<1>1. w \in Walks /\ w.i <= w.count /\ w.at = "walk"
  BY WalksOnly DEF WIInv, ReadSlot, Walking
<1>2. /\ w.bank \in Banks /\ w.count \in 0..RULES_MAX /\ w.i \in 1..(RULES_MAX + 1)
      /\ w.p \in Packets
  BY <1>1 DEF Walks
<1>3. w.count \in Nat /\ w.i \in 1..w.count /\ w.i \in Slots
  BY <1>1, <1>2, RulesMaxAssumption
<1>4. rule \in WireRule
  BY <1>2, <1>3 DEF WIInv, IInv, TypeOK
<1>5. ASSUME "config" \notin Faults, w.overlaps <= 1 PROVE Undisturbed(w)
  BY <1>1, <1>5 DEF WIInv, Snapshot, Walking
<1>6. CASE Matches(rule, w.p)
  <2>1. walk' = [walk EXCEPT ![c] = hit] /\ UNCHANGED vars
    BY <1>6 DEF ReadSlot, WIInv, WTypeOK
  <2>2. hit \in Walks
    BY <1>1, <1>4 DEF Walks, WireRule
  <2>3. /\ hit.i = w.i /\ hit.count = w.count /\ hit.at = "done"
        /\ hit.verdict = rule.action /\ hit.verdicts = w.verdicts
        /\ hit.overlaps = w.overlaps
    BY <1>1 DEF Walks
  <2>4. hit.i <= hit.count + 1
    BY <1>3, <2>3
  <2>5. ASSUME "config" \notin Faults, hit.overlaps <= 1
        PROVE  hit.verdict \in hit.verdicts
    <3> DEFINE rules == WalkedRules(w)
    <3>1. Undisturbed(w)
      BY <1>5, <2>3, <2>5
    <3>2. DOMAIN rules = 1..w.count
          /\ \A k \in 1..w.count : rules[k] = RULES[<<w.bank, k>>]
      BY DEF WalkedRules
    <3>3. \A j \in 1..(w.i - 1) : ~Matches(rules[j], w.p)
      <4> SUFFICES ASSUME NEW j \in 1..(w.i - 1) PROVE ~Matches(rules[j], w.p)
        OBVIOUS
      <4>1. j \in 1..w.count
        BY <1>3
      <4> QED
        BY <3>1, <3>2, <4>1 DEF Undisturbed
    <3>4. Matches(rules[w.i], w.p) /\ rules[w.i] = rule
      BY <1>3, <1>6, <3>2
    <3>5. Verdict(rules, DEFAULT_POLICY, w.p) = rule.action
      <4> HIDE DEF rules, rule, w
      <4> QED
        BY <1>3, <3>2, <3>3, <3>4, FirstMatch
    <3> QED
      BY <2>3, <3>1, <3>5 DEF Undisturbed
  <2> HIDE DEF hit
  <2> QED
    BY <2>1, <2>2, <2>3, <2>4, <2>5, OneWalkWIInv
<1>7. CASE ~Matches(rule, w.p)
  <2>1. walk' = [walk EXCEPT ![c] = miss] /\ UNCHANGED vars
    BY <1>7 DEF ReadSlot, WIInv, WTypeOK
  <2>2. miss \in Walks
    <3>1. w.i + 1 \in 1..(RULES_MAX + 1)
      BY <1>3, RulesMaxAssumption
    <3> QED
      BY <1>1, <3>1 DEF Walks
  <2>3. /\ miss.i = w.i + 1 /\ miss.count = w.count /\ miss.at = "walk"
        /\ miss.bank = w.bank /\ miss.p = w.p /\ miss.verdicts = w.verdicts
        /\ miss.overlaps = w.overlaps
    BY <1>1 DEF Walks
  <2>4. miss.i <= miss.count + 1
    BY <1>3, <2>3
  <2>5. ASSUME "config" \notin Faults, miss.overlaps <= 1 PROVE Undisturbed(miss)
    <3>1. Undisturbed(w)
      BY <1>5, <2>3, <2>5
    <3>2. OnActiveBank(miss) <=> OnActiveBank(w)
      BY <2>3 DEF OnActiveBank
    <3>3. WalkedRules(miss) = WalkedRules(w)
      BY <2>3 DEF WalkedRules
    <3>4. \A j \in 1..(miss.i - 1) : j = w.i \/ j \in 1..(w.i - 1)
      BY <1>3, <2>3
    <3> HIDE DEF miss
    <3> QED
      BY <1>7, <2>3, <3>1, <3>2, <3>3, <3>4 DEF Undisturbed
  <2> HIDE DEF miss
  <2> QED
    BY <2>1, <2>2, <2>3, <2>4, <2>5, OneWalkWIInv
<1> QED
  BY <1>6, <1>7

\* After the last live slot no rule of the list matches, and the default read
\* now is the one of the verdict the walk was heading for.
LEMMA ReadDefaultWIInv ==
  ASSUME WIInv, NEW c \in Cpus, ReadDefault(c)
  PROVE  WIInv'
<1> DEFINE w == walk[c]
           default == DEFAULT_POLICY[w.p.direction]
           done == [w EXCEPT !.at = "done", !.verdict = default]
<1>1. w \in Walks /\ w.i <= w.count + 1 /\ w.i > w.count /\ w.at = "walk"
  BY WalksOnly DEF WIInv, ReadDefault, Walking
<1>2. w.count \in 0..RULES_MAX /\ w.i \in 1..(RULES_MAX + 1) /\ w.p \in Packets
  BY <1>1 DEF Walks
<1>3. w.i - 1 = w.count
  BY <1>1, <1>2, RulesMaxAssumption
<1>4. default \in Actions
  BY <1>2, PacketsAssumption DEF WIInv, IInv, TypeOK
<1>5. walk' = [walk EXCEPT ![c] = done] /\ UNCHANGED vars
  BY DEF ReadDefault, WIInv, WTypeOK
<1>6. done \in Walks
  BY <1>1, <1>4 DEF Walks
<1>7. /\ done.i = w.i /\ done.count = w.count /\ done.at = "done"
      /\ done.verdict = default /\ done.verdicts = w.verdicts
      /\ done.overlaps = w.overlaps
  BY <1>1 DEF Walks
<1>8. ASSUME "config" \notin Faults, done.overlaps <= 1
      PROVE  done.verdict \in done.verdicts
  <2>1. Undisturbed(w)
    BY <1>1, <1>7, <1>8 DEF WIInv, Snapshot, Walking
  <2>2. DOMAIN WalkedRules(w) = 1..w.count
        /\ \A k \in 1..w.count : WalkedRules(w)[k] = RULES[<<w.bank, k>>]
    BY DEF WalkedRules
  <2>3. \A j \in DOMAIN WalkedRules(w) : ~Matches(WalkedRules(w)[j], w.p)
    BY <1>3, <2>1, <2>2 DEF Undisturbed
  <2>4. Verdict(WalkedRules(w), DEFAULT_POLICY, w.p) = default
    BY <2>3, NoMatch
  <2> QED
    BY <1>7, <2>1, <2>4 DEF Undisturbed
<1>9. done.i <= done.count + 1
  BY <1>1, <1>7
<1> HIDE DEF done
<1> QED
  BY <1>5, <1>6, <1>7, <1>8, <1>9, OneWalkWIInv

-----------------------------------------------------------------------------
(* The theorems. *)

\* The invariant of the daemon and of every walk on its maps.
THEOREM WInvariance == WSpec => []WIInv
<1>1. WIInv /\ [WNext]_walkVars => WIInv'
  <2> SUFFICES ASSUME WIInv, [WNext]_walkVars PROVE WIInv'
    OBVIOUS
  <2>1. CASE UNCHANGED walkVars
    <3>1. IInv'
      BY <2>1, StutterIInv DEF WIInv, walkVars
    <3>2. UNCHANGED <<walk, RULES, DEFAULT_POLICY, CONFIG, pc>>
      BY <2>1 DEF walkVars, vars, maps
    <3>3. WTypeOK'
      BY <3>1, <3>2 DEF WIInv, WTypeOK, IInv
    <3>4. ASSUME "config" \notin Faults PROVE Snapshot' /\ VerdictOfOneInstant'
      BY <3>2, <3>4 DEF WIInv, Snapshot, Walking, Undisturbed, OnActiveBank,
                        WalkedRules, VerdictOfOneInstant
    <3> QED
      BY <3>1, <3>3, <3>4 DEF WIInv
  <2> QED
    BY <2>1, DaemonStepWIInv, ReadConfigWIInv, ReadSlotWIInv, ReadDefaultWIInv
    DEF WNext
<1> QED
  BY <1>1, WInitWIInv, PTL DEF WSpec

\* The walk's variables hold values of their kinds and a walk never reads past
\* the rule_count it started with, whatever fails and however many operations
\* it overlaps.
THEOREM WTypeCorrect == WSpec => []WTypeOK
<1>1. WIInv => WTypeOK
  BY DEF WIInv
<1> QED
  BY <1>1, WInvariance, PTL

\* As long as no CONFIG write fails, a packet whose walk overlaps at most one
\* operation gets the verdict of one instant.
THEOREM VerdictsAreOfOneInstant ==
  ASSUME "config" \notin Faults
  PROVE  WSpec => []VerdictOfOneInstant
<1>1. WIInv => VerdictOfOneInstant
  BY DEF WIInv
<1> QED
  BY <1>1, WInvariance, PTL

\* As long as no CONFIG write fails, the operation a walk overlaps writes the
\* other bank.
THEOREM OneSyncSafe ==
  ASSUME "config" \notin Faults
  PROVE  WSpec => []OneSyncIsSafe
<1>1. WIInv => OneSyncIsSafe
  <2> SUFFICES ASSUME WIInv, NEW c \in Cpus, Walking(c), walk[c].overlaps <= 1,
                      pc = "write"
               PROVE  walk[c].bank # target
    BY DEF OneSyncIsSafe
  <2>1. OnActiveBank(walk[c])
    BY DEF WIInv, Snapshot, Undisturbed
  <2>2. active_bank = CONFIG.active_bank /\ active_bank \in Banks
    BY DEF WIInv, IInv, SameBank, TypeOK
  <2> QED
    BY <2>1, <2>2 DEF OnActiveBank, target
<1> QED
  BY <1>1, WInvariance, PTL
=============================================================================
