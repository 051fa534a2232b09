--------------------------- MODULE RuleSyncProofs ---------------------------
(***************************************************************************)
(* Proofs about RuleSync, for every bank size, rule set, fault set and     *)
(* bound.                                                                  *)
(***************************************************************************)
EXTENDS RuleSync, SequenceTheorems, TLAPS

USE DEF Banks, Slots, IFACE_ANY, IFACE_ABSENT

\* PolicyOf of a configuration is a default policy map.
LEMMA PolicyOfType ==
  ASSUME NEW c \in OnDisk
  PROVE  PolicyOf(c) \in [Directions -> Actions]
BY DEF PolicyOf, OnDisk, Directions, Actions

\* OnDisk::default() is a configuration.
LEMMA DefaultDiskType == DefaultDisk \in OnDisk
BY DEF DefaultDisk, OnDisk, Actions

\* Vec::remove leaves a list of rules, one shorter.
LEMMA WithoutType ==
  ASSUME NEW S, NEW s \in Seq(S), NEW k \in 1..Len(s)
  PROVE  Without(s, k) \in Seq(S)
<1>1. Len(s) - 1 \in Nat
  BY LenProperties
<1>2. \A j \in 1..(Len(s) - 1) : (IF j < k THEN s[j] ELSE s[j + 1]) \in S
  BY LenProperties, ElementOfSeq
<1> QED
  BY <1>1, <1>2, SeqDef DEF Without

\* rule_count fits a bank.
LEMMA LiveCountType ==
  ASSUME NEW c \in OnDisk
  PROVE  /\ LiveCount(c) \in 0..RULES_MAX
         /\ LiveCount(c) <= Len(c.rules)
<1>1. c.rules \in Seq(UserRules)
  BY DEF OnDisk
<1>2. Len(c.rules) \in Nat
  BY <1>1, LenProperties
<1> QED
  BY <1>2, RulesMaxAssumption DEF LiveCount

\* resolve_iface yields IFACE_ANY, IFACE_ABSENT or an ifindex.
LEMMA ResolveType ==
  ASSUME NEW u \in UserRules, NEW x \in resolve_iface(u.iface)
  PROVE  build_wire_rule(u, x) \in WireRule
<1>1. u \in UserRuleType
  BY RulesAssumption
<1>2. x \in Nat \cup {IFACE_ABSENT}
  BY <1>1, RulesAssumption DEF resolve_iface, UserRuleType
<1> QED
  BY <1>1, <1>2 DEF build_wire_rule, WireRule, UserRuleType

\* The zeroed maps of a new process hold values of their kinds.
LEMMA ZeroTypes ==
  /\ ZeroRules \in [Banks \X Slots -> WireRule]
  /\ ZeroPolicy \in [Directions -> Actions]
  /\ ZeroConfig \in GlobalConfig
<1>1. EmptySlot \in WireRule
  BY DEF EmptySlot, WireRule, Directions, Actions
<1>2. ZeroRules \in [Banks \X Slots -> WireRule]
  BY <1>1 DEF ZeroRules
<1>3. ZeroPolicy \in [Directions -> Actions]
  BY DEF ZeroPolicy, Actions
<1>4. ZeroConfig \in GlobalConfig
  BY RulesMaxAssumption DEF ZeroConfig, GlobalConfig
<1> QED
  BY <1>2, <1>3, <1>4

-----------------------------------------------------------------------------
(* The inductive invariant. *)

\* Which operation may be at which call, and what its answer is so far.
Control ==
  /\ pc = "idle" <=> req = "none"
  /\ daemon = "starting" <=> req = "start"
  /\ daemon \in {"down", "failed"} => pc = "idle" /\ resp = "none"
  /\ pc = "load" => req = "start"
  /\ pc = "save" => req \in Requests
  /\ pc \in {"policy_in", "policy_out"} => req # "watch"
  /\ req \in Requests \cup {"start"} => resp = "none"

\* What the operation in progress has already done.
Progress ==
  /\ req \in Requests /\ pc # "save" => file = on_disk
  /\ req # "watch" /\ pc \in {"policy_out", "build", "write"}
       => DEFAULT_POLICY["in"] = on_disk.default_in
  /\ req # "watch" /\ pc \in {"build", "write"}
       => DEFAULT_POLICY["out"] = on_disk.default_out
  /\ req = "reset" => on_disk = DefaultDisk

\* sync_rules: wire_rules is a translation of all the rules, and the slots
\* written so far hold it.
Written ==
  pc = "write" =>
    /\ Len(wire) = Len(on_disk.rules)
    /\ \A k \in 1..Len(on_disk.rules) : IsWireOf(wire[k], on_disk.rules[k])
    /\ n <= LiveCount(on_disk) + 1
    /\ \A k \in 1..(n - 1) : RULES[<<target, k>>] = wire[k]

\* As long as no CONFIG write fails, daemon and kernel agree on the bank.
SameBank == "config" \notin Faults => active_bank = CONFIG.active_bank

IInv == TypeOK /\ Control /\ Progress /\ Written /\ SameBank /\ AckedMeansEnforced

-----------------------------------------------------------------------------
(* Facts about InForce. *)

\* InForce spelled out over the maps.
MapsMatch ==
  /\ DEFAULT_POLICY["in"] = on_disk.default_in
  /\ DEFAULT_POLICY["out"] = on_disk.default_out
  /\ CONFIG.logging_enabled = on_disk.logging_enabled
  /\ CONFIG.conntrack_enabled = NeedsConntrack(on_disk)
  /\ CONFIG.rule_count = LiveCount(on_disk)
  /\ \A k \in 1..LiveCount(on_disk) :
       IsWireOf(RULES[<<CONFIG.active_bank, k>>], on_disk.rules[k])

\* A list read from a bank has rule_count elements.
LEMMA BankList ==
  ASSUME NEW R \in [Banks \X Slots -> WireRule], NEW b \in Banks,
         NEW m \in 0..RULES_MAX
  PROVE  /\ [k \in 1..m |-> R[<<b, k>>]] \in Seq(WireRule)
         /\ Len([k \in 1..m |-> R[<<b, k>>]]) = m
<1>1. m \in Nat
  BY RulesMaxAssumption
<1>2. \A k \in 1..m : R[<<b, k>>] \in WireRule
  BY <1>1, RulesMaxAssumption
<1>3. [k \in 1..m |-> R[<<b, k>>]] \in [1..m -> WireRule]
  BY <1>2
<1>4. [k \in 1..m |-> R[<<b, k>>]] \in Seq(WireRule)
  BY <1>1, <1>3, SeqDef
<1> QED
  BY <1>1, <1>4, LenProperties

\* The list walk_rules scans has rule_count elements.
LEMMA ListLength ==
  ASSUME NEW R \in [Banks \X Slots -> WireRule], NEW C \in GlobalConfig
  PROVE  Len([k \in 1..C.rule_count |-> R[<<C.active_bank, k>>]]) = C.rule_count
<1>1. C.rule_count \in 0..RULES_MAX /\ C.active_bank \in Banks
  BY DEF GlobalConfig
<1> QED
  BY <1>1, BankList

\* InForce, slot by slot: the form the steps are proved about.
LEMMA InForceMaps == TypeOK => (InForce <=> MapsMatch)
<1> SUFFICES ASSUME TypeOK PROVE InForce <=> MapsMatch
  OBVIOUS
<1>1. DEFAULT_POLICY = PolicyOf(on_disk)
        <=> /\ DEFAULT_POLICY["in"] = on_disk.default_in
            /\ DEFAULT_POLICY["out"] = on_disk.default_out
  BY DEF TypeOK, PolicyOf, Directions
<1>2. Len(ActiveRules) = CONFIG.rule_count
  BY ListLength DEF TypeOK, ActiveRules
<1>3. CONFIG.rule_count \in Nat
  BY RulesMaxAssumption DEF TypeOK, GlobalConfig
<1>4. \A k \in 1..CONFIG.rule_count :
        ActiveRules[k] = RULES[<<CONFIG.active_bank, k>>]
  BY <1>3 DEF ActiveRules
<1> QED
  BY <1>1, <1>2, <1>4 DEF InForce, MapsMatch, Table, Implements

\* The same of the next state.
LEMMA InForceMapsNext == TypeOK' => (InForce' <=> MapsMatch')
<1> SUFFICES ASSUME TypeOK' PROVE InForce' <=> MapsMatch'
  OBVIOUS
<1>1. DEFAULT_POLICY' = PolicyOf(on_disk')
        <=> /\ DEFAULT_POLICY'["in"] = on_disk'.default_in
            /\ DEFAULT_POLICY'["out"] = on_disk'.default_out
  BY DEF TypeOK, PolicyOf, Directions
<1>2. Len(ActiveRules') = CONFIG'.rule_count
  BY ListLength DEF TypeOK, ActiveRules
<1>3. CONFIG'.rule_count \in Nat
  BY RulesMaxAssumption DEF TypeOK, GlobalConfig
<1>4. \A k \in 1..CONFIG'.rule_count :
        ActiveRules'[k] = RULES'[<<CONFIG'.active_bank, k>>]
  BY <1>3 DEF ActiveRules
<1> QED
  BY <1>1, <1>2, <1>4 DEF InForce, MapsMatch, Table, Implements

\* InForce depends on the configuration and the maps only.
LEMMA InForceUnchanged ==
  ASSUME UNCHANGED <<on_disk, maps>>
  PROVE  InForce' <=> InForce
BY DEF maps, InForce, Table, ActiveRules, Implements

-----------------------------------------------------------------------------
(* The steps, by kind. *)

\* IInv holds before moatd first runs.
LEMMA InitIInv == Init => IInv
<1> SUFFICES ASSUME Init PROVE IInv
  OBVIOUS
<1>1. TypeOK
  <2>1. file \in OnDisk /\ on_disk \in OnDisk
    BY InitFilesAssumption, DefaultDiskType DEF Init
  <2>2. wire \in Seq(WireRule)
    BY EmptySeq DEF Init
  <2>3. n \in 1..(RULES_MAX + 1)
    BY RulesMaxAssumption DEF Init
  <2>4. ops \in 0..MaxOps /\ exits \in 0..MaxExits
    BY BoundsAssumption DEF Init
  <2> QED
    BY <2>1, <2>2, <2>3, <2>4, ZeroTypes DEF Init, TypeOK
<1>2. Control /\ Progress /\ Written /\ AckedMeansEnforced
  BY DEF Init, Control, Progress, Written, AckedMeansEnforced, Requests
<1>3. SameBank
  BY DEF Init, SameBank, ZeroConfig
<1> QED
  BY <1>1, <1>2, <1>3 DEF IInv

\* The end of the process.
LEMMA NoProcessIInv ==
  ASSUME IInv, NEW d \in {"down", "failed"}, NoProcess(d), file' = file,
         ops' \in 0..MaxOps, exits' \in 0..MaxExits
  PROVE  IInv'
<1>1. TypeOK'
  <2>1. wire' \in Seq(WireRule)
    BY EmptySeq DEF NoProcess
  <2>2. n' \in 1..(RULES_MAX + 1)
    BY RulesMaxAssumption DEF NoProcess
  <2> QED
    BY <2>1, <2>2, ZeroTypes, DefaultDiskType DEF IInv, TypeOK, NoProcess
<1>2. Control' /\ Progress' /\ Written' /\ AckedMeansEnforced'
  BY DEF NoProcess, Control, Progress, Written, AckedMeansEnforced, Requests
<1>3. SameBank'
  BY DEF NoProcess, SameBank, ZeroConfig
<1> QED
  BY <1>1, <1>2, <1>3 DEF IInv

\* A start takes the mutex and touches no map.
LEMMA AttachIInv == IInv /\ Attach => IInv'
<1> SUFFICES ASSUME IInv, Attach PROVE IInv'
  OBVIOUS
<1>1. TypeOK'
  BY DEF IInv, TypeOK, Attach, maps, bounds
<1>2. Control' /\ Progress' /\ Written' /\ SameBank'
  BY DEF IInv, Control, Progress, Written, SameBank, Attach, maps, Requests
<1>3. AckedMeansEnforced'
  BY DEF IInv, Control, Attach, AckedMeansEnforced
<1> QED
  BY <1>1, <1>2, <1>3 DEF IInv

\* Reading the rules file, or falling back to the defaults.
LEMMA LoadIInv == IInv /\ Load => IInv'
<1> SUFFICES ASSUME IInv, Load PROVE IInv'
  OBVIOUS
<1>1. on_disk' \in OnDisk
  BY DefaultDiskType DEF IInv, TypeOK, Load
<1>2. TypeOK'
  BY <1>1 DEF IInv, TypeOK, Load, maps, bounds
<1>3. req = "start" /\ resp = "none"
  BY DEF IInv, Control, Load
<1>4. Control' /\ Progress' /\ Written' /\ SameBank'
  BY <1>3 DEF IInv, Control, Progress, Written, SameBank, Load, maps, Requests
<1>5. AckedMeansEnforced'
  BY <1>3 DEF Load, AckedMeansEnforced
<1> QED
  BY <1>2, <1>4, <1>5 DEF IInv

\* A crash or a stop, at any point.
LEMMA ExitIInv == IInv /\ Exit => IInv'
<1> SUFFICES ASSUME IInv, Exit PROVE IInv'
  OBVIOUS
<1>1. ops' \in 0..MaxOps /\ exits' \in 0..MaxExits
  BY BoundsAssumption DEF IInv, TypeOK, Exit
<1> QED
  BY <1>1, NoProcessIInv DEF Exit

\* A refused request changes only the answer.
LEMMA RefuseIInv == IInv /\ Refuse => IInv'
<1> SUFFICES ASSUME IInv, Refuse PROVE IInv'
  OBVIOUS
<1>1. TypeOK'
  BY DEF IInv, TypeOK, Refuse, maps, bounds
<1>2. Control' /\ Progress' /\ Written' /\ SameBank' /\ AckedMeansEnforced'
  BY DEF IInv, Control, Progress, Written, SameBank, AckedMeansEnforced, Refuse,
         Unlocked, maps, Requests
<1> QED
  BY <1>1, <1>2 DEF IInv

\* A handler that accepts its request.
LEMMA HandleIInv ==
  ASSUME IInv, NEW kind \in Requests, NEW c \in OnDisk,
         kind = "reset" => c = DefaultDisk, Handle(kind, c)
  PROVE  IInv'
<1>1. ops' \in 0..MaxOps
  BY BoundsAssumption DEF IInv, TypeOK, Handle, Lock
<1>2. TypeOK'
  BY <1>1 DEF IInv, TypeOK, Handle, Lock, maps, Requests
<1>3. Control' /\ Progress' /\ Written' /\ SameBank' /\ AckedMeansEnforced'
  BY DEF IInv, Control, Progress, Written, SameBank, AckedMeansEnforced, Handle,
         Lock, Unlocked, maps, Requests
<1> QED
  BY <1>2, <1>3 DEF IInv

\* Reading changes nothing.
LEMMA StutterIInv == IInv /\ UNCHANGED vars => IInv'
<1> SUFFICES ASSUME IInv, UNCHANGED vars PROVE IInv'
  OBVIOUS
<1>1. TypeOK'
  BY DEF IInv, TypeOK, vars, maps, bounds
<1>2. Control' /\ Progress' /\ SameBank'
  BY DEF IInv, Control, Progress, SameBank, vars, maps
<1>3. Written'
  BY DEF IInv, Written, target, vars, maps
<1>4. AckedMeansEnforced'
  BY InForceUnchanged DEF IInv, AckedMeansEnforced, vars
<1> QED
  BY <1>1, <1>2, <1>3, <1>4 DEF IInv

\* Every request keeps the configuration well-typed, and IInv with it.
LEMMA RequestIInv == IInv /\ Request => IInv'
<1> SUFFICES ASSUME IInv, Request PROVE IInv'
  OBVIOUS
<1>1. on_disk \in OnDisk /\ on_disk.rules \in Seq(UserRules)
  BY DEF IInv, TypeOK, OnDisk
<1>2. CASE \E u \in UserRules : add_rule(u)
  <2>1. PICK u \in UserRules : add_rule(u)
    BY <1>2
  <2>2. Append(on_disk.rules, u) \in Seq(UserRules)
    BY <1>1, AppendProperties
  <2>3. [on_disk EXCEPT !.rules = Append(@, u)] \in OnDisk
    BY <1>1, <2>2 DEF OnDisk
  <2> QED
    BY <2>1, <2>3, RefuseIInv, HandleIInv DEF add_rule, Requests
<1>3. CASE \E k \in 0..(RULES_MAX + 1) : delete_rule(k)
  <2>1. PICK k \in 0..(RULES_MAX + 1) : delete_rule(k)
    BY <1>3
  <2>2. CASE k = 0 \/ k > Len(on_disk.rules)
    BY <2>1, <2>2, RefuseIInv DEF delete_rule
  <2>3. CASE ~(k = 0 \/ k > Len(on_disk.rules))
    <3>1. k \in 1..Len(on_disk.rules)
      BY <1>1, <2>3, LenProperties, RulesMaxAssumption
    <3>2. Without(on_disk.rules, k) \in Seq(UserRules)
      BY <1>1, <3>1, WithoutType
    <3>3. [on_disk EXCEPT !.rules = Without(@, k)] \in OnDisk
      BY <1>1, <3>2 DEF OnDisk
    <3> QED
      BY <2>1, <2>3, <3>3, HandleIInv DEF delete_rule, Requests
  <2> QED
    BY <2>2, <2>3
<1>4. CASE \E d \in Directions, a \in Actions : set_default(d, a)
  <2>1. PICK d \in Directions, a \in Actions : set_default(d, a)
    BY <1>4
  <2>2. /\ [on_disk EXCEPT !.default_in = a] \in OnDisk
        /\ [on_disk EXCEPT !.default_out = a] \in OnDisk
    BY <1>1 DEF OnDisk
  <2> QED
    BY <2>1, <2>2, HandleIInv DEF set_default, Requests
<1>5. CASE \E b \in BOOLEAN : set_logging(b)
  <2>1. PICK b \in BOOLEAN : set_logging(b)
    BY <1>5
  <2>2. [on_disk EXCEPT !.logging_enabled = b] \in OnDisk
    BY <1>1 DEF OnDisk
  <2> QED
    BY <2>1, <2>2, HandleIInv DEF set_logging, Requests
<1>6. CASE reset
  BY <1>6, HandleIInv, DefaultDiskType DEF reset, Requests
<1>7. CASE Query
  BY <1>7, StutterIInv DEF Query
<1> QED
  BY <1>2, <1>3, <1>4, <1>5, <1>6, <1>7 DEF Request

\* The watcher re-enters sync_rules and leaves the last answer alone.
LEMMA WatcherIInv == IInv /\ WatcherSync => IInv'
<1> SUFFICES ASSUME IInv, WatcherSync PROVE IInv'
  OBVIOUS
<1>1. ops' \in 0..MaxOps
  BY BoundsAssumption DEF IInv, TypeOK, WatcherSync, Lock
<1>2. TypeOK'
  BY <1>1 DEF IInv, TypeOK, WatcherSync, Lock, maps
<1>3. Control' /\ Progress' /\ Written' /\ SameBank'
  BY DEF IInv, Control, Progress, Written, SameBank, WatcherSync, Lock, Unlocked,
         maps, Requests
<1>4. AckedMeansEnforced'
  BY InForceUnchanged DEF IInv, AckedMeansEnforced, WatcherSync
<1> QED
  BY <1>2, <1>3, <1>4 DEF IInv

\* A call of the synchronisation fails.
LEMMA FailIInv ==
  ASSUME IInv, pc # "idle", NEW bank \in Banks,
         "config" \notin Faults => bank = active_bank, Fail(bank)
  PROVE  IInv'
<1>1. CASE req = "start"
  <2>1. /\ NoProcess("failed") /\ file' = file
        /\ ops' \in 0..MaxOps /\ exits' \in 0..MaxExits
    BY <1>1 DEF Fail, bounds, IInv, TypeOK
  <2> QED
    BY <2>1, NoProcessIInv
<1>2. CASE req # "start"
  <2>1. TypeOK'
    <3>1. wire' \in Seq(WireRule)
      BY <1>2, EmptySeq DEF Fail
    <3>2. n' \in 1..(RULES_MAX + 1)
      BY <1>2, RulesMaxAssumption DEF Fail
    <3> QED
      BY <1>2, <3>1, <3>2 DEF Fail, IInv, TypeOK, maps, bounds
  <2>2. Control' /\ Progress' /\ Written' /\ SameBank'
    BY <1>2 DEF Fail, IInv, Control, Progress, Written, SameBank, maps, Requests
  <2>3. AckedMeansEnforced'
    BY <1>2, InForceUnchanged DEF Fail, IInv, AckedMeansEnforced
  <2> QED
    BY <2>1, <2>2, <2>3 DEF IInv
<1> QED
  BY <1>1, <1>2

\* Wherever a call fails, IInv still holds.
LEMMA StepFailsIInv == IInv /\ StepFails => IInv'
<1> SUFFICES ASSUME IInv, StepFails PROVE IInv'
  OBVIOUS
<1>1. active_bank \in Banks /\ target \in Banks
  BY DEF IInv, TypeOK, target
<1> QED
  BY <1>1, FailIInv
  DEF StepFails, SaveFails, PolicyFails, BuildFails, SlotFails, ConfigFails, SlotsLeft

\* Saving makes file and on_disk equal, until the answer and after it.
LEMMA SaveIInv == IInv /\ Save => IInv'
<1> SUFFICES ASSUME IInv, Save PROVE IInv'
  OBVIOUS
<1>1. TypeOK'
  BY DEF IInv, TypeOK, Save, maps, bounds
<1>2. Control' /\ Progress' /\ Written' /\ SameBank'
  BY DEF IInv, Control, Progress, Written, SameBank, Save, maps, Requests
<1>3. AckedMeansEnforced'
  BY DEF IInv, Control, AckedMeansEnforced, Save
<1> QED
  BY <1>1, <1>2, <1>3 DEF IInv

\* sync_defaults brings one direction after the other in line.
LEMMA SetPolicyIInv == IInv /\ (SetPolicyIn \/ SetPolicyOut) => IInv'
<1> SUFFICES ASSUME IInv, SetPolicyIn \/ SetPolicyOut PROVE IInv'
  OBVIOUS
<1>1. on_disk \in OnDisk /\ PolicyOf(on_disk) \in [Directions -> Actions]
  BY PolicyOfType DEF IInv, TypeOK
<1>2. TypeOK'
  BY <1>1 DEF IInv, TypeOK, SetPolicyIn, SetPolicyOut, SetPolicy, bounds, Directions
<1>3. Control' /\ Written' /\ SameBank'
  BY DEF IInv, Control, Written, SameBank, SetPolicyIn, SetPolicyOut, SetPolicy,
         Requests
<1>4. Progress'
  BY DEF IInv, TypeOK, Progress, SetPolicyIn, SetPolicyOut, SetPolicy, PolicyOf,
         Directions, Requests
<1>5. AckedMeansEnforced'
  BY DEF IInv, TypeOK, Control, AckedMeansEnforced, SetPolicyIn, SetPolicyOut, SetPolicy
<1> QED
  BY <1>2, <1>3, <1>4, <1>5 DEF IInv

\* wire_rules is a translation of the rules in on_disk, one by one.
LEMMA BuildIInv == IInv /\ Build => IInv'
<1> SUFFICES ASSUME IInv, Build PROVE IInv'
  OBVIOUS
<1> DEFINE us == on_disk.rules
<1>1. us \in Seq(UserRules)
  BY DEF IInv, TypeOK, OnDisk
<1>2. DOMAIN us = 1..Len(us) /\ Len(us) \in Nat
  BY <1>1, LenProperties
<1>3. PICK x :
        /\ \A k \in 1..Len(us) : x[k] \in resolve_iface(us[k].iface)
        /\ wire' = [k \in 1..Len(us) |-> build_wire_rule(us[k], x[k])]
  BY <1>2 DEF Build
<1>4. \A k \in 1..Len(us) : build_wire_rule(us[k], x[k]) \in WireRule
  BY <1>1, <1>3, ElementOfSeq, ResolveType
<1>5. wire' \in Seq(WireRule)
  BY <1>2, <1>3, <1>4, SeqDef
<1>6. Len(wire') = Len(us)
  BY <1>2, <1>3, <1>5, LenProperties
<1>7. \A k \in 1..Len(us) : IsWireOf(wire'[k], us[k])
  BY <1>3 DEF IsWireOf
<1>8. TypeOK'
  BY <1>5, RulesMaxAssumption DEF IInv, TypeOK, Build, maps, bounds
<1>9. LiveCount(on_disk) \in Nat
  BY LiveCountType, RulesMaxAssumption DEF IInv, TypeOK
<1>10. Written'
  <2>1. n' = 1 /\ on_disk' = on_disk
    BY DEF Build
  <2>2. n' <= LiveCount(on_disk) + 1 /\ 1..(n' - 1) = {}
    BY <1>9, <2>1
  <2> QED
    BY <1>6, <1>7, <2>1, <2>2 DEF Written
<1>11. Control' /\ Progress' /\ SameBank'
  BY DEF IInv, Control, Progress, SameBank, Build, maps, Requests
<1>12. AckedMeansEnforced'
  BY InForceUnchanged DEF IInv, AckedMeansEnforced, Build
<1> QED
  BY <1>8, <1>10, <1>11, <1>12 DEF IInv

\* One more slot of the target bank is a rule of wire_rules.
LEMMA WriteSlotIInv == IInv /\ WriteSlot => IInv'
<1> SUFFICES ASSUME IInv, WriteSlot PROVE IInv'
  OBVIOUS
<1>1. /\ LiveCount(on_disk) \in 0..RULES_MAX
      /\ LiveCount(on_disk) <= Len(on_disk.rules)
  BY LiveCountType DEF IInv, TypeOK
<1>2. pc = "write" /\ n \in 1..LiveCount(on_disk)
  BY <1>1, RulesMaxAssumption DEF IInv, TypeOK, WriteSlot, SlotsLeft
<1>3. on_disk.rules \in Seq(UserRules) /\ wire \in Seq(WireRule)
  BY DEF IInv, TypeOK, OnDisk
<1>4. Len(wire) = Len(on_disk.rules) /\ Len(wire) \in Nat
  BY <1>2, <1>3, LenProperties DEF IInv, Written
<1>5. n \in 1..Len(wire) /\ n \in Slots
  BY <1>1, <1>2, <1>4, RulesMaxAssumption
<1>6. wire[n] \in WireRule /\ IsWireOf(wire[n], on_disk.rules[n])
  BY <1>2, <1>3, <1>4, <1>5, ElementOfSeq DEF IInv, Written
<1>7. <<target, n>> \in Banks \X Slots
  BY <1>5 DEF IInv, TypeOK, target
<1>8. RULES' = [RULES EXCEPT ![<<target, n>>] = wire[n]]
  BY DEF WriteSlot
<1>9. TypeOK'
  <2>1. RULES' \in [Banks \X Slots -> WireRule]
    BY <1>6, <1>7, <1>8 DEF IInv, TypeOK
  <2>2. n' \in 1..(RULES_MAX + 1)
    BY <1>5, RulesMaxAssumption DEF WriteSlot
  <2> QED
    BY <2>1, <2>2 DEF IInv, TypeOK, WriteSlot, bounds
<1>10. Written'
  <2>1. target' = target
    BY DEF WriteSlot, target
  <2>2. n' <= LiveCount(on_disk) + 1
    BY <1>1, <1>2, RulesMaxAssumption DEF WriteSlot
  <2>3. ASSUME NEW k \in 1..n
        PROVE  RULES'[<<target, k>>] = wire[k]
    <3>1. <<target, k>> \in Banks \X Slots
      BY <1>5, <1>7, RulesMaxAssumption
    <3>2. CASE k = n
      BY <1>7, <1>8, <3>2 DEF IInv, TypeOK
    <3>3. CASE k # n
      <4>1. k \in 1..(n - 1)
        BY <1>5, <3>3, RulesMaxAssumption
      <4>2. RULES'[<<target, k>>] = RULES[<<target, k>>]
        BY <1>8, <3>1, <3>3 DEF IInv, TypeOK
      <4> QED
        BY <1>2, <4>1, <4>2 DEF IInv, Written
    <3> QED
      BY <3>2, <3>3
  <2>4. n' - 1 = n
    BY <1>5, RulesMaxAssumption DEF WriteSlot
  <2> QED
    BY <1>2, <2>1, <2>2, <2>3, <2>4 DEF IInv, Written, WriteSlot
<1>11. Control' /\ Progress' /\ SameBank'
  BY DEF IInv, Control, Progress, SameBank, WriteSlot, Requests
<1>12. AckedMeansEnforced'
  \* Only a watcher sync can run while the last answer is Ok; if it writes the
  \* live bank (after a failed CONFIG write), it writes the same rules there.
  <2>1. SUFFICES ASSUME resp \in {"ok", "started"}
                 PROVE  InForce'
    BY DEF IInv, AckedMeansEnforced, WriteSlot
  <2>2. MapsMatch
    BY <2>1, InForceMaps DEF IInv, AckedMeansEnforced
  <2>3. ASSUME NEW k \in 1..LiveCount(on_disk)
        PROVE  IsWireOf(RULES'[<<CONFIG.active_bank, k>>], on_disk.rules[k])
    <3>1. <<CONFIG.active_bank, k>> \in Banks \X Slots
      BY <1>1, RulesMaxAssumption DEF IInv, TypeOK, GlobalConfig
    <3>2. CASE CONFIG.active_bank = target /\ k = n
      BY <1>6, <1>7, <1>8, <3>2 DEF IInv, TypeOK
    <3>3. CASE ~(CONFIG.active_bank = target /\ k = n)
      BY <1>8, <2>2, <3>1, <3>3 DEF IInv, TypeOK, MapsMatch
    <3> QED
      BY <3>2, <3>3
  <2>4. MapsMatch'
    BY <2>2, <2>3 DEF MapsMatch, WriteSlot
  <2> QED
    BY <1>9, <2>4, InForceMapsNext
<1> QED
  BY <1>9, <1>10, <1>11, <1>12 DEF IInv

\* When no slot is left, the target bank is complete: the flip enforces on_disk.
LEMMA FlipBankIInv == IInv /\ FlipBank => IInv'
<1> SUFFICES ASSUME IInv, FlipBank PROVE IInv'
  OBVIOUS
<1>1. /\ LiveCount(on_disk) \in 0..RULES_MAX
      /\ LiveCount(on_disk) <= Len(on_disk.rules)
  BY LiveCountType DEF IInv, TypeOK
<1>2. pc = "write" /\ n = LiveCount(on_disk) + 1
  BY <1>1, RulesMaxAssumption DEF IInv, TypeOK, Written, FlipBank, SlotsLeft
<1>3. NeedsConntrack(on_disk) \in BOOLEAN
  BY DEF NeedsConntrack
<1>4. CONFIG' = write_config /\ CONFIG' \in GlobalConfig
  BY <1>1, <1>3 DEF IInv, TypeOK, FlipBank, write_config, GlobalConfig, OnDisk, target
<1>5. TypeOK'
  <2>1. wire' \in Seq(WireRule)
    BY EmptySeq DEF FlipBank
  <2>2. n' \in 1..(RULES_MAX + 1)
    BY RulesMaxAssumption DEF FlipBank
  <2>3. resp' \in {"none", "started", "ok", "err"}
    BY DEF IInv, TypeOK, FlipBank, Succeed
  <2> QED
    BY <1>4, <2>1, <2>2, <2>3
    DEF IInv, TypeOK, FlipBank, Succeed, target, bounds
<1>6. Control' /\ Progress' /\ Written' /\ SameBank'
  BY DEF IInv, Control, Progress, Written, SameBank, FlipBank, Succeed, write_config,
         Requests
<1>7. resp' = "ok" => file' = on_disk'
  BY <1>2 DEF IInv, TypeOK, Control, Progress, AckedMeansEnforced, FlipBank, Succeed,
              Requests
<1>8. resp' \in {"ok", "started"} => InForce'
  <2>1. SUFFICES ASSUME resp' \in {"ok", "started"}
                 PROVE  MapsMatch'
    BY <1>5, InForceMapsNext
  <2>2. /\ DEFAULT_POLICY["in"] = on_disk.default_in
        /\ DEFAULT_POLICY["out"] = on_disk.default_out
    <3>1. CASE req = "watch"
      BY <2>1, <3>1, InForceMaps
      DEF IInv, AckedMeansEnforced, FlipBank, Succeed, MapsMatch
    <3>2. CASE req # "watch"
      BY <1>2, <3>2 DEF IInv, Progress
    <3> QED
      BY <3>1, <3>2
  <2>3. \A k \in 1..LiveCount(on_disk) :
          IsWireOf(RULES[<<target, k>>], on_disk.rules[k])
    BY <1>1, <1>2, RulesMaxAssumption, LenProperties
    DEF IInv, TypeOK, OnDisk, Written
  <2> QED
    BY <2>2, <2>3 DEF MapsMatch, FlipBank, write_config
<1> QED
  BY <1>5, <1>6, <1>7, <1>8 DEF IInv, AckedMeansEnforced

-----------------------------------------------------------------------------
(* Invariance. *)

\* IInv is inductive.
LEMMA NextIInv == IInv /\ [Next]_vars => IInv'
<1> SUFFICES ASSUME IInv, [Next]_vars PROVE IInv'
  OBVIOUS
<1>1. CASE Step
  BY <1>1, LoadIInv, SaveIInv, SetPolicyIInv, BuildIInv, WriteSlotIInv, FlipBankIInv
  DEF Step
<1>2. CASE Attach \/ Exit \/ Request \/ WatcherSync \/ StepFails
  BY <1>2, AttachIInv, ExitIInv, RequestIInv, WatcherIInv, StepFailsIInv
<1>3. CASE UNCHANGED vars
  BY <1>3, StutterIInv
<1> QED
  BY <1>1, <1>2, <1>3 DEF Next

\* IInv is an invariant of the daemon: every theorem below rests on it.
THEOREM Invariance == Spec => []IInv
BY InitIInv, NextIInv, PTL DEF Spec

\* The daemon's variables and the maps always hold values of their kinds, for
\* every bank size: sync_rules never writes outside the bank it targets.
THEOREM TypeCorrect == Spec => []TypeOK
<1>1. IInv => TypeOK
  BY DEF IInv
<1> QED
  BY <1>1, Invariance, PTL

\* What persist_and_sync acknowledged is in the maps and in the file.
THEOREM AckedIsEnforced == Spec => []AckedMeansEnforced
<1>1. IInv => AckedMeansEnforced
  BY DEF IInv
<1> QED
  BY <1>1, Invariance, PTL

-----------------------------------------------------------------------------
(* What each step does to the list in force. *)

\* No step but the end of the process, a slot write and the flip touches what
\* the data path reads, other than the default policies.
LEMMA QuietSteps ==
  ASSUME IInv, [Next]_vars
  PROVE  \/ UNCHANGED <<RULES, CONFIG>>
         \/ daemon' \in {"down", "failed"}
         \/ WriteSlot
         \/ FlipBank
<1>1. CASE Attach \/ WatcherSync \/ Load \/ Save \/ Build \/ SetPolicyIn \/ SetPolicyOut
  BY <1>1 DEF Attach, WatcherSync, Load, Save, Build, SetPolicyIn, SetPolicyOut,
              SetPolicy, maps
<1>2. CASE Exit
  BY <1>2 DEF Exit, NoProcess
<1>3. CASE Request
  BY <1>3 DEF Request, add_rule, delete_rule, set_default, set_logging, reset, Query,
              Handle, Refuse, maps, vars
<1>4. CASE StepFails
  BY <1>4 DEF StepFails, SaveFails, PolicyFails, BuildFails, SlotFails, ConfigFails,
              Fail, NoProcess, maps
<1>5. CASE UNCHANGED vars
  BY <1>5 DEF vars, maps
<1> QED
  BY <1>1, <1>2, <1>3, <1>4, <1>5 DEF Next, Step

\* A slot is written into the bank that is not in force.
LEMMA SlotWriteIsInvisible ==
  ASSUME IInv, WriteSlot, active_bank = CONFIG.active_bank
  PROVE  ActiveRules' = ActiveRules
<1>1. CONFIG' = CONFIG /\ RULES' = [RULES EXCEPT ![<<target, n>>] = wire[n]]
  BY DEF WriteSlot
<1>2. target # CONFIG.active_bank /\ CONFIG.active_bank \in Banks
  BY DEF IInv, TypeOK, GlobalConfig, target
<1>3. \A k \in 1..CONFIG.rule_count : <<CONFIG.active_bank, k>> \in Banks \X Slots
  BY <1>2, RulesMaxAssumption DEF IInv, TypeOK, GlobalConfig
<1>4. \A k \in 1..CONFIG.rule_count :
        RULES'[<<CONFIG.active_bank, k>>] = RULES[<<CONFIG.active_bank, k>>]
  BY <1>1, <1>2, <1>3 DEF IInv, TypeOK
<1> QED
  BY <1>1, <1>4 DEF ActiveRules

\* The flip puts all of wire_rules, as far as a bank holds it, in force.
LEMMA FlipPublishesWire ==
  ASSUME IInv, FlipBank
  PROVE  ActiveRules' = [k \in 1..LiveCount(on_disk) |-> wire[k]]
<1>1. LiveCount(on_disk) \in 0..RULES_MAX
  BY LiveCountType DEF IInv, TypeOK
<1>2. pc = "write" /\ n = LiveCount(on_disk) + 1
  BY <1>1, RulesMaxAssumption DEF IInv, TypeOK, Written, FlipBank, SlotsLeft
<1>3. \A k \in 1..LiveCount(on_disk) : RULES[<<target, k>>] = wire[k]
  BY <1>1, <1>2, RulesMaxAssumption DEF IInv, Written
<1>4. /\ CONFIG'.rule_count = LiveCount(on_disk) /\ CONFIG'.active_bank = target
      /\ RULES' = RULES
  BY DEF FlipBank, write_config
<1> QED
  BY <1>3, <1>4 DEF ActiveRules

\* Whatever fails and whenever the daemon dies, the data path switches from
\* one complete rule list to the next in the single write of CONFIG.
THEOREM SwitchesAtomically == Spec => AtomicSwitch
<1>1. IInv /\ [Next]_vars => [SwitchIsAtomic]_vars
  <2> SUFFICES ASSUME IInv, [Next]_vars PROVE SwitchIsAtomic
    OBVIOUS
  <2>1. CASE UNCHANGED <<RULES, CONFIG>>
    BY <2>1 DEF SwitchIsAtomic, ActiveRules
  <2>2. CASE daemon' \in {"down", "failed"}
    BY <2>2 DEF SwitchIsAtomic
  <2>3. CASE WriteSlot
    BY <2>3, SlotWriteIsInvisible DEF SwitchIsAtomic
  <2>4. CASE FlipBank
    BY <2>4, FlipPublishesWire DEF SwitchIsAtomic, FlipBank
  <2> QED
    BY <2>1, <2>2, <2>3, <2>4, QuietSteps
<1> QED
  BY <1>1, Invariance, PTL DEF Spec, AtomicSwitch

-----------------------------------------------------------------------------
(* `moatd reset` only loosens. *)

\* Without rules the default policy decides.
LEMMA EmptyListVerdict ==
  ASSUME NEW policy, NEW p, NEW rules, DOMAIN rules = {}
  PROVE  Verdict(rules, policy, p) = policy[p.direction]
BY DEF Verdict

\* Setting a default to "allow" drops no packet that passed.
LEMMA LooserPolicyVerdict ==
  ASSUME NEW rules, NEW old \in [Directions -> Actions], NEW d \in Directions,
         NEW p \in Packets, Verdict(rules, old, p) = "allow"
  PROVE  Verdict(rules, [old EXCEPT ![d] = "allow"], p) = "allow"
<1>1. p.direction \in Directions
  BY PacketsAssumption
<1>2. [old EXCEPT ![d] = "allow"][p.direction] \in {old[p.direction], "allow"}
  BY <1>1
<1> QED
  BY <1>2 DEF Verdict

\* At no step of a reset, complete or not, does a packet lose its "allow".
THEOREM ResetLoosens == Spec => ResetNeverTightens
<1>1. IInv /\ [Next]_vars => [ResetOnlyLoosens]_vars
  <2> SUFFICES ASSUME IInv, [Next]_vars, req = "reset", daemon' = "running",
                      NEW p \in Packets, VerdictNow(p) = "allow"
               PROVE  VerdictNow(p)' = "allow"
    BY DEF ResetOnlyLoosens
  <2>1. pc # "idle" /\ daemon \notin {"down", "failed"} /\ on_disk = DefaultDisk
    BY DEF IInv, Control, Progress
  <2>2. CASE SetPolicyIn \/ SetPolicyOut
    <3>1. PICK d \in Directions : DEFAULT_POLICY' = [DEFAULT_POLICY EXCEPT ![d] = "allow"]
      BY <2>1, <2>2 DEF SetPolicyIn, SetPolicyOut, SetPolicy, PolicyOf, DefaultDisk,
                        Directions
    <3>2. ActiveRules' = ActiveRules
      BY <2>2 DEF SetPolicyIn, SetPolicyOut, SetPolicy, ActiveRules
    <3>3. Verdict(ActiveRules, DEFAULT_POLICY, p) = "allow"
      BY DEF VerdictNow
    <3>4. DEFAULT_POLICY \in [Directions -> Actions]
      BY DEF IInv, TypeOK
    <3>5. Verdict(ActiveRules, [DEFAULT_POLICY EXCEPT ![d] = "allow"], p) = "allow"
      BY <3>3, <3>4, LooserPolicyVerdict
    <3> QED
      BY <3>1, <3>2, <3>5 DEF VerdictNow
  <2>3. LiveCount(on_disk) = 0
    BY <2>1, RulesMaxAssumption, EmptySeq DEF LiveCount, DefaultDisk
  <2>4. CASE WriteSlot
    BY <2>3, <2>4, RulesMaxAssumption DEF WriteSlot, SlotsLeft, IInv, TypeOK
  <2>5. CASE FlipBank
    <3>1. DOMAIN ActiveRules' = {}
      BY <2>3, <2>5, FlipPublishesWire
    <3>2. DEFAULT_POLICY' = DEFAULT_POLICY /\ p.direction \in Directions
      BY <2>5, PacketsAssumption DEF FlipBank
    <3>3. DEFAULT_POLICY[p.direction] = "allow"
      BY <2>1, <2>5, <3>2 DEF IInv, Progress, FlipBank, DefaultDisk, Directions
    <3> QED
      BY <3>1, <3>2, <3>3, EmptyListVerdict DEF VerdictNow
  <2>6. CASE UNCHANGED maps
    BY <2>6 DEF maps, VerdictNow, ActiveRules
  <2>7. CASE Attach \/ Exit \/ Request \/ WatcherSync
    <3>1. ~Exit
      BY DEF Exit, NoProcess
    <3>2. ~Request
      BY <2>1 DEF Request, add_rule, delete_rule, set_default, set_logging, reset, Query,
                  Handle, Refuse, Lock, Unlocked
    <3> QED
      BY <2>1, <2>7, <3>1, <3>2 DEF Attach, WatcherSync, Lock, Unlocked
  <2>8. CASE Load \/ Save \/ Build
    BY <2>6, <2>8 DEF Load, Save, Build
  <2>9. CASE StepFails
    BY <2>6, <2>9 DEF StepFails, SaveFails, PolicyFails, BuildFails, SlotFails,
                      ConfigFails, Fail
  <2>10. CASE UNCHANGED vars
    BY <2>6, <2>10 DEF vars
  <2> QED
    BY <2>2, <2>4, <2>5, <2>7, <2>8, <2>9, <2>10 DEF Next, Step
<1> QED
  BY <1>1, Invariance, PTL DEF Spec, ResetNeverTightens

-----------------------------------------------------------------------------
(* Refinement. *)

\* The table in force depends on RULES and CONFIG only.
LEMMA TableUnchanged ==
  ASSUME UNCHANGED <<RULES, CONFIG>>
  PROVE  Table' = Table
BY DEF Table, ActiveRules

\* A zeroed CONFIG means an empty rule list.
LEMMA ZeroTable ==
  ASSUME NEW C, NEW R, C = ZeroConfig
  PROVE  [k \in 1..C.rule_count |-> R[<<C.active_bank, k>>]] = <<>>
<1>1. C.rule_count = 0
  BY DEF ZeroConfig
<1>2. 1..C.rule_count = {}
  BY <1>1
<1> QED
  BY <1>2

\* The end of the process is a Restart of Enforcement.
LEMMA NoProcessIsRestart ==
  ASSUME NEW d, NoProcess(d)
  PROVE  E!Restart
BY ZeroTable
DEF NoProcess, E!Restart, E!DefaultDisk, DefaultDisk, E!AllowAll, ZeroPolicy,
    E!EmptyTable, Table, ActiveRules, ZeroConfig, Directions, E!Directions

\* The instance has the same configurations.
LEMMA SameOnDisk == E!OnDisk = OnDisk
BY DEF E!OnDisk, OnDisk, E!Actions, Actions

\* When no CONFIG write fails, every step of the daemon is a step of Enforcement.
LEMMA NextRefines ==
  ASSUME "config" \notin Faults, IInv, IInv', [Next]_vars
  PROVE  [E!Next]_(E!vars)
<1>1. on_disk' \in OnDisk
  BY DEF IInv, TypeOK
<1>2. ASSUME UNCHANGED <<RULES, CONFIG, DEFAULT_POLICY>>
      PROVE  E!Reconfigure
  BY <1>1, <1>2, TableUnchanged, SameOnDisk DEF E!Reconfigure
<1>3. CASE Attach \/ WatcherSync \/ Load \/ Save \/ Build
  BY <1>2, <1>3 DEF Attach, WatcherSync, Load, Save, Build, maps, E!Next
<1>4. CASE Request
  BY <1>2, <1>4 DEF Request, add_rule, delete_rule, set_default, set_logging, reset,
                    Query, Handle, Refuse, maps, vars, E!Next
<1>5. CASE Exit
  BY <1>5, NoProcessIsRestart DEF Exit, E!Next
<1>6. CASE StepFails
  BY <1>2, <1>6, NoProcessIsRestart
  DEF StepFails, SaveFails, PolicyFails, BuildFails, SlotFails, ConfigFails, Fail,
      maps, E!Next
<1>7. CASE SetPolicyIn \/ SetPolicyOut
  <2>1. Table' = Table
    BY <1>7, TableUnchanged DEF SetPolicyIn, SetPolicyOut, SetPolicy
  <2>2. PICK d \in Directions :
          DEFAULT_POLICY' = [DEFAULT_POLICY EXCEPT ![d] = PolicyOf(on_disk)[d]]
    BY <1>7 DEF SetPolicyIn, SetPolicyOut, SetPolicy, Directions
  <2>3. on_disk' = on_disk
    BY <1>7 DEF SetPolicyIn, SetPolicyOut, SetPolicy
  <2>4. E!PolicyOf(on_disk) = PolicyOf(on_disk) /\ E!Directions = Directions
    BY DEF E!PolicyOf, PolicyOf, E!Directions, Directions
  <2> QED
    BY <2>1, <2>2, <2>3, <2>4 DEF E!ApplyPolicy, E!Next
<1>8. CASE WriteSlot
  BY <1>8, SlotWriteIsInvisible DEF IInv, SameBank, WriteSlot, Table, E!vars
<1>9. CASE FlipBank
  <2>1. LiveCount(on_disk) \in 0..RULES_MAX /\ LiveCount(on_disk) <= Len(on_disk.rules)
    BY LiveCountType DEF IInv, TypeOK
  <2>2. pc = "write"
    BY <1>9 DEF FlipBank
  <2>3. ActiveRules' = [k \in 1..LiveCount(on_disk) |-> wire[k]]
    BY <1>9, FlipPublishesWire
  <2>4. CONFIG' = write_config /\ UNCHANGED <<on_disk, DEFAULT_POLICY>>
    BY <1>9 DEF FlipBank
  <2>5. Len(ActiveRules') = LiveCount(on_disk)
    BY <2>4, ListLength DEF IInv, TypeOK, ActiveRules, write_config
  <2>6. \A k \in 1..LiveCount(on_disk) : IsWireOf(ActiveRules'[k], on_disk.rules[k])
    BY <2>1, <2>2, <2>3, RulesMaxAssumption, LenProperties
    DEF IInv, TypeOK, OnDisk, Written
  <2>7. Implements(Table', on_disk)
    BY <2>4, <2>5, <2>6 DEF Implements, Table, write_config
  <2>8. E!Implements(Table', on_disk)
    BY <2>7
    DEF Implements, E!Implements, NeedsConntrack, E!NeedsConntrack, LiveCount,
        E!LiveCount, IsWireOf, E!IsWireOf, resolve_iface, E!resolve_iface,
        build_wire_rule, E!build_wire_rule, NoIface, E!NoIface, E!IFACE_ANY,
        E!IFACE_ABSENT
  <2> QED
    BY <2>4, <2>8 DEF E!Publish, E!Next
<1>10. CASE UNCHANGED vars
  BY <1>2, <1>10 DEF vars, maps, E!Next
<1> QED
  BY <1>3, <1>4, <1>5, <1>6, <1>7, <1>8, <1>9, <1>10 DEF Next, Step

\* The daemon keeps its promise to the data path: the table in force is
\* replaced whole, by a complete translation of the daemon's configuration.
THEOREM Refinement ==
  ASSUME "config" \notin Faults
  PROVE  Spec => ImplementsEnforcement
<1>1. Init => E!Init
  BY ZeroTable
  DEF Init, E!Init, E!DefaultDisk, DefaultDisk, E!AllowAll, ZeroPolicy, E!EmptyTable,
      Table, ActiveRules, ZeroConfig, Directions, E!Directions
<1>2. IInv /\ IInv' /\ [Next]_vars => [E!Next]_(E!vars)
  BY NextRefines
<1> QED
  BY <1>1, <1>2, Invariance, PTL DEF Spec, ImplementsEnforcement, E!Spec
=============================================================================
