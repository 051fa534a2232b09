------------------------------ MODULE RuleSync ------------------------------
(***************************************************************************)
(* The moatd daemon: it owns the rules file and the configuration in       *)
(* memory, and keeps three BPF maps equal to it (RULES, double-buffered;   *)
(* DEFAULT_POLICY; CONFIG).  Control requests, the link watcher and the    *)
(* start of the process all drive the same synchronisation, one at a time  *)
(* under the state mutex.  The data path reads the maps between any two of *)
(* these steps, so every map write is a step of its own.                   *)
(*                                                                         *)
(* pc is the next call of the mutex holder: "load" (start only), "save",   *)
(* "policy_in", "policy_out", "build" and "write" (slots, then CONFIG).    *)
(***************************************************************************)
EXTENDS RuleModel, FiniteSets

CONSTANTS
  InitFiles,  \* rules files present before moatd first runs
  Faults,     \* calls that may fail: "load", "save", "policy", "slot", "config"
  MaxOps,     \* bound on requests and watcher syncs
  MaxExits    \* bound on crashes and stops of the daemon

ASSUME InitFilesAssumption == InitFiles \subseteq OnDisk
ASSUME FaultsAssumption == Faults \subseteq {"load", "save", "policy", "slot", "config"}
ASSUME BoundsAssumption == MaxOps \in Nat /\ MaxExits \in Nat

VARIABLES
  daemon,          \* "down", "starting", "running" or "failed" (start aborted)
  file,            \* contents of /etc/moatd/rules.toml
  on_disk,         \* DaemonState.on_disk
  active_bank,     \* DaemonState.active_bank
  RULES,           \* BPF map: bank and slot |-> wire rule
  DEFAULT_POLICY,  \* BPF map: direction |-> action
  CONFIG,          \* BPF map with the one GlobalConfig
  pc,              \* next call of the mutex holder, "idle" when unlocked
  req,             \* what it is doing: a request, "watch" or "start"
  wire,            \* sync_rules: wire_rules
  n,               \* sync_rules: next slot to write
  resp,            \* answer to the last request, "started" after a start
  ops, exits       \* bounded counters

maps == <<RULES, DEFAULT_POLICY, CONFIG>>
bounds == <<ops, exits>>
vars == <<daemon, file, on_disk, active_bank, maps, pc, req, wire, n, resp, bounds>>

Requests == {"add", "delete", "default", "logging", "reset"}

ZeroRules == [s \in Banks \X Slots |-> EmptySlot]
ZeroPolicy == [d \in Directions |-> "allow"]
ZeroConfig ==
  [logging_enabled |-> FALSE, active_bank |-> 0, conntrack_enabled |-> FALSE,
   rule_count |-> 0]

GlobalConfig ==
  [logging_enabled : BOOLEAN, active_bank : Banks, conntrack_enabled : BOOLEAN,
   rule_count : 0..RULES_MAX]

\* The rule list walk_rules would scan now.
ActiveRules ==
  [k \in 1..CONFIG.rule_count |-> RULES[<<CONFIG.active_bank, k>>]]

\* The verdict of a packet evaluated now, in one instant.
VerdictNow(p) == Verdict(ActiveRules, DEFAULT_POLICY, p)

-----------------------------------------------------------------------------
(* No process: the maps belong to it and are created zeroed by the next one. *)
NoProcess(d) ==
  /\ daemon' = d
  /\ on_disk' = DefaultDisk
  /\ active_bank' = 0
  /\ RULES' = ZeroRules /\ DEFAULT_POLICY' = ZeroPolicy /\ CONFIG' = ZeroConfig
  /\ pc' = "idle" /\ req' = "none" /\ wire' = <<>> /\ n' = 1 /\ resp' = "none"

Init ==
  /\ daemon = "down"
  /\ file \in InitFiles
  /\ on_disk = DefaultDisk
  /\ active_bank = 0
  /\ RULES = ZeroRules /\ DEFAULT_POLICY = ZeroPolicy /\ CONFIG = ZeroConfig
  /\ pc = "idle" /\ req = "none" /\ wire = <<>> /\ n = 1 /\ resp = "none"
  /\ ops = 0 /\ exits = 0

-----------------------------------------------------------------------------
(* Start of the process.  The programs are attached to the interfaces      *)
(* first, on zeroed maps; the rules file is read and synchronised after.   *)

Attach ==
  /\ daemon \in {"down", "failed"}
  /\ daemon' = "starting"
  /\ pc' = "load" /\ req' = "start"
  /\ UNCHANGED <<file, on_disk, active_bank, maps, wire, n, resp, bounds>>

\* Mutant: the daemon serves what it loaded without the initial sync_all.
Load_NoInitialSync ==
  /\ pc = "load"
  /\ on_disk' = file
  /\ pc' = "idle" /\ req' = "none" /\ resp' = "started" /\ daemon' = "running"
  /\ UNCHANGED <<file, active_bank, maps, wire, n, bounds>>

\* An unreadable file is replaced by the defaults; load never stops the start.
Load ==
  /\ pc = "load"
  /\ \/ on_disk' = file
     \/ "load" \in Faults /\ on_disk' = DefaultDisk
  /\ pc' = "policy_in"
  /\ UNCHANGED <<daemon, file, active_bank, maps, req, wire, n, resp, bounds>>

\* SIGTERM, SIGINT or a crash, at any point of a request.
Exit ==
  /\ daemon \in {"starting", "running"}
  /\ exits < MaxExits /\ exits' = exits + 1
  /\ NoProcess("down")
  /\ UNCHANGED <<file, ops>>

-----------------------------------------------------------------------------
(* Requests.  dispatch takes the mutex; a handler changes on_disk and then *)
(* runs persist_and_sync, or refuses and changes nothing.                  *)

Unlocked == daemon = "running" /\ pc = "idle"

Lock(kind, first) ==
  /\ Unlocked
  /\ ops < MaxOps /\ ops' = ops + 1
  /\ req' = kind /\ pc' = first

\* on_disk is already changed when persist_and_sync starts.
Handle(kind, c) ==
  /\ Lock(kind, "save")
  /\ on_disk' = c
  /\ resp' = "none"
  /\ UNCHANGED <<daemon, file, active_bank, maps, wire, n, exits>>

Refuse ==
  /\ Unlocked
  /\ resp' = "err"
  /\ UNCHANGED <<daemon, file, on_disk, active_bank, maps, pc, req, wire, n, bounds>>

add_rule(u) ==
  IF Len(on_disk.rules) >= RULES_MAX \/ ~valid_iface_name(u.iface)
  THEN Refuse
  ELSE Handle("add", [on_disk EXCEPT !.rules = Append(@, u)])

\* Vec::remove: the rules after position k move up by one.
Without(s, k) == [j \in 1..(Len(s) - 1) |-> IF j < k THEN s[j] ELSE s[j + 1]]

delete_rule(one_based_idx) ==
  IF one_based_idx = 0 \/ one_based_idx > Len(on_disk.rules)
  THEN Refuse
  ELSE Handle("delete", [on_disk EXCEPT !.rules = Without(@, one_based_idx)])

set_default(direction, action) ==
  Handle("default", IF direction = "in"
                    THEN [on_disk EXCEPT !.default_in = action]
                    ELSE [on_disk EXCEPT !.default_out = action])

set_logging(enabled) ==
  Handle("logging", [on_disk EXCEPT !.logging_enabled = enabled])

\* Mutant: the inbound default is left as it was.
reset_KeepsDefault ==
  Handle("reset", [DefaultDisk EXCEPT !.default_in = on_disk.default_in])

reset == Handle("reset", DefaultDisk)

\* Ping, Status and ListRules take the mutex and only read.
Query == Unlocked /\ UNCHANGED vars

\* The watcher calls sync_rules alone.  It looked at on_disk.rules under an
\* earlier lock, so by now any rule list may be there.
WatcherSync ==
  /\ Lock("watch", "build")
  /\ UNCHANGED <<daemon, file, on_disk, active_bank, maps, wire, n, resp, exits>>

-----------------------------------------------------------------------------
(* persist_and_sync, sync_all, sync_defaults and sync_rules, one call per  *)
(* step.  A call that fails ends the operation where it is: nothing is     *)
(* undone, the request is answered Err and a failing start ends moatd.     *)

\* What the caller of the synchronisation does with its result.
Succeed ==
  /\ pc' = "idle" /\ req' = "none"
  /\ resp' = CASE req = "start" -> "started"
               [] req = "watch" -> resp
               [] OTHER -> "ok"
  /\ daemon' = "running"

Fail(bank) ==
  \/ /\ req = "start"
     /\ NoProcess("failed")
     /\ UNCHANGED <<file, bounds>>
  \/ /\ req # "start"
     /\ pc' = "idle" /\ req' = "none"
     /\ resp' = IF req = "watch" THEN resp ELSE "err"
     /\ active_bank' = bank
     /\ wire' = <<>> /\ n' = 1
     /\ UNCHANGED <<daemon, file, on_disk, maps, bounds>>

\* store::save writes a temporary file and renames it: all or nothing.
Save ==
  /\ pc = "save"
  /\ file' = on_disk
  /\ pc' = "policy_in"
  /\ UNCHANGED <<daemon, on_disk, active_bank, maps, req, wire, n, resp, bounds>>

SaveFails == pc = "save" /\ "save" \in Faults /\ Fail(active_bank)

SetPolicy(here, d, next) ==
  /\ pc = here
  /\ DEFAULT_POLICY' = [DEFAULT_POLICY EXCEPT ![d] = PolicyOf(on_disk)[d]]
  /\ pc' = next
  /\ UNCHANGED <<daemon, file, on_disk, active_bank, RULES, CONFIG, req, wire, n,
                 resp, bounds>>

SetPolicyIn == SetPolicy("policy_in", "in", "policy_out")
SetPolicyOut == SetPolicy("policy_out", "out", "build")

PolicyFails ==
  pc \in {"policy_in", "policy_out"} /\ "policy" \in Faults /\ Fail(active_bank)

\* The first loop of sync_rules: nothing is written unless every rule builds.
Build ==
  /\ pc = "build"
  /\ \A k \in DOMAIN on_disk.rules : ~Rejected(on_disk.rules[k])
  /\ \E x \in [DOMAIN on_disk.rules -> UNION {resolve_iface(u.iface) : u \in UserRules}] :
       /\ \A k \in DOMAIN on_disk.rules : x[k] \in resolve_iface(on_disk.rules[k].iface)
       /\ wire' = [k \in DOMAIN on_disk.rules |-> build_wire_rule(on_disk.rules[k], x[k])]
  /\ n' = 1
  /\ pc' = "write"
  /\ UNCHANGED <<daemon, file, on_disk, active_bank, maps, req, resp, bounds>>

BuildFails ==
  /\ pc = "build"
  /\ \E k \in DOMAIN on_disk.rules : Rejected(on_disk.rules[k])
  /\ Fail(active_bank)

\* Mutant: the live bank is rewritten in place.
target_InPlace == active_bank

\* The bank that sync_rules writes.
target == 1 - active_bank

\* Mutant: the flip is taken one slot too early.
SlotsLeft_OffByOne == pc = "write" /\ n < LiveCount(on_disk)

SlotsLeft == pc = "write" /\ n <= LiveCount(on_disk)

WriteSlot ==
  /\ SlotsLeft
  /\ RULES' = [RULES EXCEPT ![<<target, n>>] = wire[n]]
  /\ n' = n + 1
  /\ UNCHANGED <<daemon, file, on_disk, active_bank, DEFAULT_POLICY, CONFIG, pc, req,
                 wire, resp, bounds>>

SlotFails == SlotsLeft /\ "slot" \in Faults /\ Fail(active_bank)

\* Mutant: rule_count is not capped at the size of a bank.
write_config_Uncapped ==
  [logging_enabled |-> on_disk.logging_enabled, active_bank |-> target,
   conntrack_enabled |-> NeedsConntrack(on_disk), rule_count |-> Len(on_disk.rules)]

\* Mutant: conntrack_enabled is not recomputed from the new rules.
write_config_StaleConntrack ==
  [logging_enabled |-> on_disk.logging_enabled, active_bank |-> target,
   conntrack_enabled |-> CONFIG.conntrack_enabled, rule_count |-> LiveCount(on_disk)]

write_config ==
  [logging_enabled |-> on_disk.logging_enabled, active_bank |-> target,
   conntrack_enabled |-> NeedsConntrack(on_disk), rule_count |-> LiveCount(on_disk)]

\* active_bank is assigned, then CONFIG is written in one map update.
FlipBank ==
  /\ pc = "write" /\ ~SlotsLeft
  /\ active_bank' = target
  /\ CONFIG' = write_config
  /\ Succeed
  /\ wire' = <<>> /\ n' = 1
  /\ UNCHANGED <<file, on_disk, RULES, DEFAULT_POLICY, bounds>>

\* The daemon believes in the new bank, the data path stays on the old one.
ConfigFails == pc = "write" /\ ~SlotsLeft /\ "config" \in Faults /\ Fail(target)

-----------------------------------------------------------------------------
Step ==
  \/ Load \/ Save \/ SetPolicyIn \/ SetPolicyOut \/ Build \/ WriteSlot \/ FlipBank

StepFails == SaveFails \/ PolicyFails \/ BuildFails \/ SlotFails \/ ConfigFails

Request ==
  \/ \E u \in UserRules : add_rule(u)
  \/ \E k \in 0..(RULES_MAX + 1) : delete_rule(k)
  \/ \E d \in Directions, a \in Actions : set_default(d, a)
  \/ \E b \in BOOLEAN : set_logging(b)
  \/ reset
  \/ Query

Next == Attach \/ Exit \/ Request \/ WatcherSync \/ Step \/ StepFails

\* The mutex holder never awaits, so it always goes on; systemd and the
\* operator start moatd again.
Fairness == WF_vars(Step \/ StepFails) /\ WF_vars(Attach)

Spec == Init /\ [][Next]_vars /\ Fairness

-----------------------------------------------------------------------------
(* Type invariant. *)

\* Every variable of the daemon and every map holds a value of its kind; in
\* particular a slot is written only inside a bank.
TypeOK ==
  /\ daemon \in {"down", "starting", "running", "failed"}
  /\ file \in OnDisk /\ on_disk \in OnDisk
  /\ active_bank \in Banks
  /\ RULES \in [Banks \X Slots -> WireRule]
  /\ DEFAULT_POLICY \in [Directions -> Actions]
  /\ CONFIG \in GlobalConfig
  /\ pc \in {"idle", "load", "save", "policy_in", "policy_out", "build", "write"}
  /\ req \in Requests \cup {"none", "start", "watch"}
  /\ wire \in Seq(WireRule)
  /\ n \in 1..(RULES_MAX + 1)
  /\ resp \in {"none", "started", "ok", "err"}
  /\ ops \in 0..MaxOps /\ exits \in 0..MaxExits

-----------------------------------------------------------------------------
(* Safety. *)

\* The maps as Enforcement's table.
Table ==
  [rules |-> ActiveRules, logging |-> CONFIG.logging_enabled,
   conntrack |-> CONFIG.conntrack_enabled]

E == INSTANCE Enforcement
       WITH want <- on_disk, policy <- DEFAULT_POLICY, table <- Table

\* The data path enforces the configuration the daemon holds.
InForce == DEFAULT_POLICY = PolicyOf(on_disk) /\ Implements(Table, on_disk)

\* After persist_and_sync returned Ok (and after a successful start) the maps
\* the data path reads are a complete translation of on_disk, whatever a
\* failing watcher sync did since, and an acknowledged request is in the file.
AckedMeansEnforced ==
  /\ resp \in {"ok", "started"} => InForce
  /\ resp = "ok" => file = on_disk

SwitchIsAtomic ==
  ActiveRules' # ActiveRules =>
    \/ daemon' \in {"down", "failed"}
    \/ active_bank # CONFIG.active_bank
    \/ pc = "write" /\ ActiveRules' = [k \in 1..LiveCount(on_disk) |-> wire[k]]

\* The list walk_rules scans changes only when write_config flips the bank,
\* and then to all of wire_rules, as long as daemon and kernel agree on the
\* active bank: no partly written list is ever the active one.
AtomicSwitch == [][SwitchIsAtomic]_vars

ResetOnlyLoosens ==
  req = "reset" /\ daemon' = "running" =>
    \A p \in Packets : VerdictNow(p) = "allow" => VerdictNow(p)' = "allow"

\* sync_all writes the defaults before the rules, so while `moatd reset` is
\* carried out no packet that was allowed is dropped, not even for a moment.
ResetNeverTightens == [][ResetOnlyLoosens]_vars

\* The daemon and its maps implement the abstract promise to the data path.
ImplementsEnforcement == E!Spec

-----------------------------------------------------------------------------
(* Liveness. *)

\* Once requests and crashes stop, the file, the daemon and the data path come
\* to agree and stay so, wherever a crash cut a request short.
Converges == <>[](daemon = "running" /\ pc = "idle" /\ file = on_disk /\ InForce)

-----------------------------------------------------------------------------
(* What the repository says and the code does not do. *)

\* Rules survive a restart: moatd always completes its initial sync.
InitialSyncSucceeds == daemon # "failed"
=============================================================================
