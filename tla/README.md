# moatd in TLA+

moatd is a host firewall: a daemon (`crates/moatd`) that owns a list of rules
and keeps it in BPF maps, and two eBPF programs (`crates/moatd-ebpf`: XDP on
ingress, TC on egress) that judge every packet by those maps. This directory
models its components, checks them with TLC and proves their safety properties
with TLAPS. Paths below are relative to the root of the repository;
`PROJECT.json` gives the source lines of every definition.

## Inventory

| Component | State | Operations | Hard because |
|---|---|---|---|
| Rule synchronisation (`moatd.rs`) | `DaemonState` (rules, defaults, switches, active bank); BPF maps `RULES` (two banks), `DEFAULT_POLICY`, `CONFIG`; `rules.toml` | start, add, delete, default, logging, reset, queries, the watcher's re-sync, exit | one operation is many writes to three maps and a file; any of them may fail, the process may die between them, and packets read the maps all the time |
| Rule walk (`walk_rules`) | none of its own: bank, count and position of a walk | read `CONFIG`, read slot after slot, read the default | not synchronised with the daemon |
| Connection tracking (`try_egress`, `try_ingress`) | `CONNTRACK`, an LRU hash of flows with time stamps | lookup, insert, refresh, hit on the reversed key | several CPUs, clocks read early, eviction, a switch that goes on and off |
| Link watcher (`watch_interfaces`, `attach_to_iface`) | attached interfaces, two snapshots, `IFACE_L2`, the ifindex in every rule | initial attach, poll, attach, compare, re-sync | interfaces change at any moment, everything goes by name, the watcher sees only its polls |
| Rules file (`store.rs`) | `rules.toml`, its temporary file | load, save | power loss between write, sync and rename |
| Block log (`emit_drop`, `drain_events`) | token bucket per CPU, ring buffer, one-second window | take a token, reserve, submit, drain, flush | truncation, full buffers, two timers |
| Packet parsing and matching (`parse_packet`, `cidr_contains`) | none | parse, match | boundaries: VLAN tags, extension headers, prefix masks |
| Control protocol (`serve_client`, the CLI) | one connection per request | connect, frame, time-outs, answer | an answer may be lost after the change is made |
| Rule grammar (`parser.rs`, `apps.rs`) | none | words to a rule, application profiles | cases |
| Benchmark (`bpf-bench.rs`) | none | | not part of the firewall |

The components meet in four places. The state mutex serialises requests and the
watcher's re-sync. The BPF maps are all that daemon and data path share.
`/sys/class/net` is read by the watcher, by `resolve_iface` in every sync, and
by nobody atomically. `rules.toml` connects one run of the daemon with the next.

What makes each part correct, and is stated below: what a client was told is
done is enforced and saved; the data path never works with a mixture of two rule
lists; a change never passes through a state that is worse than both ends;
a crash anywhere is repaired by the next start; conntrack opens exactly what
outbound traffic justifies, for as long as it promises; every interface is
filtered and every rule points at the interface it names; a rule matches the
packets its words describe, however these are wrapped; what a command was told
is true of the rules file, which is never torn; one daemon serves, and one does;
every logged drop is counted once, at a bounded rate.

## Modules

| Module | What it is |
|---|---|
| `RuleModel` | the shared data: user rules, wire rules, configuration, first match |
| `Enforcement` | abstract: what the control plane promises the data path |
| `RuleSync` | the daemon; refines `Enforcement` |
| `PacketWalk` | `walk_rules` on every CPU, composed with `RuleSync` |
| `Conntrack` | the connection tracker on several CPUs |
| `LinkWatcher` | interfaces, attachment and the polling loop |
| `Store` | the rules file as `store.rs` writes it, on a file system that loses power |
| `Control` | commands, connections, the mutex, the socket and restarts, composed with `Store` |
| `BlockLog` | token bucket, ring buffer, tokio's readiness, deduplication window |
| `Matching` | `parse_packet`, connection keys, `cidr_contains`, one rule against one packet |
| `WireRules` | `build_wire_rule`, `parse_cidr`, `parse_port_range`; extends `Matching` |
| `RuleParser` | the rule grammar and application profiles; extends `WireRules` |
| `RuleMeaning` | the three together, compared with reference definitions |
| `RuleSyncProofs`, `PacketWalkProofs`, `ConntrackProofs`, `LinkWatcherProofs`, `BlockLogProofs`, `ControlProofs` | theorems about the module each is named after |
| `FrameMeaningProofs`, `RuleMeaningProofs` | theorems about `RuleMeaning`: its frames, and its rules |
| `MCRuleSync`, `MCPacketWalk`, `MCConntrack`, `MCControl`, `MCRuleMeaning` | constants for TLC |

Definitions named `X_Something` with a comment "Mutant" are broken variants of
`X`. They are used by nothing; replacing `X` by one of them must make a property
fail, and `PROJECT.json` says which.

### RuleModel and Enforcement

A user rule keeps direction, action and interface; protocol, ports and addresses
become the set of packet classes the rule covers, and a rule that
`build_wire_rule` rejects is one with `wellformed = FALSE`. `Matches` and
`Verdict` are the comparisons and the first-match order of `walk_rules`. A zeroed
slot is modelled as what its bytes mean: inbound, allow, any interface, any
packet. `Enforcement` has three variables (what the daemon wants, the default
policies, the table with its switches); the table is only ever replaced as a
whole by a complete translation of what the daemon then wants.

### RuleSync

`pc` is the next call of whoever holds the mutex. A handler changes `on_disk`
first (`Handle`); then come `Save`, the two entries of `DEFAULT_POLICY`, `Build`
(all rules or nothing), one `WriteSlot` per rule into the bank `target`, and
`FlipBank`, the single write of `CONFIG`. The watcher enters at `Build`, the
start at `Load`. Any call may fail (`Faults`): nothing is undone, a request is
answered `err`, the watcher only logs it, and a start ends the process.
`ConfigFails` leaves `active_bank` already flipped, as the code does. `Exit` is a
signal or a crash, at any step; the maps go with the process. `resp` is the
answer to the last request; the watcher's sync does not touch it.
`IfIndexes` lets `resolve_iface` find a named interface or not, anew each time.

### PacketWalk

Each CPU walks one packet: one read of `CONFIG`, one step per slot, one read of
the default. Two ghost fields are recorded with a walk: the verdicts that an
evaluation in one instant would have given since it began, and the number of
operations it overlapped. A slot is read in one step; torn reads need a race on
the slot, and `OneSyncIsSafe` says when there is none.

### Conntrack

An egress run reads the clock, looks up, then passes, refreshes or walks the
rules and inserts, each as a step of its own with other CPUs in between; a run
takes at most `MaxSkew`. `Evict` and `EgressInsertFails` are the LRU map.
Ingress only reads. `ApplyPolicy` and `Publish` are the two moments at which a
sync changes what the tracker sees: first the verdicts, later the switch.
`lastTracked` and `lastPassed` are history.

### LinkWatcher

`attach_to_iface` is four steps by name (XDP, TC, `IFACE_L2`, the record), so an
interface may be replaced between any two. Either attach may be refused on an
interface that exists; the next poll tries again. A snapshot is one step. The ifindex
of a new interface is never used before, as in the kernel. `ChangeRules` stands
for every request, each of which re-resolves all rules. `rushed` is history: the
names that changed again before their last change was noticed. All rules build
and every sync succeeds here; a failing sync, after which the watcher takes the
change for handled all the same, is in `RuleSync`.

### Store and Control

A file is its contents, whether they are complete and on stable storage, and who
has it open. `save` is four steps (remove the old temporary file, in `Lock`;
create a new one; write, sync and close; rename), a daemon may die between any
two, and each may be refused; that the removal was refused is ignored.
After a power loss `rules.toml` is any file it named since the last writeback,
torn if it had not been synced. `Loaded` of a torn file is the defaults or some
of its rules. `LoadFails` is a whole file that cannot be read: the daemon goes on
with the defaults, and its next save replaces the file.

A command (`add`) sends its rules one by one, each on a connection of its own,
and stops at the first that is not answered `Ok`. Clients stall, time out and
die at any point; the daemon reads the frame before it takes the mutex and drops
the mutex before it answers. `add_rule` may refuse a rule before it changes
anything (`Refuse`). `sync_all` only succeeds or fails here, the maps are
RuleSync's. A second daemon may be started by hand at any moment: it loads
the rules, then probes the socket, removes it if stale and binds, in four steps.
`Sweep` is systemd removing the `RuntimeDirectory` of a stopped service. `marks`
is history: which of the accidents below has happened.

### BlockLog

One step per blocked packet (the bucket is per CPU and the program is not
interrupted on it), one per item that `drain_events` takes. Wake-ups are modelled
as the kernel and tokio make them: a signal only for a submission that finds the
consumer at its own record, readiness set by the driver, and `clear_ready`
withdrawing only the readiness the guard had seen. Time starts at `Uptime`, so
the first refill of a zeroed bucket is a large one, and the 32-bit cast is
`% U32`.

### Matching, WireRules, RuleParser and RuleMeaning

A frame is a record of its headers: kind of link, number of VLAN tags, IP header,
the sequence of IPv6 extension headers (each its length, with values for first
and later fragments), transport header, and how many of them are inside the
packet (`cut`). The nested matches of `parse_packet` are there with their
literal offsets: `ethertype_at` says what is at an offset of the frame, and an IP
header that is not where it is looked for is a `Misread`. Addresses are pairs of words of `V4_BITS` or `V6_WORD` bits, so
that both halves of `cidr_contains_v6` and its word boundary are there at small
widths. Words of a rule are strings; `AddrText`, `PortText`, `SplitSlash` and
`LowerCase` say what the standard library reads in them. The two loops are
functions from the number of a pass to the state after it: `Passes` for
`walk_v6_ext`, one `WalkStep` after the other, and `Clauses` for the tokens of
`parse_full_grammar`, one `ClauseStep` after the other.

In `RuleMeaning` a user types a rule clause by clause, or a frame gains tags,
headers and an early end. The references are independent of the code's way of
working: `Grammatical` counts clauses, `Means` evaluates every clause on the
frame as `rule-grammar.md` explains it (an address locks the family, `icmp` is of
either, ports are those of TCP and UDP), `InNet` compares addresses as single
numbers, `Before` and `ExtBytes`
measure a header chain from outside, and the long form of a shorthand is a table
in the run, which an assumption compares with `Spelled`.

## Runs

Passing:

| Run | Instance | Shows |
|---|---|---|
| `rulesync_faults` | 2 slots, 4 rules (one rejected, one with a bad name), all five faults, 3 operations, 1 exit; no file or one with 3 rules | `AckedMeansEnforced`: an `ok` means saved and completely enforced, also after failed syncs of the watcher. `AtomicSwitch`: the active list is replaced whole. `ResetNeverTightens`: no allowed packet is dropped during a reset |
| `rulesync_convergence` | 2 operations, 2 exits, no faults, rules that build | `Converges`: in the end file, daemon and maps agree. `ImplementsEnforcement`: every step is one of `Enforcement` |
| `packet_walk` | 1 CPU, 2 operations, 1 exit, map faults | `VerdictOfOneInstant`, `OneSyncIsSafe`: a walk that overlaps one operation sees one list |
| `conntrack` | 1 flow, 2 CPUs, TTL 6, refresh 2, skew 2, clock to 9 | `RepliesAreBacked`, `SilentFlowsAreAnswered` |
| `link_watcher` | 2 names, one interface at the start, 2 further events (a link event or a refused XDP attach), TC attach may fail | `AttachedMeansFiltered`, `L2KnownWhileRoom`, `EveryInterfaceFiltered`, `RulesFollowLinks` |
| `block_log` | 1 CPU, 2 keys, bucket of 2, refill every 2, ring of 2, 4 drops | `EveryHitCountedOnce`, `RateBound`, `SilenceIsShort`, `EveryHitIsLogged` |
| `control` | a command with 2 rules and one with 1, the service and a daemon started by hand, 2 faults (a kill, a power loss, a failing load, removal, save, sync or map update, a start by hand) | `AnswersAreTrue`, `FileIsWhole`, `NoLeftoverError`, `OneDaemonServes`, `NobodyBlocksARequest`, `ServiceComesBack` |
| `rule_meaning` | rules of up to 4 clauses out of 39, each tried on 62 frames in both directions on 2 interfaces; 62 frames with up to 3 tags and 5 extension headers, cut anywhere | `GrammarTakesWholeRules`, `RuleMeansItsWords`, `ShorthandMeansItsLongForm`, `TagsHideNothing`, `ExtHeadersHideNothing`, `RepliesMeetTheirFlow` |

The bounds. Two slots let a bank be half written and let a file exceed it; three
operations are one to damage the state, one to work on the damaged state and one
to show it. One CPU is enough for walks, which share nothing they write; two
operations are enough for the second to reach the walk's bank. Conntrack entries
of different keys never meet, so one flow and two racing CPUs suffice; the clock
covers a whole TTL after several refreshes. Two link events are enough for a
replacement in the middle of an attach and for a change there and back. CPUs of
the block log share only the ring, whose order of submissions one CPU with two
keys produces as well; four drops empty a bucket of two and overflow a ring of
two. Two faults are a crash in the middle of a save and one more during the
repair, or a second daemon and its end. Once two daemons have disturbed each
other only kills are followed (`Fault`), and of the commands only the first
calls after a sweep (`Connect`), which is enough for two saves to collide on the
temporary file; nobody connects any more after a save that lost rules. The disk
is written back (`FlushDisk`) only while a power loss may still come. In `rule_meaning` every
kind of clause has a word that is accepted and one that is refused, addresses
have 2 and 4 bits, and the header bounds are the code's own (4 headers, 64
bytes), each with a chain exactly at it and one beyond.

The exemptions in the properties of `control` name accidents that the code does
not prevent: `raced`, two starts between each other's probe and bind;
`outdated`, the save of a daemon that did not have the file's rules when it began
to serve, because it could not read the file or because another one saved after
it had; `swept`, systemd removing the runtime directory with the socket of a
daemon started by hand in it; `unsynced`, a `sync_all` that failed unnoticed
before a power loss; `kept`, a temporary file that could not be removed. TLC
shows that each is needed: without it the property fails. For `outdated` that is
the loss of confirmed rules: a start that fails to read a whole file, and the
next `add`.

The exceptions in `RuleMeansItsWords` are the places where the data path does not
do what a rule says, and each is needed in the same sense. `MissesIcmpv6`: `proto
icmp` is accepted with an IPv6 address, or with none, and never matches ICMPv6
(`icmp_proto_for_family`, which would choose, is not called).
`ZeroOfOtherFamily`: `rule-grammar.md:70-71` says that an explicit CIDR locks the
rule to its family, but an explicit `/0` matches both. `IdTakenForPort`: a rule
with a port and no protocol is also compared with the id of an ICMP message. For
everything else the property is exact in both directions.

Fairness. In `RuleSync` the holder of the mutex never awaits, so it goes on
(`WF` on its steps); `dist/moatd.service` restarts the daemon (`WF` on `Attach`).
In `LinkWatcher` the timer fires and the task is scheduled (`WF` on its steps).
In `BlockLog` tokio's driver and the drain task run (`WF`); the flush competes
with the ring in a `select!`, which tries its branches in random order, so that a
due tick is not passed over for ever (`SF`). In `Control` the daemon's tasks run
(`WF` on `Serve` for each connection) and systemd starts the service again (`WF`
on `Starting(Service)`); nothing is assumed of clients or of time-outs.
Clients, interfaces and packets are under no fairness. Liveness is stated for
behaviours whose bounded supply of requests, crashes or link events is used up.

Violations, each a statement of the repository that the code does not meet
(quoted in `PROJECT.json`):

| Run | Statement | What happens |
|---|---|---|
| `rulesync_restart` | rules survive a restart | a rule that cannot be built is saved before it is refused; no later start gets past its initial sync |
| `packet_walk_half_written` | no half-written rule is read | two syncs during one walk: the second writes the bank being walked |
| `conntrack_existing_flows` | existing flows survive `default deny incoming` | flows are not recorded while inbound is permissive |
| `link_watcher_missed_change` | polling is as good as a subscription for the rules | a change between the initial sync and the baseline, or one that is undone before the next poll while a request has synced in between, is never noticed |

Met while reading, not stated as runs: `introduction.md:57-61` lists application
profiles, block logging and the link watcher as not yet in scope, and rules for
an absent interface as inert until a restart, where the code, `architecture.md`
and the tests have all three; `conntrack.md` gives other sizes and
times than `moatd-common`; `architecture.md` has egress walk the rules for every
packet, where the code skips them for a tracked flow; with an unbuildable rule
in the list `default deny incoming` takes effect while the conntrack switch stays
off, because `sync_defaults` precedes the failing `sync_rules`; an interface
whose TC attach failed is never retried successfully, because XDP is then
attached already; `IFACE_L2` (64 entries) is never pruned, so that after enough
interfaces have come and gone a raw-L3 one is taken for Ethernet
(`L2KnownWhileRoom` holds only while there is room).

About the rules, besides the three exceptions above: a non-initial fragment has port 0 and
matches no rule with a port, nor the conntrack entry of its flow; a frame with
three or more VLAN tags passes as not IP; `introduction.md` says that exotic
extension headers fall through with no port match, where a chain that is too long
is dropped, and only one that the walk does not know (AH, for instance) falls
through; `conntrack.md` says that ICMP has both ports 0, where the code uses
the id; `list` prints `src port`, which the grammar does not accept; the CLI
takes addresses and ports unchecked, so that `allow 22/icmp` reaches the daemon
and becomes the rule of `rulesync_restart`.

About the log: a refill forgets its remainder, so that under load the rate can
fall to about half of the "~100 tokens/s/CPU" of `moatd-common/src/lib.rs:52`;
the window is lost at a shutdown; rule number and interface name are looked up
when the line is written and may by then belong to another.

## Proofs

Each `XProofs` extends the module `X` and holds its inductive invariant `IInv`,
one lemma for each action that it is preserved, and the theorems. (In
`RuleMeaning` the invariants are small, because its properties are about what
operators compute; the lemmas are about those.) They hold for
every value of the constants that satisfies the modules' assumptions: any number
of CPUs, interfaces, commands, daemons and faults, any bank, bucket and ring
size, any times. TLC checks each `IInv` on the instance of
the component's run, too.

| Theorem | States | Inductive invariant |
|---|---|---|
| `RuleSyncProofs` | | `TypeOK`, `Control`, `Progress`, `Written`, `SameBank` |
| `TypeCorrect`, `AckedIsEnforced` | `[]TypeOK`, `[]AckedMeansEnforced` | |
| `SwitchesAtomically`, `ResetLoosens` | `AtomicSwitch`, `ResetNeverTightens` | |
| `Refinement` | `ImplementsEnforcement`, if `"config" \notin Faults` | |
| `PacketWalkProofs` | | that of `RuleSync`, `WTypeOK`, `Snapshot`, `VerdictOfOneInstant` |
| `WTypeCorrect` | `[]WTypeOK` | |
| `VerdictsAreOfOneInstant`, `OneSyncSafe` | `[]VerdictOfOneInstant`, `[]OneSyncIsSafe`, if `"config" \notin Faults` | |
| `ConntrackProofs` | | `TypeOK`, `ReadingsAreRecent`, `EntriesHavePassed`, `EntriesAreFresh`, `PastOnly` |
| `TypeCorrect`, `BackedReplies`, `AnsweredFlows` | `[]TypeOK`, `[]RepliesAreBacked`, `[]SilentFlowsAreAnswered` | |
| `LinkWatcherProofs` | | `TypeOK`, `IndexesAreOld`, `IndexesAreUnique`, `AttachProgress`, `Phases`, the theorems' own |
| `TypeCorrect`, `AttachedIsFiltered`, `L2Known` | `[]TypeOK`, `[]AttachedMeansFiltered`, `[]L2KnownWhileRoom` | |
| `LagGetsNoticed` | `[]LagIsVisible`, the safety half of `RulesFollowLinks` | |
| `BlockLogProofs` | | `TypeOK`, `RefillsArePast`, `EmptyIsRecent`, `Budget`, `EveryHitCountedOnce` |
| `TypeCorrect`, `CountedExactlyOnce`, `RateIsBounded` | `[]TypeOK`, `[]EveryHitCountedOnce`, `[]RateBound` | |
| `SilenceIsBounded` | `SilenceIsShort` | |
| `ControlProofs` | | `TypeOK`, `Talk`, `Held`, `OneSocket`, `SaveProgress`, `Power`, `Contents` |
| `TypeCorrect`, `AnswersStayTrue` | `[]TypeOK`, `[]AnswersAreTrue` | |
| `FileStaysWhole`, `LeftoversDoNotMatter`, `OneServes` | `[]FileIsWhole`, `[]NoLeftoverError`, `[]OneDaemonServes` | |
| `FrameMeaningProofs` | | `SentOK`: one frame, with at most `MaxExts` headers |
| `TagsHide`, `ExtHeadersHide`, `RepliesMeet` | `[]TagsHideNothing`, `[]ExtHeadersHideNothing`, `[]RepliesMeetTheirFlow` | |
| `RuleMeaningProofs` | | `TypedOK`: clauses of the vocabulary |
| `TypeCorrect`, `TakesWholeRules` | `[]TypeOK`, `[]GrammarTakesWholeRules` | |
| `MeansItsWords`, `ShorthandMeans` | `[]RuleMeansItsWords`, `[]ShorthandMeansItsLongForm` | |

Assumptions. The constants are of their kinds; an ifindex is never `IFACE_ANY`;
`REFRESH < TTL`; there is an interface name; the host has been up for a refill
interval and the bucket fits its counter (`U32 > LOG_BUCKET_MAX`); a command adds
a rule at least, and no daemon is called `"stale"` and no command `"none"`, the
values of `sock` and `lock` that name nobody. Of a vocabulary: no keyword is a
port or the name of a profile and no word is `none`; `InvalidNames` are the
interface names without an ifindex; an address in `AddrText` fits its words; a
text in `PortText` is one port or two; the names of the protocols are in lower
case already; `LongForm` is `Spelled`. Of frames: those in `Probes`, on which
rules are tried, are complete, untagged IP packets without extension headers, of
any protocol. Two theorems about walks and the
refinement also need that the write of `CONFIG` does not fail; TLC refutes all
three without it, because a failed write leaves the daemon's idea of the active bank
wrong and the next sync rewrites the bank in force.

**RuleSync.** None of the properties is inductive. `IInv` adds what the mutex
holder has done at each `pc`: `Control` (which operation can be at which call,
with which answer), `Progress` (file saved, defaults written, a reset's
configuration is the default one), `Written` (`wire` translates all rules, and
the slots of `target` below `n` hold it) and `SameBank` (daemon and kernel agree
on the bank while no write of `CONFIG` has failed). The step that matters is
`FlipBank`: by `Written` the target bank then holds the whole list, by `Progress`
the defaults are in place, so `InForce` follows. The delicate case of
`AckedMeansEnforced` is a watcher sync on a disagreeing bank, after a failed
write of `CONFIG`: it rewrites the live bank in place, but with translations of
the same rules (`WriteSlotIInv`). `Refinement` needs `SameBank`: otherwise such a
rewrite shows through slot by slot.

**PacketWalk.** `Snapshot` says of a walk that has overlapped at most one
operation: it is on the active bank, or that one operation is over and the walk
on the bank it left behind; no rule passed so far matches; and first match over
the bank it walks is a verdict recorded for it. `WriteSlot` preserves it because
it writes the other bank, `FlipBank` because the bank left keeps its contents.
That the walk's own answer is the first match needs the least index that
matches. Induction over numbers is not available to the provers, so
`LeastElement` gets it from the well-foundedness of strict inclusion on finite
sets.

**Conntrack.** An entry holds a clock reading that may be old when it is written,
so the invariant bounds it from both sides: no newer than the last packet that
passed, and less than `REFRESH + MaxSkew` older than the last that was tracked.
The case that needs `ReadingsAreRecent` is a slow CPU overwriting the newer
entry of another.

**LinkWatcher.** `attach_to_iface` goes by name while the watcher records the
ifindex of its snapshot. `AttachProgress` says what an attach has reached if the
interface is still that one; it survives link events because an ifindex is never
handed out twice (`IndexesAreOld`). `LagIsVisible` is what the comparison of
snapshots relies on: an outdated rule has an interface whose state differs from
the one in `last`.

**BlockLog.** `RateBound` counts tokens taken; what may be taken next depends on
those left and on when they were refilled. `Budget` bounds the sum of both by a
full bucket and the refill intervals begun until the last refill, and adds that
a bucket used in the interval but refilled before it was refilled less than one
interval before: without that, its next refill could credit time outside the
interval. `SilenceIsShort` follows from `EmptyIsRecent`.

**Control.** `Talk` and `Held` say how far command, connection and mutex have
come together. `Contents` relates what a command was told to every place a list
of rules can be: the file, the contents a power loss may bring back, and the
memory of a daemon, which has one rule more than was confirmed while a save is in
progress. It holds across restarts because a starting daemon's list is that of
the file; `late` marks the one whose list is not, and nothing is said of its
memory, only that the file changes no earlier than its first save. `SaveProgress`
says what is behind the temporary name at each step of `store::save`; that no two
saves share it is `OneSocket` (one daemon serves) with the mutex.

**Frames.** Whatever a frame gains, the properties are about `parse_packet` of
it. `EthernetMatch` follows the nested matches to the IP header behind up to two
tags, offset by offset. The heart is an induction over the passes of `walk_v6_ext`. The induction
theorems of the library cannot be used by the provers, so it is done with sets:
`SetInduction` (a set with 0 and with every successor has all numbers, from the
well-foundedness of inclusion) and `Iteration` (a function that is defined pass
by pass exists, which is what makes a recursive definition mean something).
`Knows` is the invariant of the walk: while it goes on, it has seen as many
headers as it made passes, none of them a later fragment's, and its offset is
their `ExtBytes`; when it has stopped, why. `WalkFinds` then gives the exact
condition, and `BytesGrow` that the check of the offset before each header is a
check of the whole chain.

**Rules.** The chain is proved from both ends. At its end, `ContainsIsInNet`:
masking two words and comparing them is comparing the leading bits of one number
of both, for either family, any width and a prefix on either side of the word
boundary; it rests on `PowSum` and two facts about division. `CidrOf`, `PortsOf`
and `WireRuleOf` say what `build_wire_rule` accepts and makes of each field. At
its beginning, `TextLaid` says where the words of each clause are in the command
line. `Known(cs, off, k, s)` is the invariant of the token loop in state `s`: it
stands behind the first `k` clauses, these are legal, `given` are their kinds and
the rule says what they say. It also says that the loop is not between a `from`
and the `port` that belongs to it: such a port is taken in the same pass, and
without that the port would count as the destination's. `PassStep` shows that a
pass goes on to `k + 1` or `k + 2` clauses or refuses a rule that is not
`Grammatical`; since every pass moves on, there are enough of them (`ClausesDef`),
and at the end `k` is all. A rule that breaks off is the same text without its
last word; there a pass always ends at the beginning of a clause, so never at the
end of the text (`CutStep`, `CutLoop`). In the middle the two meet: `SaysAll`
gives the fields of the rule, `BuiltOk` that it can be built exactly if it is
`Satisfiable`, and `WireMatches` what the wire rule compares, field by field
(`NetSeen`, `ProtoSeen`, `PortSeen`). `WireMeans` sets that against `Means`: the
fields differ only in the three exceptions.

Only model-checked: liveness (`Converges`, `RulesFollowLinks`,
`EveryInterfaceFiltered`, `EveryHitIsLogged`, `NobodyBlocksARequest`,
`ServiceComesBack`), which is out of the prover's reach.

## Not modelled

The benchmark and the build script; the texts of output, log lines, JSON and
TOML; file permissions; `enable` and `disable`, which call systemctl;
`parse_default_args`, a table of two words; `apps::list`, which nothing calls.
Frame sizes on the socket are not there: a frame is written and read whole or
not at all. Torn reads of a slot and races between the files `iface_snapshot`
reads for one interface are not steps. The handling of one packet is split
between `Matching` (parsing, one rule), `PacketWalk` (the list) and `Conntrack`
(state); the second read of `CONFIG` by `conntrack_enabled` is only in the
latter. `Control` has only `AddRule`; the other requests differ from it in what
they do to the configuration, which is in `RuleSync`.

## Plan

1. `PacketWalk` with a failing write of `CONFIG`: what a walk may still rely on.
2. The other requests in `Control`, composed with what `RuleSync` makes of them.
