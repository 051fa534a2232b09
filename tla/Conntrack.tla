------------------------------ MODULE Conntrack ------------------------------
(***************************************************************************)
(* The connection tracker of the data path.  Egress (try_egress) records a *)
(* flow, or refreshes its entry at most every REFRESH; ingress             *)
(* (try_ingress) lets a packet pass whose reversed key has an entry        *)
(* younger than TTL, and otherwise evaluates the rules.  CPUs handle       *)
(* packets of the same flow at the same time; the lookup and the insertion *)
(* of one egress are separate map operations, and the clock is read before *)
(* both.  The control plane changes the rules' verdicts first and the      *)
(* conntrack switch in a later step.                                       *)
(*                                                                         *)
(* Time is counted in units; a rule walk is abstracted to the sets of keys *)
(* it allows in each direction (PacketWalk models the walk itself).        *)
(***************************************************************************)
EXTENDS Integers

CONSTANTS
  Local, Remote,  \* endpoints: address, port and protocol of each side
  Cpus,           \* CPUs running the egress program
  TTL, REFRESH,   \* CONNTRACK_TTL_NS and CONNTRACK_REFRESH_NS
  MaxSkew,        \* how long one run of the program may take, in clock units
  MaxTime,        \* bound on the clock
  Eviction        \* whether the LRU map may drop entries and insertions

ASSUME TimesAssumption ==
  /\ TTL \in Nat \ {0} /\ REFRESH \in Nat \ {0} /\ REFRESH < TTL
  /\ MaxSkew \in Nat /\ MaxTime \in Nat
  /\ Eviction \in BOOLEAN

Endpoints == Local \cup Remote
Keys == [src : Endpoints, dst : Endpoints]
Outbound == [src : Local, dst : Remote]    \* keys of packets leaving the host
Never == -1

VARIABLES
  now,                \* bpf_ktime_get_coarse_ns
  CONNTRACK,          \* key |-> last_seen_ns, Never if there is no entry
  conntrack_enabled,  \* CONFIG.conntrack_enabled
  allowIn, allowOut,  \* keys of the packets the rules and defaults allow
  cpu,                \* egress run in progress on each CPU
  lastTracked,        \* key |-> time the last outbound packet left its entry behind
  lastPassed          \* key |-> time the last outbound packet passed at all

vars == <<now, CONNTRACK, conntrack_enabled, allowIn, allowOut, cpu, lastTracked, lastPassed>>
control == <<conntrack_enabled, allowIn, allowOut>>

Idle == [at |-> "idle"]

ReverseKey(p) == [src |-> p.dst, dst |-> p.src]

SaturatingSub(a, b) == IF a >= b THEN a - b ELSE 0

Init ==
  /\ now = 0
  /\ CONNTRACK = [k \in Keys |-> Never]
  /\ conntrack_enabled = FALSE
  /\ allowIn = Keys /\ allowOut = Keys
  /\ cpu = [c \in Cpus |-> Idle]
  /\ lastTracked = [k \in Keys |-> Never]
  /\ lastPassed = [k \in Keys |-> Never]

-----------------------------------------------------------------------------
(* Egress. *)

\* Without conntrack the rules alone decide, and nothing is recorded.
EgressStateless(p) ==
  /\ ~conntrack_enabled
  /\ lastPassed' = IF p \in allowOut THEN [lastPassed EXCEPT ![p] = now] ELSE lastPassed
  /\ UNCHANGED <<now, CONNTRACK, control, cpu, lastTracked>>

EgressStart(c, p) ==
  /\ cpu[c].at = "idle"
  /\ conntrack_enabled
  /\ cpu' = [cpu EXCEPT ![c] = [at |-> "lookup", key |-> p, now |-> now]]
  /\ UNCHANGED <<now, CONNTRACK, control, lastTracked, lastPassed>>

\* TC_ACT_PIPE.
Pass(c, tracked) ==
  LET k == cpu[c].key
  IN  /\ cpu' = [cpu EXCEPT ![c] = Idle]
      /\ lastPassed' = [lastPassed EXCEPT ![k] = now]
      /\ lastTracked' = IF tracked THEN [lastTracked EXCEPT ![k] = now] ELSE lastTracked

\* Mutant: the refresh comes one clock unit too late.
EgressLookup_LateRefresh(c) ==
  LET v == CONNTRACK[cpu[c].key]
      age == SaturatingSub(cpu[c].now, v)
  IN  /\ cpu[c].at = "lookup"
      /\ \/ /\ v # Never /\ age <= REFRESH
            /\ Pass(c, TRUE)
         \/ /\ v # Never /\ age > REFRESH /\ age < TTL
            /\ cpu' = [cpu EXCEPT ![c].at = "insert"]
            /\ UNCHANGED <<lastTracked, lastPassed>>
         \/ /\ v = Never \/ age >= TTL
            /\ cpu' = [cpu EXCEPT ![c].at = "walk"]
            /\ UNCHANGED <<lastTracked, lastPassed>>
      /\ UNCHANGED <<now, CONNTRACK, control>>

\* An established flow skips the rules; its entry is refreshed when old enough.
EgressLookup(c) ==
  LET v == CONNTRACK[cpu[c].key]
      age == SaturatingSub(cpu[c].now, v)
  IN  /\ cpu[c].at = "lookup"
      /\ \/ /\ v # Never /\ age < REFRESH
            /\ Pass(c, TRUE)
         \/ /\ v # Never /\ age >= REFRESH /\ age < TTL
            /\ cpu' = [cpu EXCEPT ![c].at = "insert"]
            /\ UNCHANGED <<lastTracked, lastPassed>>
         \/ /\ v = Never \/ age >= TTL
            /\ cpu' = [cpu EXCEPT ![c].at = "walk"]
            /\ UNCHANGED <<lastTracked, lastPassed>>
      /\ UNCHANGED <<now, CONNTRACK, control>>

\* A denied packet is shot, and leaves no entry.
EgressWalk(c) ==
  /\ cpu[c].at = "walk"
  /\ cpu' = [cpu EXCEPT ![c] = IF cpu[c].key \in allowOut
                               THEN [@ EXCEPT !.at = "insert"] ELSE Idle]
  /\ UNCHANGED <<now, CONNTRACK, control, lastTracked, lastPassed>>

\* Mutant: the entry is stored under the key of the reply.
EgressInsert_Reversed(c) ==
  /\ cpu[c].at = "insert"
  /\ CONNTRACK' = [CONNTRACK EXCEPT ![ReverseKey(cpu[c].key)] = cpu[c].now]
  /\ Pass(c, TRUE)
  /\ UNCHANGED <<now, control>>

\* The value written is the clock as read before the lookup.
EgressInsert(c) ==
  /\ cpu[c].at = "insert"
  /\ CONNTRACK' = [CONNTRACK EXCEPT ![cpu[c].key] = cpu[c].now]
  /\ Pass(c, TRUE)
  /\ UNCHANGED <<now, control>>

\* The result of the insertion is ignored: the packet passes all the same.
EgressInsertFails(c) ==
  /\ Eviction
  /\ cpu[c].at = "insert"
  /\ Pass(c, FALSE)
  /\ UNCHANGED <<now, CONNTRACK, control>>

-----------------------------------------------------------------------------
(* Ingress of packet p: what lets it pass. *)

ConntrackHit(p) ==
  LET v == CONNTRACK[ReverseKey(p)]
  IN  conntrack_enabled /\ v # Never /\ SaturatingSub(now, v) < TTL

IngressPasses(p) == ConntrackHit(p) \/ p \in allowIn

\* Mutant: a conntrack hit on ingress renews the entry.
Ingress_Refreshes(p) ==
  /\ ConntrackHit(p)
  /\ CONNTRACK' = [CONNTRACK EXCEPT ![ReverseKey(p)] = now]
  /\ UNCHANGED <<now, control, cpu, lastTracked, lastPassed>>

\* Ingress only reads the map: no refresh on ingress.
Ingress(p) == UNCHANGED vars

-----------------------------------------------------------------------------
(* The environment. *)

Evict(k) ==
  /\ Eviction
  /\ CONNTRACK[k] # Never
  /\ CONNTRACK' = [CONNTRACK EXCEPT ![k] = Never]
  /\ UNCHANGED <<now, control, cpu, lastTracked, lastPassed>>

\* A run of the program is short: it ends within MaxSkew.
Tick ==
  /\ now < MaxTime
  /\ \A c \in Cpus : cpu[c].at # "idle" => now - cpu[c].now < MaxSkew
  /\ now' = now + 1
  /\ UNCHANGED <<CONNTRACK, control, cpu, lastTracked, lastPassed>>

\* sync_defaults: the verdicts change, the switch does not yet.
ApplyPolicy ==
  /\ \E i, o \in {{}, Keys} : allowIn' = i /\ allowOut' = o
  /\ UNCHANGED <<now, CONNTRACK, conntrack_enabled, cpu, lastTracked, lastPassed>>

NeedsConntrack == allowIn # Keys

\* write_config: conntrack is on exactly when inbound is restrictive.
Publish ==
  /\ conntrack_enabled' = NeedsConntrack
  /\ UNCHANGED <<now, CONNTRACK, allowIn, allowOut, cpu, lastTracked, lastPassed>>

Next ==
  \/ \E p \in Outbound : EgressStateless(p)
  \/ \E c \in Cpus, p \in Outbound : EgressStart(c, p)
  \/ \E c \in Cpus : \/ EgressLookup(c)
                     \/ EgressWalk(c)
                     \/ EgressInsert(c)
                     \/ EgressInsertFails(c)
  \/ \E p \in Outbound : Ingress(ReverseKey(p))
  \/ \E k \in Keys : Evict(k)
  \/ Tick
  \/ ApplyPolicy
  \/ Publish

Spec == Init /\ [][Next]_vars

-----------------------------------------------------------------------------
Times == 0..MaxTime
Runs == [at : {"lookup", "walk", "insert"}, key : Outbound, now : Times]

\* Entries exist for outbound keys only, and never lie in the future.
TypeOK ==
  /\ now \in Times
  /\ CONNTRACK \in [Keys -> Times \cup {Never}]
  /\ conntrack_enabled \in BOOLEAN
  /\ allowIn \subseteq Keys /\ allowOut \subseteq Keys
  /\ cpu \in [Cpus -> {Idle} \cup Runs]
  /\ lastTracked \in [Keys -> Times \cup {Never}]
  /\ lastPassed \in [Keys -> Times \cup {Never}]
  /\ \A k \in Keys : CONNTRACK[k] # Never => k \in Outbound /\ CONNTRACK[k] <= now

\* conntrack lets an inbound packet pass only while an outbound packet of the
\* reversed key has passed within the last TTL: inbound traffic, however much
\* of it, keeps no entry alive, and a denied outbound packet opens nothing.
RepliesAreBacked ==
  \A p \in Outbound :
    ConntrackHit(ReverseKey(p)) =>
      lastPassed[p] # Never /\ now - lastPassed[p] < TTL

\* With a refresh only every REFRESH, and concurrent CPUs writing older clock
\* readings over newer ones, a tracked flow may still be silent for almost
\* TTL - REFRESH and get its reply.
SilentFlowsAreAnswered ==
  \A p \in Outbound :
    (/\ conntrack_enabled /\ CONNTRACK[p] # Never
     /\ lastTracked[p] # Never /\ now - lastTracked[p] <= TTL - REFRESH - MaxSkew)
      => ConntrackHit(ReverseKey(p))

\* "Existing flows survive because outbound packets populate the conntrack and
\* their replies match in reverse": once a change of defaults is complete, a
\* flow with recent outbound traffic gets its replies.
ExistingFlowsSurvive ==
  conntrack_enabled = NeedsConntrack =>
    \A p \in Outbound :
      lastPassed[p] # Never /\ now - lastPassed[p] <= TTL - REFRESH - MaxSkew
        => IngressPasses(ReverseKey(p))
=============================================================================
