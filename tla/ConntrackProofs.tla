--------------------------- MODULE ConntrackProofs ---------------------------
(***************************************************************************)
(* Proofs about the connection tracker, for any endpoints, any number of   *)
(* CPUs, and any TTL, refresh interval and length of a run.                *)
(*                                                                         *)
(* Neither property of Conntrack is inductive: what an entry says about    *)
(* the past depends on how old the clock reading of a run may be when it   *)
(* is written.  IInv adds that, and ties every entry to the packet that    *)
(* left it behind.                                                         *)
(***************************************************************************)
EXTENDS Conntrack, TLAPS

\* A run's clock reading is at most MaxSkew old.
ReadingsAreRecent ==
  \A c \in Cpus : cpu[c] # Idle => cpu[c].now <= now /\ now - cpu[c].now <= MaxSkew

\* An entry is no newer than the last outbound packet that passed, ...
EntriesHavePassed ==
  \A k \in Keys : CONNTRACK[k] # Never =>
    lastPassed[k] # Never /\ CONNTRACK[k] <= lastPassed[k]

\* ... and not much older than the last one that was tracked.
EntriesAreFresh ==
  \A k \in Keys : CONNTRACK[k] # Never =>
    lastTracked[k] # Never /\ lastTracked[k] - CONNTRACK[k] < REFRESH + MaxSkew

\* Nothing has happened in the future.
PastOnly == \A k \in Keys : lastPassed[k] <= now

IInv == TypeOK /\ ReadingsAreRecent /\ EntriesHavePassed /\ EntriesAreFresh /\ PastOnly

-----------------------------------------------------------------------------
(* Lemmas. *)

\* The keys of packets leaving the host are keys, and reversing twice is the
\* identity (ConnKey::reverse).
LEMMA KeyFacts ==
  /\ Outbound \subseteq Keys
  /\ \A p \in Keys : ReverseKey(p) \in Keys /\ ReverseKey(ReverseKey(p)) = p
<1>1. Outbound \subseteq Keys
  BY DEF Outbound, Keys, Endpoints
<1>2. ASSUME NEW p \in Keys
      PROVE  ReverseKey(p) \in Keys /\ ReverseKey(ReverseKey(p)) = p
  <2>1. p = [src |-> p.src, dst |-> p.dst] /\ p.src \in Endpoints /\ p.dst \in Endpoints
    BY DEF Keys
  <2> QED  BY <2>1 DEF ReverseKey, Keys
<1> QED  BY <1>1, <1>2

\* A run in progress is a record, different from Idle.
LEMMA RunFacts ==
  ASSUME TypeOK, NEW c \in Cpus, cpu[c].at \in {"lookup", "walk", "insert"}
  PROVE  cpu[c] \in Runs /\ cpu[c] # Idle
BY DEF TypeOK, Idle

\* The initial state, in which nothing is tracked and no program runs.
LEMMA InitIInv == Init => IInv
<1> SUFFICES ASSUME Init PROVE IInv
  OBVIOUS
<1>1. TypeOK
  <2>1. 0 \in Times
    BY TimesAssumption DEF Times
  <2> QED  BY <2>1 DEF Init, TypeOK
<1>2. ReadingsAreRecent
  BY DEF Init, ReadingsAreRecent
<1>3. EntriesHavePassed /\ EntriesAreFresh /\ PastOnly
  BY DEF Init, EntriesHavePassed, EntriesAreFresh, PastOnly, Never
<1> QED
  BY <1>1, <1>2, <1>3 DEF IInv

\* Passing a packet (TC_ACT_PIPE) keeps everything but the entry's own ties.
LEMMA PassKeeps ==
  ASSUME IInv, NEW c \in Cpus, NEW t \in BOOLEAN, cpu[c] \in Runs, Pass(c, t), now' = now
  PROVE  /\ cpu' \in [Cpus -> {Idle} \cup Runs]
         /\ lastTracked' \in [Keys -> Times \cup {Never}]
         /\ lastPassed' \in [Keys -> Times \cup {Never}]
         /\ lastPassed'[cpu[c].key] = now
         /\ t => lastTracked'[cpu[c].key] = now
         /\ ~t => lastTracked' = lastTracked
         /\ \A k \in Keys \ {cpu[c].key} :
              lastPassed'[k] = lastPassed[k] /\ lastTracked'[k] = lastTracked[k]
         /\ ReadingsAreRecent'
         /\ PastOnly'
<1>1. cpu[c].key \in Keys /\ now \in Times /\ now \in Int
  BY KeyFacts, TimesAssumption DEF Runs, IInv, TypeOK, Times
<1> QED
  BY <1>1 DEF Pass, IInv, TypeOK, ReadingsAreRecent, PastOnly

-----------------------------------------------------------------------------
(* The inductive step. *)

\* Every operation of the data path, the environment and the control plane
\* preserves the inductive invariant.
LEMMA NextIInv == IInv /\ [Next]_vars => IInv'
<1> SUFFICES ASSUME IInv, [Next]_vars PROVE IInv'
  OBVIOUS
<1> USE TimesAssumption
<1>k. Outbound \subseteq Keys
  BY KeyFacts
<1>n. now \in Nat /\ MaxTime \in Nat /\ Never \notin Nat
  BY DEF IInv, TypeOK, Times, Never
<1>1. ASSUME NEW p \in Outbound, EgressStateless(p) PROVE IInv'
  BY <1>1, <1>k, <1>n
  DEF EgressStateless, control, IInv, TypeOK, ReadingsAreRecent, EntriesHavePassed,
      EntriesAreFresh, PastOnly, Times, Never
<1>2. ASSUME NEW c \in Cpus, NEW p \in Outbound, EgressStart(c, p) PROVE IInv'
  <2>1. TypeOK'
    BY <1>2 DEF EgressStart, control, IInv, TypeOK, Runs
  <2>2. ReadingsAreRecent'
    BY <1>2, <1>n DEF EgressStart, IInv, TypeOK, ReadingsAreRecent
  <2> QED
    BY <1>2, <2>1, <2>2 DEF EgressStart, IInv, EntriesHavePassed, EntriesAreFresh, PastOnly
<1>3. ASSUME NEW c \in Cpus, EgressLookup(c) PROVE IInv'
  <2> DEFINE k == cpu[c].key
             v == CONNTRACK[k]
             age == SaturatingSub(cpu[c].now, v)
  <2>1. cpu[c] \in Runs /\ cpu[c] # Idle /\ k \in Keys /\ cpu[c].now \in Nat /\ v \in Int
    BY <1>3, <1>k, RunFacts DEF EgressLookup, IInv, Runs, TypeOK, Times, Never
  <2>2. CASE v # Never /\ age < REFRESH /\ Pass(c, TRUE)
    <3>1. CONNTRACK' = CONNTRACK /\ now' = now /\ UNCHANGED control
      BY <1>3 DEF EgressLookup
    <3>2. /\ lastPassed'[k] = now /\ lastTracked'[k] = now
          /\ \A j \in Keys \ {k} :
               lastPassed'[j] = lastPassed[j] /\ lastTracked'[j] = lastTracked[j]
      BY <2>1, <2>2, <3>1, PassKeeps
    <3>6. cpu[c].now <= now /\ now - cpu[c].now <= MaxSkew
      BY <2>1 DEF IInv, ReadingsAreRecent
    <3>7. now - v < REFRESH + MaxSkew
      BY <2>1, <2>2, <3>6, <1>n DEF SaturatingSub
    <3>3. TypeOK'
      BY <2>1, <2>2, <3>1, PassKeeps DEF IInv, TypeOK, control
    <3>4. EntriesHavePassed'
      <4>1. v <= now
        BY <2>1, <2>2 DEF IInv, TypeOK
      <4> QED
        BY <3>1, <3>2, <4>1, <1>n DEF IInv, EntriesHavePassed
    <3>5. EntriesAreFresh'
      BY <3>1, <3>2, <3>7, <1>n DEF IInv, EntriesAreFresh
    <3> QED
      BY <2>1, <2>2, <3>1, <3>3, <3>4, <3>5, PassKeeps DEF IInv
  <2>3. ASSUME NEW s \in {"insert", "walk"}, cpu' = [cpu EXCEPT ![c].at = s],
               UNCHANGED <<lastTracked, lastPassed>>
        PROVE  IInv'
    <3>1. cpu' = [cpu EXCEPT ![c] = [@ EXCEPT !.at = s]]
      BY <2>3
    <3>2. [cpu[c] EXCEPT !.at = s] \in Runs
      BY <2>1 DEF Runs
    <3>3. TypeOK'
      BY <1>3, <2>3, <3>1, <3>2 DEF EgressLookup, control, IInv, TypeOK
    <3>4. ReadingsAreRecent'
      BY <1>3, <2>1, <3>1, <3>2 DEF EgressLookup, IInv, TypeOK, ReadingsAreRecent, Runs
    <3> QED
      BY <1>3, <2>3, <3>3, <3>4
      DEF EgressLookup, IInv, EntriesHavePassed, EntriesAreFresh, PastOnly
  <2> QED
    BY <1>3, <2>2, <2>3 DEF EgressLookup
<1>4. ASSUME NEW c \in Cpus, EgressWalk(c) PROVE IInv'
  <2>1. cpu[c] \in Runs /\ cpu[c] # Idle
    BY <1>4, RunFacts DEF EgressWalk, IInv
  <2>2. [cpu[c] EXCEPT !.at = "insert"] \in Runs
    BY <2>1 DEF Runs
  <2>3. TypeOK'
    BY <1>4, <2>2 DEF EgressWalk, control, IInv, TypeOK
  <2>4. ReadingsAreRecent'
    BY <1>4, <2>1, <2>2 DEF EgressWalk, IInv, TypeOK, ReadingsAreRecent, Runs
  <2> QED
    BY <1>4, <2>3, <2>4 DEF EgressWalk, IInv, EntriesHavePassed, EntriesAreFresh, PastOnly
<1>5. ASSUME NEW c \in Cpus, EgressInsert(c) PROVE IInv'
  <2> DEFINE k == cpu[c].key
  <2>1. cpu[c] \in Runs /\ cpu[c] # Idle /\ k \in Outbound /\ k \in Keys /\ cpu[c].now \in Times
    BY <1>5, <1>k, RunFacts DEF EgressInsert, IInv, Runs
  <2>2. now' = now /\ UNCHANGED control /\ Pass(c, TRUE)
        /\ CONNTRACK' = [CONNTRACK EXCEPT ![k] = cpu[c].now]
    BY <1>5 DEF EgressInsert
  <2>3. cpu[c].now <= now /\ now - cpu[c].now <= MaxSkew /\ cpu[c].now \in Nat
    BY <2>1 DEF IInv, ReadingsAreRecent, Times
  <2>4. TypeOK'
    BY <2>1, <2>2, <2>3, PassKeeps DEF IInv, TypeOK, control
  <2>7. /\ lastPassed'[k] = now /\ lastTracked'[k] = now
        /\ \A j \in Keys \ {k} :
             lastPassed'[j] = lastPassed[j] /\ lastTracked'[j] = lastTracked[j]
    BY <2>1, <2>2, PassKeeps
  <2>8. /\ CONNTRACK'[k] = cpu[c].now
        /\ \A j \in Keys \ {k} : CONNTRACK'[j] = CONNTRACK[j]
    BY <2>1, <2>2 DEF IInv, TypeOK
  <2>5. EntriesHavePassed'
    BY <2>3, <2>7, <2>8, <1>n DEF IInv, EntriesHavePassed
  <2>6. EntriesAreFresh'
    BY <2>3, <2>7, <2>8, <1>n DEF IInv, EntriesAreFresh
  <2> QED
    BY <2>1, <2>2, <2>4, <2>5, <2>6, PassKeeps DEF IInv
<1>6. ASSUME NEW c \in Cpus, EgressInsertFails(c) PROVE IInv'
  <2> DEFINE k == cpu[c].key
  <2>1. cpu[c] \in Runs /\ k \in Keys
    BY <1>6, <1>k, RunFacts DEF EgressInsertFails, IInv, Runs
  <2>2. now' = now /\ UNCHANGED control /\ Pass(c, FALSE) /\ CONNTRACK' = CONNTRACK
    BY <1>6 DEF EgressInsertFails
  <2>3. TypeOK'
    BY <2>1, <2>2, PassKeeps DEF IInv, TypeOK, control
  <2>4. EntriesHavePassed'
    BY <2>1, <2>2, <1>n, PassKeeps DEF IInv, TypeOK, EntriesHavePassed
  <2>5. EntriesAreFresh'
    BY <2>1, <2>2, PassKeeps DEF IInv, EntriesAreFresh
  <2> QED
    BY <2>1, <2>2, <2>3, <2>4, <2>5, PassKeeps DEF IInv
<1>7. ASSUME NEW k \in Keys, Evict(k) PROVE IInv'
  <2>1. TypeOK'
    BY <1>7 DEF Evict, control, IInv, TypeOK
  <2> QED
    BY <1>7, <2>1
    DEF Evict, IInv, TypeOK, ReadingsAreRecent, EntriesHavePassed, EntriesAreFresh, PastOnly
<1>8. CASE Tick
  <2>1. now' \in Times /\ now' = now + 1
    BY <1>8, <1>n DEF Tick, Times
  <2>2. \A k \in Keys : CONNTRACK[k] \in Int /\ lastPassed[k] \in Int
    BY DEF IInv, TypeOK, Times, Never
  <2>3. TypeOK'
    BY <1>8, <1>n, <2>1, <2>2 DEF Tick, control, IInv, TypeOK
  <2>4. ReadingsAreRecent'
    <3> SUFFICES ASSUME NEW c \in Cpus, cpu[c] # Idle
                 PROVE  cpu[c].now <= now' /\ now' - cpu[c].now <= MaxSkew
      BY <1>8 DEF Tick, ReadingsAreRecent
    <3>1. cpu[c] \in Runs /\ cpu[c].at # "idle" /\ cpu[c].now \in Nat
      BY DEF IInv, TypeOK, Runs, Times
    <3> QED
      BY <1>8, <1>n, <2>1, <3>1 DEF Tick, IInv, ReadingsAreRecent
  <2>5. PastOnly'
    BY <1>8, <1>n, <2>1, <2>2 DEF Tick, IInv, PastOnly
  <2> QED
    BY <1>8, <2>3, <2>4, <2>5 DEF Tick, IInv, EntriesHavePassed, EntriesAreFresh
<1>9. CASE ApplyPolicy
  BY <1>9 DEF ApplyPolicy, IInv, TypeOK, ReadingsAreRecent, EntriesHavePassed,
              EntriesAreFresh, PastOnly
<1>10. CASE Publish
  BY <1>10 DEF Publish, NeedsConntrack, IInv, TypeOK, ReadingsAreRecent, EntriesHavePassed,
               EntriesAreFresh, PastOnly
<1>11. CASE UNCHANGED vars
  BY <1>11 DEF vars, IInv, TypeOK, ReadingsAreRecent, EntriesHavePassed,
               EntriesAreFresh, PastOnly
<1> QED
  BY <1>1, <1>2, <1>3, <1>4, <1>5, <1>6, <1>7, <1>8, <1>9, <1>10, <1>11
  DEF Next, Ingress

-----------------------------------------------------------------------------
(* The theorems. *)

\* The inductive invariant holds in every state the tracker can reach.
THEOREM Invariance == Spec => []IInv
BY InitIInv, NextIInv, PTL DEF Spec

\* Entries of the CONNTRACK map exist for outbound keys only and carry no
\* reading from the future, whatever CPUs interleave.
THEOREM TypeCorrect == Spec => []TypeOK
<1>1. IInv => TypeOK
  BY DEF IInv
<1> QED  BY <1>1, Invariance, PTL

\* try_ingress: conntrack lets a packet in only while an outbound packet of
\* the reversed key has passed within the last TTL.
THEOREM BackedReplies == Spec => []RepliesAreBacked
<1>1. IInv => RepliesAreBacked
  <2> SUFFICES ASSUME IInv, NEW p \in Outbound, ConntrackHit(ReverseKey(p))
               PROVE  lastPassed[p] # Never /\ now - lastPassed[p] < TTL
    BY DEF RepliesAreBacked
  <2>1. p \in Keys /\ ReverseKey(ReverseKey(p)) = p
    BY KeyFacts
  <2>2. CONNTRACK[p] # Never /\ SaturatingSub(now, CONNTRACK[p]) < TTL
    BY <2>1 DEF ConntrackHit
  <2>3. CONNTRACK[p] \in Int /\ lastPassed[p] \in Int /\ now \in Int /\ CONNTRACK[p] <= now
    BY <2>1, <2>2, TimesAssumption DEF IInv, TypeOK, Times, Never
  <2>4. lastPassed[p] # Never /\ CONNTRACK[p] <= lastPassed[p]
    BY <2>1, <2>2 DEF IInv, EntriesHavePassed
  <2> QED
    BY <2>2, <2>3, <2>4, TimesAssumption DEF SaturatingSub
<1> QED  BY <1>1, Invariance, PTL

\* The refresh interval costs a flow no more than REFRESH and one run of the
\* program: a tracked flow silent for at most TTL - REFRESH - MaxSkew gets
\* its reply, for every TTL and every number of CPUs racing on the entry.
THEOREM AnsweredFlows == Spec => []SilentFlowsAreAnswered
<1>1. IInv => SilentFlowsAreAnswered
  <2> SUFFICES ASSUME IInv, NEW p \in Outbound, conntrack_enabled, CONNTRACK[p] # Never,
                      lastTracked[p] # Never,
                      now - lastTracked[p] <= TTL - REFRESH - MaxSkew
               PROVE  ConntrackHit(ReverseKey(p))
    BY DEF SilentFlowsAreAnswered
  <2>1. p \in Keys /\ ReverseKey(ReverseKey(p)) = p
    BY KeyFacts
  <2>2. CONNTRACK[p] \in Int /\ lastTracked[p] \in Int /\ now \in Int /\ CONNTRACK[p] <= now
    BY <2>1, TimesAssumption DEF IInv, TypeOK, Times, Never
  <2>3. lastTracked[p] - CONNTRACK[p] < REFRESH + MaxSkew
    BY <2>1 DEF IInv, EntriesAreFresh
  <2>4. SaturatingSub(now, CONNTRACK[p]) < TTL
    BY <2>2, <2>3, TimesAssumption DEF SaturatingSub
  <2> QED
    BY <2>1, <2>4 DEF ConntrackHit
<1> QED  BY <1>1, Invariance, PTL
=============================================================================
