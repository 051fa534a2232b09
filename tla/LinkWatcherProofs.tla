-------------------------- MODULE LinkWatcherProofs --------------------------
(***************************************************************************)
(* Proofs about the link watcher, for any interface names, any capacity of *)
(* IFACE_L2 and any number of link events, at any moment.                  *)
(*                                                                         *)
(* attach_to_iface goes by name, but the watcher records the ifindex of    *)
(* its snapshot.  The two agree only because the kernel never hands out an *)
(* ifindex twice: IInv says so, and says what an attach in progress has    *)
(* reached if the interface is still the one of the snapshot.              *)
(***************************************************************************)
EXTENDS LinkWatcher, TLAPS, FiniteSetTheorems

\* No ifindex is ahead of the counter, ...
IndexesAreOld ==
  \A nm \in Names :
    link[nm].ifindex <= events /\ current[nm].ifindex <= events /\ attached[nm] <= events

\* ... and no two interfaces share one.
IndexesAreUnique ==
  \A m, nm \in Names : Exists(nm) /\ link[m].ifindex = link[nm].ifindex => m = nm

\* The interface being attached is still the one of the snapshot.
Unreplaced == Exists(pc.name) /\ link[pc.name].ifindex = current[pc.name].ifindex

\* What the attach in progress has reached by then.
AttachProgress ==
  /\ pc.at \in {"tc", "l2"} /\ Unreplaced => link[pc.name].ifindex \in xdp
  /\ pc.at = "l2" /\ Unreplaced => link[pc.name].ifindex \in tc

\* The initial attach and sync come before the watcher's first snapshot.
Phases ==
  IF Starting THEN pc.at \in {"attach", "xdp", "tc", "l2", "initial_sync", "baseline"}
  ELSE pc.at \notin {"initial_sync", "baseline"}

\* The safety half of RulesFollowLinks: a rule whose stored ifindex is not that
\* of the interface it names is one the watcher will still find changed when it
\* compares its snapshots, or the initial sync is still to come, unless that
\* interface changed twice before it was noticed.
LagIsVisible ==
  \A nm \in rules \ rushed :
    \/ resolved[nm] = resolve_iface(nm)
    \/ IF Starting THEN pc.at # "baseline" ELSE last[nm] # link[nm]

IInv ==
  /\ TypeOK
  /\ IndexesAreOld
  /\ IndexesAreUnique
  /\ AttachProgress
  /\ Phases
  /\ AttachedMeansFiltered
  /\ L2KnownWhileRoom
  /\ LagIsVisible

-----------------------------------------------------------------------------
(* Lemmas. *)

\* The numbers of the model, and what a snapshot may not be confused with.
LEMMA IndexFacts ==
  /\ Indexes \subseteq Nat /\ 0 \in Indexes /\ 1 \in Indexes
  /\ \A s \in LinkState : s.ifindex \in Nat /\ s.up \in BOOLEAN
  /\ \A f \in [Names -> LinkState] : f # <<>>
<1>1. Indexes \subseteq Nat /\ 0 \in Indexes /\ 1 \in Indexes
  BY WatcherAssumption DEF Indexes
<1>2. \A s \in LinkState : s.ifindex \in Nat /\ s.up \in BOOLEAN
  BY <1>1 DEF LinkState
<1>3. \A f \in [Names -> LinkState] : f # <<>>
  <2>1. DOMAIN <<>> = {}
    OBVIOUS
  <2> QED  BY <2>1, WatcherAssumption
<1> QED  BY <1>1, <1>2, <1>3

\* resolve_iface yields an ifindex or IFACE_ABSENT, and so does a whole sync.
LEMMA SyncType ==
  ASSUME TypeOK, NEW R \in SUBSET Names
  PROVE  /\ sync_rules(R) \in [Names -> Indexes \cup {IFACE_ABSENT}]
         /\ \A nm \in R : sync_rules(R)[nm] = resolve_iface(nm)
<1>1. \A nm \in Names : resolve_iface(nm) \in Indexes \cup {IFACE_ABSENT}
  BY DEF TypeOK, resolve_iface, LinkState
<1> QED
  BY <1>1 DEF sync_rules

\* Where the watcher is: the steps of an attach carry the name attached.
LEMMA PlaceFacts ==
  /\ \A a \in {"attach", "initial_sync", "baseline", "wait", "compare", "check", "sync"} :
       At(a) \in Places /\ At(a).at = a
  /\ \A a \in {"xdp", "tc", "l2"}, nm \in Names :
       /\ [at |-> a, name |-> nm] \in Places
       /\ [at |-> a, name |-> nm].at = a /\ [at |-> a, name |-> nm].name = nm
  /\ TypeOK /\ pc.at \in {"xdp", "tc", "l2"} => pc.name \in Names
BY DEF Places, At, TypeOK

\* The initial state: at most one interface, nothing attached, no snapshot.
LEMMA InitIInv == Init => IInv
<1> SUFFICES ASSUME Init PROVE IInv
  OBVIOUS
<1>1. link \in [Names -> LinkState] /\ \A nm \in Names : link[nm].ifindex \in {0, 1}
  <2> DEFINE Up == [ifindex |-> 1, up |-> TRUE]
  <2>1. Absent \in LinkState /\ Absent.ifindex = 0
    BY IndexFacts DEF Absent, LinkState
  <2>2. Up \in LinkState /\ Up.ifindex = 1
    BY IndexFacts DEF LinkState
  <2>3. link \in [Names -> {Absent, Up}]
    BY DEF Init
  <2> HIDE DEF Up
  <2> QED  BY <2>1, <2>2, <2>3
<1>2. Starting /\ pc.at = "attach" /\ pc \in Places
  BY PlaceFacts DEF Init, Starting
<1>3. TypeOK
  <2>1. IFACE_L2 \subseteq Indexes \ {0} /\ Cardinality(IFACE_L2) <= L2Max
    BY FS_EmptySet, WatcherAssumption DEF Init
  <2> QED
    BY <1>1, <1>2, <2>1, IndexFacts, WatcherAssumption DEF Init, TypeOK
<1>4. IndexesAreOld /\ IndexesAreUnique
  BY <1>1 DEF Init, IndexesAreOld, IndexesAreUnique, Exists
<1>5. AttachProgress /\ Phases /\ LagIsVisible
  BY <1>2 DEF AttachProgress, Phases, LagIsVisible
<1>6. AttachedMeansFiltered /\ L2KnownWhileRoom
  BY DEF Init, AttachedMeansFiltered, L2KnownWhileRoom, Exists
<1> QED
  BY <1>3, <1>4, <1>5, <1>6 DEF IInv

-----------------------------------------------------------------------------
(* The inductive step: link events first, since they meet every state of   *)
(* the watcher; then the watcher's own steps and the requests.             *)

\* A link event that gives the interface a state it did not have, with the
\* ifindex it had, none or a new one, preserves the inductive invariant.
LEMMA LinkEventIInv ==
  ASSUME IInv, NEW nm \in Names, NEW new \in LinkState, LinkEvent(nm, new),
         new.ifindex \in {0, link[nm].ifindex, events + 1}, new # link[nm]
  PROVE  IInv'
<1> USE DEF LinkEvent, snapshots
<1>1. /\ link' \in [Names -> LinkState] /\ link'[nm] = new
      /\ \A m \in Names \ {nm} : link'[m] = link[m]
      /\ events \in Nat /\ events' = events + 1 /\ events' \in Indexes
  BY IndexFacts, WatcherAssumption DEF IInv, TypeOK, Indexes
<1>n. \A m \in Names : /\ link[m].ifindex \in Nat /\ link'[m].ifindex \in Nat
                       /\ current[m].ifindex \in Nat /\ attached[m] \in Nat
  BY <1>1, IndexFacts DEF IInv, TypeOK
<1>2. \A m \in Names :
        /\ link[m].ifindex \in xdp /\ (m # nm \/ link'[m].ifindex = link[m].ifindex)
             /\ Exists(m) => link'[m].ifindex \in xdp'
        /\ link[m].ifindex \in tc /\ (m # nm \/ link'[m].ifindex = link[m].ifindex)
             /\ Exists(m) => link'[m].ifindex \in tc'
  BY <1>1 DEF IInv, IndexesAreUnique
<1>3. \A m \in Names : link'[m].ifindex \notin {0, events + 1}
                         => link'[m].ifindex = link[m].ifindex
  BY <1>1
<1>4. TypeOK'
  <2>1. xdp' \subseteq {link'[m].ifindex : m \in Names} \ {0}
    BY <1>1 DEF IInv, TypeOK
  <2>2. tc' \subseteq {link'[m].ifindex : m \in Names} \ {0}
    BY <1>1 DEF IInv, TypeOK
  <2> QED
    BY <1>1, <2>1, <2>2 DEF IInv, TypeOK, Starting
<1>5. IndexesAreOld'
  BY <1>1, <1>n DEF IInv, IndexesAreOld
<1>6. IndexesAreUnique'
  BY <1>1, <1>n DEF IInv, IndexesAreUnique, IndexesAreOld, Exists
<1>7. AttachProgress'
  <2> SUFFICES ASSUME pc.at \in {"tc", "l2"}, Unreplaced'
               PROVE  /\ link'[pc.name].ifindex \in xdp'
                      /\ pc.at = "l2" => link'[pc.name].ifindex \in tc'
    BY DEF AttachProgress
  <2>1. pc.name \in Names /\ pc' = pc /\ current' = current
    BY PlaceFacts DEF IInv
  <2>2. link'[pc.name].ifindex # 0 /\ link'[pc.name].ifindex = current[pc.name].ifindex
    BY <2>1 DEF Unreplaced, Exists
  <2>3. link'[pc.name].ifindex # events + 1
    BY <1>1, <1>n, <2>1, <2>2 DEF IInv, IndexesAreOld
  <2>4. link'[pc.name].ifindex = link[pc.name].ifindex
    BY <1>3, <2>1, <2>2, <2>3
  <2>5. Unreplaced
    BY <2>2, <2>4 DEF Unreplaced, Exists
  <2> QED
    BY <1>2, <2>1, <2>4, <2>5 DEF IInv, AttachProgress, Unreplaced
<1>8. ASSUME NEW m \in Names, Exists(m)', attached'[m] = link'[m].ifindex
      PROVE  link'[m].ifindex = link[m].ifindex /\ Exists(m) /\ attached[m] = link[m].ifindex
  <2>1. attached[m] = link'[m].ifindex /\ link'[m].ifindex # 0
    BY <1>8 DEF Exists
  <2>2. link'[m].ifindex # events + 1
    BY <1>1, <1>n, <2>1 DEF IInv, IndexesAreOld
  <2> QED
    BY <1>3, <2>1, <2>2 DEF Exists
<1>9. AttachedMeansFiltered'
  BY <1>2, <1>8 DEF IInv, AttachedMeansFiltered
<1>10. L2KnownWhileRoom'
  BY <1>8 DEF IInv, L2KnownWhileRoom
<1>11. Phases'
  BY DEF IInv, Phases, Starting
<1>12. LagIsVisible'
  <2> SUFFICES ASSUME NEW m \in rules \ rushed'
               PROVE  \/ resolved[m] = resolve_iface(m)'
                      \/ IF Starting THEN pc.at # "baseline" ELSE last[m] # link'[m]
    BY DEF LagIsVisible, Starting
  <2>1. m \in Names /\ m \notin rushed
    BY DEF IInv, TypeOK
  <2>2. CASE m = nm
    <3>1. Noticed(nm)
      BY <2>2 DEF IInv, TypeOK
    <3> QED  BY <1>1, <2>2, <3>1 DEF Noticed
  <2>3. CASE m # nm
    <3>1. resolve_iface(m)' = resolve_iface(m)
      BY <1>1, <2>1, <2>3 DEF resolve_iface
    <3> QED  BY <1>1, <2>1, <2>3, <3>1 DEF IInv, LagIsVisible
  <2> QED  BY <2>2, <2>3
<1> QED
  BY <1>4, <1>5, <1>6, <1>7, <1>9, <1>10, <1>11, <1>12 DEF IInv

\* An interface created, deleted or flipped.
LEMMA LinksIInv ==
  ASSUME IInv, NEW nm \in Names, Create(nm) \/ Delete(nm) \/ Flip(nm)
  PROVE  IInv'
<1>n. /\ link[nm] \in LinkState /\ link[nm].ifindex \in Nat /\ events \in Nat
      /\ link[nm].ifindex <= events
  BY IndexFacts DEF IInv, TypeOK, IndexesAreOld
<1>1. ASSUME NEW u \in BOOLEAN, LinkEvent(nm, [ifindex |-> events + 1, up |-> u])
      PROVE  IInv'
  <2> DEFINE new == [ifindex |-> events + 1, up |-> u]
  <2>1. events + 1 \in Indexes
    BY <1>1, <1>n, WatcherAssumption DEF LinkEvent, Indexes
  <2>2. new \in LinkState /\ new.ifindex = events + 1 /\ new # link[nm]
    BY <1>n, <2>1 DEF LinkState
  <2> HIDE DEF new
  <2>3. LinkEvent(nm, new)
    BY <1>1 DEF new
  <2> QED  BY <2>2, <2>3, LinkEventIInv
<1>2. CASE Delete(nm)
  <2>1. Absent \in LinkState /\ Absent.ifindex = 0 /\ Absent # link[nm]
    BY <1>2, IndexFacts DEF Delete, Exists, Absent, LinkState
  <2> QED  BY <1>2, <2>1, LinkEventIInv DEF Delete
<1>3. CASE Flip(nm)
  <2> DEFINE new == [link[nm] EXCEPT !.up = ~@]
  <2>1. new \in LinkState /\ new.ifindex = link[nm].ifindex /\ new.up # link[nm].up
    BY <1>n DEF LinkState
  <2>2. new # link[nm]
    BY <2>1
  <2> HIDE DEF new
  <2>3. LinkEvent(nm, new)
    BY <1>3 DEF Flip, new
  <2> QED  BY <2>1, <2>2, <2>3, LinkEventIInv
<1> QED
  BY <1>1, <1>2, <1>3 DEF Create

\* A step that touches neither the links, the programs, the record of what is
\* attached nor the current snapshot keeps what is said about indexes, also if
\* events counts on.
LEMMA LinksUntouched ==
  ASSUME IInv, UNCHANGED <<link, kernel, attached, current>>, events' \in {events, events + 1}
  PROVE  /\ IndexesAreOld' /\ IndexesAreUnique'
         /\ AttachedMeansFiltered' /\ L2KnownWhileRoom'
         /\ pc'.at \notin {"tc", "l2"} => AttachProgress'
<1>1. IndexesAreOld'
  <2>1. /\ \A nm \in Names : attached[nm] \in Nat /\ link[nm].ifindex \in Nat /\ current[nm].ifindex \in Nat
        /\ events \in Nat
    BY IndexFacts DEF IInv, TypeOK
  <2> QED
    BY <2>1 DEF IInv, IndexesAreOld
<1> QED
  BY <1>1 DEF IInv, kernel, IndexesAreUnique, AttachedMeansFiltered, L2KnownWhileRoom,
     AttachProgress, Exists

\* The steps of attach_to_iface preserve the inductive invariant.
LEMMA AttachIInv ==
  ASSUME IInv, \/ Pick \/ AttachXdp \/ AttachXdpFails
               \/ AttachTc \/ AttachTcFails \/ SetL2 \/ AttachDone
  PROVE  IInv'
<1> USE DEF kernel, snapshots
<1>a. /\ \A a \in {"attach", "initial_sync", "compare"} : At(a) \in Places /\ At(a).at = a
      /\ pc.at \in {"xdp", "tc", "l2"} => pc.name \in Names
      /\ \A a \in {"xdp", "tc", "l2"}, nm \in Names :
           /\ [at |-> a, name |-> nm] \in Places
           /\ [at |-> a, name |-> nm].at = a /\ [at |-> a, name |-> nm].name = nm
  BY PlaceFacts DEF IInv
<1>l. ASSUME UNCHANGED <<link, rules, resolved, last, rushed>>,
             pc.at \in {"attach", "xdp", "tc", "l2"},
             \/ pc'.at \in {"attach", "xdp", "tc", "l2"}
             \/ pc'.at = IF Starting THEN "initial_sync" ELSE "compare"
      PROVE  Phases' /\ LagIsVisible'
  BY <1>l DEF IInv, Phases, LagIsVisible, Starting, resolve_iface
<1>1. CASE Pick
  <2>1. PICK nm \in todo : pc' = [at |-> "xdp", name |-> nm] /\ todo' = todo \ {nm}
    BY <1>1 DEF Pick
  <2>2. pc' \in Places /\ pc'.at = "xdp"
    BY <2>1, <1>a DEF IInv, TypeOK
  <2>3. TypeOK'
    BY <1>1, <2>1, <2>2 DEF Pick, IInv, TypeOK, Starting
  <2> QED
    BY <1>1, <1>l, <2>2, <2>3, LinksUntouched DEF Pick, IInv
<1>2. CASE AttachXdp
  <2>1. /\ pc.at = "xdp" /\ pc.name \in Names
        /\ UNCHANGED <<link, events, tc, IFACE_L2, rules, resolved, attached,
                       snapshots, todo, rushed>>
    BY <1>2, <1>a DEF AttachXdp
  <2>2. CASE attach_xdp_with_fallback(pc.name)
    <3>1. /\ xdp' = xdp \cup {link[pc.name].ifindex} /\ Exists(pc.name)
          /\ pc' = [at |-> "tc", name |-> pc.name]
      BY <1>2, <2>2 DEF AttachXdp, attach_xdp_with_fallback, iface_ifindex, Attaching
    <3>2. pc' \in Places /\ pc'.at = "tc" /\ pc'.name = pc.name
      BY <2>1, <3>1, <1>a
    <3>3. TypeOK'
      BY <2>1, <3>1, <3>2 DEF IInv, TypeOK, Starting, Exists
    <3>4. IndexesAreOld' /\ IndexesAreUnique' /\ L2KnownWhileRoom'
      BY <2>1 DEF IInv, IndexesAreOld, IndexesAreUnique, L2KnownWhileRoom, Exists
    <3>5. AttachProgress' /\ AttachedMeansFiltered'
      BY <2>1, <3>1, <3>2 DEF IInv, AttachProgress, AttachedMeansFiltered, Unreplaced, Exists
    <3> QED
      BY <1>l, <2>1, <3>2, <3>3, <3>4, <3>5 DEF IInv
  <2>3. CASE ~attach_xdp_with_fallback(pc.name)
    <3>1. xdp' = xdp /\ pc' \in Places /\ pc'.at = "attach"
      BY <1>2, <2>3, <1>a DEF AttachXdp
    <3>2. TypeOK'
      BY <2>1, <3>1 DEF IInv, TypeOK, Starting
    <3> QED
      BY <1>l, <2>1, <3>1, <3>2, LinksUntouched DEF IInv
  <2> QED  BY <2>2, <2>3
<1>3. CASE AttachTc
  <2>1. /\ pc.at = "tc" /\ pc.name \in Names
        /\ UNCHANGED <<link, events, xdp, IFACE_L2, rules, resolved, attached,
                       snapshots, todo, rushed>>
    BY <1>3, <1>a DEF AttachTc
  <2>2. CASE Exists(pc.name)
    <3>1. /\ tc' = tc \cup {link[pc.name].ifindex}
          /\ pc' = [at |-> "l2", name |-> pc.name]
      BY <1>3, <2>2 DEF AttachTc, iface_ifindex, Attaching
    <3>2. pc' \in Places /\ pc'.at = "l2" /\ pc'.name = pc.name
      BY <2>1, <3>1, <1>a
    <3>3. TypeOK'
      BY <2>1, <2>2, <3>1, <3>2 DEF IInv, TypeOK, Starting, Exists
    <3>4. IndexesAreOld' /\ IndexesAreUnique' /\ L2KnownWhileRoom'
      BY <2>1 DEF IInv, IndexesAreOld, IndexesAreUnique, L2KnownWhileRoom, Exists
    <3>5. AttachProgress' /\ AttachedMeansFiltered'
      BY <2>1, <3>1, <3>2 DEF IInv, AttachProgress, AttachedMeansFiltered, Unreplaced, Exists
    <3> QED
      BY <1>l, <2>1, <3>2, <3>3, <3>4, <3>5 DEF IInv
  <2>3. CASE ~Exists(pc.name)
    <3>1. tc' = tc /\ pc' \in Places /\ pc'.at = "attach"
      BY <1>3, <2>3, <1>a DEF AttachTc
    <3>2. TypeOK'
      BY <2>1, <3>1 DEF IInv, TypeOK, Starting
    <3> QED
      BY <1>l, <2>1, <3>1, <3>2, LinksUntouched DEF IInv
  <2> QED  BY <2>2, <2>3
<1>4. CASE AttachTcFails
  <2>1. pc' \in Places /\ pc'.at = "attach"
    BY <1>4, <1>a DEF AttachTcFails
  <2>2. TypeOK'
    BY <1>4, <2>1 DEF AttachTcFails, IInv, TypeOK, Starting
  <2> QED
    BY <1>4, <1>l, <2>1, <2>2, LinksUntouched DEF AttachTcFails, IInv
<1>5. CASE SetL2
  <2> DEFINE nm == pc.name
  <2>1. /\ pc.at = "l2" /\ nm \in Names /\ pc' \in Places /\ pc'.at = "attach"
        /\ attached' = [attached EXCEPT ![nm] = current[nm].ifindex]
        /\ UNCHANGED <<link, events, xdp, tc, rules, resolved, snapshots, todo, rushed>>
    BY <1>5, <1>a DEF SetL2
  <2>2. IFACE_L2' = IF Exists(nm) /\ Cardinality(IFACE_L2) < L2Max
                    THEN IFACE_L2 \cup {link[nm].ifindex} ELSE IFACE_L2
    BY <1>5 DEF SetL2, iface_ifindex
  <2>3. current[nm].ifindex \in Indexes /\ link[nm].ifindex \in Indexes
    BY <2>1 DEF IInv, TypeOK, LinkState
  <2>4. IsFiniteSet(IFACE_L2) /\ Cardinality(IFACE_L2) \in Nat /\ L2Max \in Nat
        /\ Cardinality(IFACE_L2) <= L2Max
    <3>1. IsFiniteSet(Indexes)
      BY FS_Interval, WatcherAssumption DEF Indexes
    <3>2. IFACE_L2 \in SUBSET Indexes /\ Cardinality(IFACE_L2) <= L2Max
      BY DEF IInv, TypeOK
    <3>3. IsFiniteSet(IFACE_L2)
      BY <3>1, <3>2, FS_Subset
    <3> QED  BY <3>2, <3>3, FS_CardinalityType, WatcherAssumption
  <2>5. IFACE_L2' \subseteq Indexes \ {0} /\ Cardinality(IFACE_L2') <= L2Max
    <3>1. CASE Exists(nm) /\ Cardinality(IFACE_L2) < L2Max
      <4>1. Cardinality(IFACE_L2') <= Cardinality(IFACE_L2) + 1
        <5> DEFINE x == link[nm].ifindex
        <5>1. Cardinality(IFACE_L2 \cup {x})
                = IF x \in IFACE_L2 THEN Cardinality(IFACE_L2) ELSE Cardinality(IFACE_L2) + 1
          BY <2>4, FS_AddElement
        <5> QED  BY <2>2, <2>4, <3>1, <5>1
      <4>2. IFACE_L2' \subseteq Indexes \ {0}
        BY <2>2, <2>3, <3>1 DEF Exists, IInv, TypeOK
      <4>3. Cardinality(IFACE_L2') \in Nat
        BY <2>2, <2>4, <3>1, FS_AddElement, FS_CardinalityType
      <4> QED  BY <2>4, <3>1, <4>1, <4>2, <4>3
    <3>2. CASE ~(Exists(nm) /\ Cardinality(IFACE_L2) < L2Max)
      BY <2>2, <3>2 DEF IInv, TypeOK
    <3> QED  BY <3>1, <3>2
  <2>6. TypeOK'
    BY <2>1, <2>3, <2>5 DEF IInv, TypeOK, Starting
  <2>7. IndexesAreOld' /\ IndexesAreUnique' /\ AttachProgress'
    BY <2>1 DEF IInv, TypeOK, IndexesAreOld, IndexesAreUnique, AttachProgress, Exists
  <2>8. \A m \in Names : Exists(m) /\ attached'[m] = link[m].ifindex =>
          attached[m] = link[m].ifindex \/ (m = nm /\ Unreplaced)
    BY <2>1 DEF IInv, TypeOK, Unreplaced, Exists
  <2>9. AttachedMeansFiltered'
    <3> SUFFICES ASSUME NEW m \in Names, Exists(m), attached'[m] = link[m].ifindex
                 PROVE  link[m].ifindex \in xdp /\ link[m].ifindex \in tc
      BY <2>1 DEF AttachedMeansFiltered, Exists
    <3> QED
      BY <2>1, <2>8 DEF IInv, AttachProgress, AttachedMeansFiltered
  <2>10. L2KnownWhileRoom'
    <3> SUFFICES ASSUME NEW m \in Names, Exists(m), attached'[m] = link[m].ifindex
                 PROVE  link[m].ifindex \in IFACE_L2' \/ Cardinality(IFACE_L2') = L2Max
      BY <2>1 DEF L2KnownWhileRoom, Exists
    <3> QED
      BY <2>2, <2>4, <2>8 DEF IInv, L2KnownWhileRoom, Exists
  <2> QED
    BY <1>l, <2>1, <2>6, <2>7, <2>9, <2>10 DEF IInv
<1>6. CASE AttachDone
  <2>1. pc' \in Places /\ pc'.at = IF Starting THEN "initial_sync" ELSE "compare"
    BY <1>6, <1>a DEF AttachDone
  <2>2. TypeOK'
    BY <1>6, <2>1 DEF AttachDone, IInv, TypeOK, Starting
  <2> QED
    BY <1>6, <1>l, <2>1, <2>2, LinksUntouched DEF AttachDone, IInv
<1>7. CASE AttachXdpFails
  <2>1. pc' \in Places /\ pc'.at = "attach"
    BY <1>7, <1>a DEF AttachXdpFails
  <2>2. events' \in Indexes /\ events' = events + 1
    BY <1>7, WatcherAssumption DEF AttachXdpFails, Indexes, IInv, TypeOK
  <2>3. TypeOK'
    BY <1>7, <2>1, <2>2 DEF AttachXdpFails, IInv, TypeOK, Starting
  <2> QED
    BY <1>7, <1>l, <2>1, <2>2, <2>3, LinksUntouched DEF AttachXdpFails, IInv
<1> QED
  BY <1>1, <1>2, <1>3, <1>4, <1>5, <1>6, <1>7

\* The initial sync, the watcher's loop and the requests preserve it too.
LEMMA LoopIInv ==
  ASSUME IInv, InitialSync \/ Baseline \/ Poll \/ Compare \/ Check \/ Sync \/ ChangeRules
  PROVE  IInv'
<1> USE DEF kernel, snapshots
<1>a. \A a \in {"attach", "initial_sync", "baseline", "wait", "compare", "check", "sync"} :
        At(a) \in Places /\ At(a).at = a
  BY PlaceFacts
<1>b. link \in [Names -> LinkState] /\ link # <<>> /\ current # <<>> /\ rules \in SUBSET Names
  BY IndexFacts DEF IInv, TypeOK
<1>1. CASE InitialSync
  <2>1. pc' \in Places /\ pc'.at = "baseline" /\ Starting
    BY <1>1, <1>a DEF InitialSync, IInv, Phases
  <2>2. TypeOK'
    BY <1>1, <1>b, <2>1, SyncType DEF InitialSync, IInv, TypeOK, Starting
  <2>3. Phases' /\ LagIsVisible'
    BY <1>1, <1>b, <2>1, SyncType
    DEF InitialSync, IInv, Phases, LagIsVisible, Starting, resolve_iface
  <2> QED
    BY <1>1, <2>1, <2>2, <2>3, LinksUntouched DEF InitialSync, IInv
<1>2. CASE Baseline
  <2>1. pc' \in Places /\ pc'.at = "wait" /\ pc.at = "baseline" /\ Starting
    BY <1>2, <1>a DEF Baseline, IInv, Phases
  <2>2. last' = link /\ current' = link
    BY <1>2 DEF Baseline, iface_snapshot
  <2>3. TypeOK'
    BY <1>2, <1>b, <2>1, <2>2 DEF Baseline, IInv, TypeOK, Starting
  <2>4. Phases'
    BY <1>b, <2>1, <2>2 DEF Phases, Starting
  <2>5. LagIsVisible'
    BY <1>2, <2>1 DEF Baseline, IInv, LagIsVisible, resolve_iface
  <2>6. IndexesAreOld' /\ IndexesAreUnique' /\ AttachedMeansFiltered' /\ L2KnownWhileRoom'
        /\ AttachProgress'
    BY <1>2, <2>1, <2>2 DEF Baseline, IInv, IndexesAreOld, IndexesAreUnique,
       AttachedMeansFiltered, L2KnownWhileRoom, AttachProgress, Exists
  <2> QED
    BY <2>3, <2>4, <2>5, <2>6 DEF IInv
<1>3. CASE Poll
  <2>1. pc' \in Places /\ pc'.at = "attach" /\ pc.at = "wait" /\ ~Starting
    BY <1>3, <1>a DEF Poll, IInv, Phases
  <2>2. current' = link /\ todo' \subseteq Names
    BY <1>3 DEF Poll, iface_snapshot, ToAttach
  <2>3. TypeOK'
    BY <1>3, <1>b, <2>1, <2>2 DEF Poll, IInv, TypeOK, Starting
  <2>4. Phases' /\ LagIsVisible'
    BY <1>3, <2>1 DEF Poll, IInv, Phases, LagIsVisible, Starting, resolve_iface
  <2>6. IndexesAreOld' /\ IndexesAreUnique' /\ AttachedMeansFiltered' /\ L2KnownWhileRoom'
        /\ AttachProgress'
    BY <1>3, <2>1, <2>2 DEF Poll, IInv, IndexesAreOld, IndexesAreUnique,
       AttachedMeansFiltered, L2KnownWhileRoom, AttachProgress, Exists
  <2> QED
    BY <2>3, <2>4, <2>6 DEF IInv
<1>4. CASE Compare
  <2>1. pc' \in Places /\ pc'.at \in {"wait", "check"} /\ ~Starting
    BY <1>4, <1>a DEF Compare, IInv, Phases
  <2>2. TypeOK'
    BY <1>4, <2>1 DEF Compare, IInv, TypeOK, Starting
  <2>3. Phases' /\ LagIsVisible'
    BY <1>4, <2>1 DEF Compare, IInv, Phases, LagIsVisible, Starting, resolve_iface
  <2> QED
    BY <1>4, <2>1, <2>2, <2>3, LinksUntouched DEF Compare, IInv
<1>5. CASE Check
  <2>1. pc' \in Places /\ pc'.at \in {"wait", "sync"} /\ ~Starting
    BY <1>5, <1>a DEF Check, IInv, Phases
  <2>2. last' \in {last, current} /\ \A nm \in rules : last'[nm] = last[nm]
    BY <1>5, <1>b DEF Check, Changed
  <2>3. TypeOK'
    BY <1>5, <2>1, <2>2 DEF Check, IInv, TypeOK, Starting
  <2>4. Phases'
    BY <1>b, <2>1, <2>2 DEF Phases, Starting
  <2>5. LagIsVisible'
    BY <1>5, <1>b, <2>1, <2>2 DEF Check, IInv, LagIsVisible, Starting, resolve_iface
  <2> QED
    BY <1>5, <2>1, <2>3, <2>4, <2>5, LinksUntouched DEF Check, IInv
<1>6. CASE Sync
  <2>1. pc' \in Places /\ pc'.at = "wait" /\ ~Starting
    BY <1>6, <1>a DEF Sync, IInv, Phases
  <2>2. TypeOK'
    BY <1>6, <1>b, <2>1, SyncType DEF Sync, IInv, TypeOK, Starting
  <2>3. Phases' /\ LagIsVisible'
    BY <1>6, <1>b, <2>1, SyncType
    DEF Sync, IInv, Phases, LagIsVisible, Starting, resolve_iface
  <2> QED
    BY <1>6, <2>1, <2>2, <2>3, LinksUntouched DEF Sync, IInv
<1>7. CASE ChangeRules
  <2>1. PICK R \in SUBSET Names : rules' = R /\ resolved' = sync_rules(R)
    BY <1>7 DEF ChangeRules
  <2>2. TypeOK'
    BY <1>7, <2>1, SyncType DEF ChangeRules, IInv, TypeOK, Starting
  <2>3. Phases' /\ LagIsVisible'
    BY <1>7, <2>1, SyncType
    DEF ChangeRules, IInv, Phases, LagIsVisible, Starting, resolve_iface
  <2>4. AttachProgress'
    BY <1>7 DEF ChangeRules, IInv, AttachProgress, Unreplaced, Exists
  <2> QED
    BY <1>7, <2>2, <2>3, <2>4, LinksUntouched DEF ChangeRules, IInv
<1> QED
  BY <1>1, <1>2, <1>3, <1>4, <1>5, <1>6, <1>7

\* Every step of the watcher, a request or a link preserves the invariant.
LEMMA NextIInv == IInv /\ [Next]_vars => IInv'
<1> SUFFICES ASSUME IInv, [Next]_vars PROVE IInv'
  OBVIOUS
<1>1. CASE UNCHANGED vars
  BY <1>1 DEF vars, kernel, snapshots, IInv, TypeOK, IndexesAreOld, IndexesAreUnique,
     AttachProgress, Unreplaced, Phases, AttachedMeansFiltered, L2KnownWhileRoom,
     LagIsVisible, Starting, Exists, resolve_iface
<1> QED
  BY <1>1, LinksIInv, AttachIInv, LoopIInv DEF Next, Watcher

-----------------------------------------------------------------------------
(* The theorems. *)

\* The inductive invariant holds in every state the system can reach.
THEOREM Invariance == Spec => []IInv
BY InitIInv, NextIInv, PTL DEF Spec

\* The programs are attached to interfaces that exist, and IFACE_L2 never
\* overflows, whatever links do in the middle of attach_to_iface.
THEOREM TypeCorrect == Spec => []TypeOK
<1>1. IInv => TypeOK
  BY DEF IInv
<1> QED  BY <1>1, Invariance, PTL

\* attach_to_iface: an interface recorded under its present ifindex has both
\* programs, although the attach went by name and its record by the snapshot.
THEOREM AttachedIsFiltered == Spec => []AttachedMeansFiltered
<1>1. IInv => AttachedMeansFiltered
  BY DEF IInv
<1> QED  BY <1>1, Invariance, PTL

\* set_iface_l2: as long as the map has room, the L2 header length of every
\* interface recorded as attached is known, for every capacity of the map.
THEOREM L2Known == Spec => []L2KnownWhileRoom
<1>1. IInv => L2KnownWhileRoom
  BY DEF IInv
<1> QED  BY <1>1, Invariance, PTL

\* watch_interfaces: a rule lags behind its interface only while the next
\* comparison of snapshots will notice, the initial sync is still to come, or
\* the interface changed twice before the watcher looked.
THEOREM LagGetsNoticed == Spec => []LagIsVisible
<1>1. IInv => LagIsVisible
  BY DEF IInv
<1> QED  BY <1>1, Invariance, PTL
=============================================================================
