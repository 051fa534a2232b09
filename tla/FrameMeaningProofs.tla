-------------------------- MODULE FrameMeaningProofs -------------------------
(***************************************************************************)
(* Proofs about what the data path takes a frame for, for every frame, any *)
(* number of extension headers and any bounds on their walk.               *)
(*                                                                         *)
(* walk_v6_ext is a loop, so these proofs go by induction on its passes.   *)
(* The library's induction theorems are about operators, which the provers *)
(* cannot instantiate; the ones below are about sets and functions.        *)
(***************************************************************************)
EXTENDS RuleMeaning, FiniteSetTheorems, WellFoundedInduction, TLAPS

-----------------------------------------------------------------------------
(* Induction over the naturals. *)

\* A set with 0 and with the successor of each of its numbers has them all:
\* otherwise, among the intervals that end at a missing number, one contains no
\* other.
LEMMA SetInduction ==
  ASSUME NEW S, 0 \in S, \A i \in Nat : i \in S => i + 1 \in S
  PROVE  \A i \in Nat : i \in S
<1> SUFFICES ASSUME NEW m \in Nat, m \notin S PROVE FALSE
  OBVIOUS
<1> DEFINE missing == Nat \ S
           T == {1..k : k \in missing}
           R == StrictSubsetOrdering(Nat)
<1>1. T \subseteq FiniteSubsetsOf(Nat)
  <2> SUFFICES ASSUME NEW k \in missing PROVE 1..k \in FiniteSubsetsOf(Nat)
    OBVIOUS
  <2>1. IsFiniteSet(1..k)
    BY FS_Interval
  <2> QED
    BY <2>1 DEF FiniteSubsetsOf
<1>2. IsWellFoundedOn(R, FiniteSubsetsOf(Nat))
  BY FS_StrictSubsetOrderingWellFounded
<1>3. T # {}
  OBVIOUS
<1>4. PICK x \in T : \A y \in T : ~ (<<y, x>> \in R)
  <2> HIDE DEF T, R
  <2> QED
    BY <1>1, <1>2, <1>3, WFMin
<1>5. PICK k \in missing : x = 1..k
  BY <1>4
<1>6. k - 1 \in missing
  OBVIOUS
<1>7. 1..(k - 1) \subseteq 1..k /\ 1..(k - 1) # 1..k
  BY <1>6
<1>8. <<1..(k - 1), 1..k>> \in R
  BY <1>7 DEF StrictSubsetOrdering
<1> QED
  BY <1>4, <1>5, <1>6, <1>8

\* The n first steps from start; a step may depend on its number.
Steps(S) == [Nat \X S -> S]
Orbit(g, S, start, step, n) ==
  /\ g \in [0..n -> S]
  /\ g[0] = start
  /\ \A i \in 1..n : g[i] = step[<<i, g[i - 1]>>]

\* They can be taken: a function that is defined on an interval by the value
\* before exists.
LEMMA Iteration ==
  ASSUME NEW S, NEW start, start \in S, NEW step, step \in Steps(S), NEW n \in Nat
  PROVE  \E g : Orbit(g, S, start, step, n)
<1> DEFINE D == {m \in Nat : \E g : Orbit(g, S, start, step, m)}
<1>1. 0 \in D
  <2>1. Orbit([i \in 0..0 |-> start], S, start, step, 0)
    BY DEF Orbit
  <2> QED
    BY <2>1
<1>2. ASSUME NEW m \in Nat, m \in D PROVE m + 1 \in D
  <2>1. PICK g : Orbit(g, S, start, step, m)
    BY <1>2
  <2> DEFINE h == [i \in 0..(m + 1) |-> IF i = m + 1 THEN step[<<i, g[m]>>] ELSE g[i]]
  <2>2. step[<<m + 1, g[m]>>] \in S
    BY <2>1 DEF Orbit, Steps
  <2>3. h \in [0..(m + 1) -> S]
    BY <2>1, <2>2 DEF Orbit
  <2>4. h[0] = start /\ \A i \in 1..(m + 1) : h[i] = step[<<i, h[i - 1]>>]
    BY <2>1 DEF Orbit
  <2>5. Orbit(h, S, start, step, m + 1)
    BY <2>3, <2>4 DEF Orbit
  <2> HIDE DEF h
  <2> QED
    BY <2>5
<1>3. \A m \in Nat : m \in D
  <2> HIDE DEF D
  <2> QED
    BY <1>1, <1>2, SetInduction
<1> QED
  BY <1>3

-----------------------------------------------------------------------------
(* The loop of walk_v6_ext. *)

WalkStates == [res : {"go", "err", "l4", "fragment"}, off : Nat, seen : Nat]
WalkStart == [res |-> "go", off |-> 0, seen |-> 0]

\* The fields of a frame that the walk uses.
LEMMA FrameFields ==
  ASSUME NEW f \in FrameType
  PROVE  /\ f.exts \in Seq(Nat \cup {-1}) /\ Len(f.exts) \in Nat
         /\ \A k \in 1..Len(f.exts) : f.exts[k] \in Nat \cup {-1}
         /\ f.cut \in Nat /\ f.tags \in Nat /\ f.net \in {"v4", "v6", "arp"}
  BY DEF FrameType

\* A pass leads from a state of the walk to a state of the walk.
LEMMA WalkStepType ==
  ASSUME NEW f \in FrameType, NEW w \in WalkStates
  PROVE  WalkStep(f, w) \in WalkStates
<1>1. w.seen + 1 <= Len(f.exts) => f.exts[w.seen + 1] \in Nat \cup {-1}
  BY FrameFields DEF WalkStates
<1>2. \A r \in {"go", "err", "l4", "fragment"} : [w EXCEPT !.res = r] \in WalkStates
  BY DEF WalkStates
<1>3. w.seen \in Nat /\ w.off \in Nat /\ Len(f.exts) \in Nat
  BY FrameFields DEF WalkStates
<1> DEFINE ext == f.exts[w.seen + 1]
<1>4. w.seen + 1 <= Len(f.exts) /\ ext # -1 => w.off + ExtLength(ext) \in Nat
  BY <1>1, <1>3 DEF ExtLength
<1>5. w.seen + 1 <= Len(f.exts) /\ ext # -1
        => [res |-> "go", off |-> w.off + ExtLength(ext), seen |-> w.seen + 1] \in WalkStates
  BY <1>3, <1>4 DEF WalkStates
<1>6. [res |-> "fragment", off |-> w.off, seen |-> w.seen + 1] \in WalkStates
  BY <1>3 DEF WalkStates
<1> QED
  BY <1>2, <1>3, <1>5, <1>6 DEF WalkStep

\* The passes are what their definition says, and states of the walk.
LEMMA PassesDef ==
  ASSUME NEW f \in FrameType
  PROVE  /\ \A i \in 0..MAX_V6_EXT_HDRS : Passes(f)[i] \in WalkStates
         /\ Passes(f)[0] = WalkStart
         /\ \A i \in 1..MAX_V6_EXT_HDRS : Passes(f)[i] = WalkStep(f, Passes(f)[i - 1])
<1> DEFINE N == MAX_V6_EXT_HDRS
           P(g) == g = [i \in 0..N |-> IF i = 0 THEN WalkStart ELSE WalkStep(f, g[i - 1])]
           step == [x \in Nat \X WalkStates |-> WalkStep(f, x[2])]
<1>1. N \in Nat
  BY MatchingAssumption
<1>2. step \in Steps(WalkStates)
  BY WalkStepType DEF Steps
<1>3. WalkStart \in WalkStates
  BY DEF WalkStart, WalkStates
<1>4. PICK g : Orbit(g, WalkStates, WalkStart, step, N)
  <2> HIDE DEF step, N
  <2> QED
    BY <1>1, <1>2, <1>3, Iteration
<1>5. g \in [0..N -> WalkStates] /\ g[0] = WalkStart
  BY <1>4 DEF Orbit
<1>6. \A i \in 1..N : g[i] = WalkStep(f, g[i - 1])
  <2> SUFFICES ASSUME NEW i \in 1..N PROVE g[i] = WalkStep(f, g[i - 1])
    OBVIOUS
  <2>1. g[i] = step[<<i, g[i - 1]>>]
    BY <1>4 DEF Orbit
  <2>2. <<i, g[i - 1]>> \in Nat \X WalkStates
    BY <1>1, <1>5
  <2> QED
    BY <2>1, <2>2
<1>61. \E h : P(h)
  <2> HIDE DEF step, N
  <2> QED
    BY <1>1, <1>5, <1>6
<1>7. Passes(f) = CHOOSE h : P(h)
  BY DEF Passes, WalkStart
<1>8. P(Passes(f))
  <2> HIDE DEF P
  <2> QED
    BY <1>61, <1>7
<1>9. \A i \in 1..N : Passes(f)[i] = WalkStep(f, Passes(f)[i - 1])
  BY <1>1, <1>8
<1>10. Passes(f)[0] = WalkStart
  BY <1>1, <1>8
<1> DEFINE D == {i \in Nat : i <= N => Passes(f)[i] \in WalkStates}
<1>11. 0 \in D
  BY <1>3, <1>10
<1>12. ASSUME NEW i \in Nat, i \in D PROVE i + 1 \in D
  BY <1>9, <1>12, <1>1, WalkStepType
<1>13. \A i \in Nat : i \in D
  <2> HIDE DEF D
  <2> QED
    BY <1>11, <1>12, SetInduction
<1> QED
  BY <1>1, <1>9, <1>10, <1>13

\* The byte counts are what their definition says.
LEMMA ExtBytesDef ==
  ASSUME NEW f \in FrameType
  PROVE  /\ \A n \in 0..Len(f.exts) : ExtBytes(f)[n] \in Int
         /\ ExtBytes(f)[0] = 0
         /\ \A n \in 1..Len(f.exts) :
              ExtBytes(f)[n] = ExtBytes(f)[n - 1] + ExtLength(f.exts[n])
<1> DEFINE N == Len(f.exts)
           P(g) == g = [n \in 0..N |-> IF n = 0 THEN 0 ELSE g[n - 1] + ExtLength(f.exts[n])]
           step == [x \in Nat \X Int |->
                      IF x[1] \in 1..N THEN x[2] + ExtLength(f.exts[x[1]]) ELSE 0]
<1>1. N \in Nat /\ \A n \in 1..N : ExtLength(f.exts[n]) \in Int
  BY FrameFields DEF ExtLength
<1>2. step \in Steps(Int)
  BY <1>1 DEF Steps
<1>4. PICK g : Orbit(g, Int, 0, step, N)
  <2> HIDE DEF step, N
  <2> QED
    BY <1>1, <1>2, Iteration
<1>5. g \in [0..N -> Int] /\ g[0] = 0
  BY <1>4 DEF Orbit
<1>6. \A n \in 1..N : g[n] = g[n - 1] + ExtLength(f.exts[n])
  <2> SUFFICES ASSUME NEW n \in 1..N PROVE g[n] = g[n - 1] + ExtLength(f.exts[n])
    OBVIOUS
  <2>1. g[n] = step[<<n, g[n - 1]>>]
    BY <1>4 DEF Orbit
  <2>2. <<n, g[n - 1]>> \in Nat \X Int
    <3>1. n \in Nat /\ n - 1 \in 0..N
      BY <1>1
    <3> HIDE DEF N
    <3>2. g[n - 1] \in Int
      BY <1>5, <3>1
    <3> QED
      BY <3>1, <3>2
  <2> QED
    BY <2>1, <2>2
<1>7. \E h : P(h)
  <2> HIDE DEF step, N
  <2> QED
    BY <1>1, <1>5, <1>6
<1>8. ExtBytes(f) = CHOOSE h : P(h)
  BY DEF ExtBytes
<1>9. P(ExtBytes(f))
  <2> HIDE DEF P
  <2> QED
    BY <1>7, <1>8
<1>10. ExtBytes(f)[0] = 0
  BY <1>1, <1>9
<1>11. \A n \in 1..N : ExtBytes(f)[n] = ExtBytes(f)[n - 1] + ExtLength(f.exts[n])
  BY <1>1, <1>9
<1> DEFINE D == {n \in Nat : n <= N => ExtBytes(f)[n] \in Int}
<1>12. 0 \in D
  BY <1>10
<1>13. ASSUME NEW n \in Nat, n \in D PROVE n + 1 \in D
  BY <1>1, <1>11, <1>13
<1>14. \A n \in Nat : n \in D
  <2> HIDE DEF D
  <2> QED
    BY <1>12, <1>13, SetInduction
<1> QED
  BY <1>1, <1>10, <1>11, <1>14

\* The first n headers do not end the chain.
NoFragment(f, n) == \A k \in 1..n : f.exts[k] # -1

\* Up to the end of the chain the byte count does not fall.
LEMMA BytesGrow ==
  ASSUME NEW f \in FrameType, NEW n \in 0..Len(f.exts), NoFragment(f, n), NEW m \in 0..n
  PROVE  ExtBytes(f)[m] <= ExtBytes(f)[n]
<1> DEFINE b == ExtBytes(f)
           D == {i \in Nat : m <= i /\ i <= n => b[m] <= b[i]}
<1>1. n \in Nat /\ m \in Nat /\ n <= Len(f.exts) /\ Len(f.exts) \in Nat
  BY FrameFields
<1>2. \A i \in 0..n : b[i] \in Int
  BY <1>1, ExtBytesDef
<1>3. \A i \in 1..n : b[i] >= b[i - 1]
  <2> SUFFICES ASSUME NEW i \in 1..n PROVE b[i] >= b[i - 1]
    OBVIOUS
  <2>1. b[i] = b[i - 1] + ExtLength(f.exts[i])
    BY <1>1, ExtBytesDef
  <2>2. f.exts[i] \in Nat
    BY <1>1, FrameFields DEF NoFragment
  <2>3. ExtLength(f.exts[i]) \in Nat
    BY <2>2 DEF ExtLength
  <2>4. b[i - 1] \in Int
    BY <1>1, <1>2
  <2> HIDE DEF b
  <2> QED
    BY <2>1, <2>3, <2>4
<1> HIDE DEF b
<1>4. 0 \in D
  BY <1>1, <1>2
<1>5. ASSUME NEW i \in Nat, i \in D PROVE i + 1 \in D
  <2> SUFFICES ASSUME m <= i + 1, i + 1 <= n PROVE b[m] <= b[i + 1]
    OBVIOUS
  <2>1. CASE m = i + 1
    BY <2>1, <1>2
  <2>2. CASE m <= i
    <3>1. b[m] <= b[i]
      BY <1>5, <2>2
    <3>2. b[i + 1] >= b[i]
      BY <1>3
    <3>3. b[m] \in Int /\ b[i] \in Int /\ b[i + 1] \in Int
      BY <1>1, <1>2
    <3> QED
      BY <3>1, <3>2, <3>3
  <2> QED
    BY <2>1, <2>2, <1>1
<1>6. \A i \in Nat : i \in D
  <2> HIDE DEF D
  <2> QED
    BY <1>4, <1>5, SetInduction
<1> QED
  BY <1>1, <1>6 DEF b

\* Before(f) is the longest part of the chain that does not end it.
LEMMA BeforeIs ==
  ASSUME NEW f \in FrameType
  PROVE  /\ Before(f) \in 0..Len(f.exts)
         /\ NoFragment(f, Before(f))
         /\ Before(f) < Len(f.exts) => f.exts[Before(f) + 1] = -1
         /\ \A m \in 0..Len(f.exts) : NoFragment(f, m) => m <= Before(f)
<1> DEFINE N == Len(f.exts)
           Ends(n) == f.exts[n + 1] = -1 /\ \A k \in 1..n : f.exts[k] # -1
<1>1. N \in Nat
  BY FrameFields
<1>2. CASE NoFragment(f, N)
  <2>1. Before(f) = N
    BY <1>1, <1>2, FrameFields DEF Before, NoFragment
  <2> QED
    BY <1>1, <1>2, <2>1
<1>3. CASE ~NoFragment(f, N)
  <2> DEFINE D == {m \in Nat : m <= N => NoFragment(f, m) \/ \E n \in 0..(N - 1) : Ends(n)}
  <2>1. 0 \in D
    BY DEF NoFragment
  <2>2. ASSUME NEW m \in Nat, m \in D PROVE m + 1 \in D
    <3> SUFFICES ASSUME m + 1 <= N, NoFragment(f, m), ~NoFragment(f, m + 1) PROVE Ends(m)
      BY <1>1, <2>2
    <3> QED
      BY DEF NoFragment
  <2>3. \A m \in Nat : m \in D
    <3> HIDE DEF D
    <3> QED
      BY <2>1, <2>2, SetInduction
  <2>4. \E n \in 0..N : Ends(n)
    <3>1. N \in D
      BY <1>1, <2>3
    <3>2. PICK n \in 0..(N - 1) : Ends(n)
      BY <1>1, <1>3, <3>1
    <3>3. n \in 0..N
      BY <1>1
    <3> HIDE DEF Ends
    <3> QED
      BY <3>2, <3>3
  <2>5. \E k \in DOMAIN f.exts : f.exts[k] = -1
    BY <1>1, <1>3, FrameFields DEF NoFragment
  <2>6. Before(f) = CHOOSE n \in 0..N : Ends(n)
    BY <2>5 DEF Before
  <2>7. Before(f) \in 0..N /\ Ends(Before(f))
    <3> HIDE DEF Ends
    <3> QED
      BY <2>4, <2>6
  <2>8. Before(f) # N
    BY <1>3, <2>7 DEF NoFragment
  <2>9. \A m \in 0..N : NoFragment(f, m) => m <= Before(f)
    BY <1>1, <2>7, <2>8 DEF NoFragment
  <2> QED
    BY <1>1, <2>7, <2>9 DEF NoFragment
<1> QED
  BY <1>2, <1>3

\* Every header of the chain can be read.
Complete(f) == f.cut >= 2 + Len(f.exts)

\* What the walk knows after i passes, in state w: while it goes on it has seen
\* i headers that do not end the chain; when it has stopped, why.
Knows(f, w, i) ==
  LET N == Len(f.exts)
      Fits(m) == ExtBytes(f)[m] <= MAX_V6_EXT_BYTES
  IN  /\ w.res = "go" =>
           w.seen = i /\ i <= N /\ NoFragment(f, i) /\ w.off = ExtBytes(f)[i]
      /\ w.res = "l4" => N < i /\ NoFragment(f, N) /\ Fits(N)
      /\ w.res = "fragment" =>
           /\ w.seen \in 1..N /\ w.seen <= i
           /\ f.exts[w.seen] = -1 /\ NoFragment(f, w.seen - 1) /\ Fits(w.seen - 1)
      /\ w.res = "err" /\ Complete(f) =>
           \E m \in 0..N : NoFragment(f, m) /\ ~Fits(m)

\* One pass keeps it.
LEMMA PassKnows ==
  ASSUME NEW f \in FrameType, NEW w \in WalkStates, NEW i \in Nat, Knows(f, w, i)
  PROVE  Knows(f, WalkStep(f, w), i + 1)
<1> DEFINE N == Len(f.exts)
           b == ExtBytes(f)
           ext == f.exts[i + 1]
<1>1. /\ N \in Nat /\ w.off \in Nat /\ w.seen \in Nat /\ MAX_V6_EXT_BYTES \in Nat
      /\ w.res \in {"go", "err", "l4", "fragment"}
  BY FrameFields, MatchingAssumption DEF WalkStates
<1>2. CASE w.res # "go"
  <2>1. WalkStep(f, w) = w
    BY <1>2 DEF WalkStep
  <2> QED
    BY <1>1, <1>2, <2>1 DEF Knows
<1>3. CASE w.res = "go"
  <2>1. w.seen = i /\ i <= N /\ NoFragment(f, i) /\ w.off = b[i]
    BY <1>3 DEF Knows
  <2>2. CASE w.off > MAX_V6_EXT_BYTES
    <3>1. WalkStep(f, w) = [w EXCEPT !.res = "err"]
      BY <1>3, <2>2 DEF WalkStep
    <3>2. WalkStep(f, w).res = "err"
      BY <3>1 DEF WalkStates
    <3>3. i \in 0..N /\ ~(b[i] <= MAX_V6_EXT_BYTES)
      BY <1>1, <2>1, <2>2
    <3> QED
      BY <2>1, <3>2, <3>3 DEF Knows
  <2>3. CASE ~(w.off > MAX_V6_EXT_BYTES) /\ i + 1 > N
    <3>1. WalkStep(f, w) = [w EXCEPT !.res = "l4"]
      BY <1>3, <2>1, <2>3 DEF WalkStep
    <3>2. WalkStep(f, w).res = "l4"
      BY <3>1 DEF WalkStates
    <3>3. i = N /\ b[N] <= MAX_V6_EXT_BYTES
      BY <1>1, <2>1, <2>3
    <3> QED
      BY <1>1, <2>1, <3>2, <3>3 DEF Knows
  <2>4. CASE ~(w.off > MAX_V6_EXT_BYTES) /\ i + 1 <= N /\ ~Readable(f, 2 + (i + 1))
    <3>1. WalkStep(f, w) = [w EXCEPT !.res = "err"]
      BY <1>1, <1>3, <2>1, <2>4 DEF WalkStep
    <3>2. WalkStep(f, w).res = "err"
      BY <3>1 DEF WalkStates
    <3>3. ~Complete(f)
      BY <1>1, <2>4, FrameFields DEF Readable, Complete
    <3> QED
      BY <3>2, <3>3 DEF Knows
  <2>5. CASE ~(w.off > MAX_V6_EXT_BYTES) /\ i + 1 <= N /\ Readable(f, 2 + (i + 1)) /\ ext = -1
    <3>1. WalkStep(f, w) = [res |-> "fragment", off |-> w.off, seen |-> i + 1]
      BY <1>1, <1>3, <2>1, <2>5 DEF WalkStep
    <3>2. WalkStep(f, w).res = "fragment" /\ WalkStep(f, w).seen = i + 1
      BY <3>1
    <3>3. b[i] <= MAX_V6_EXT_BYTES /\ i + 1 \in 1..N /\ (i + 1) - 1 = i
      BY <1>1, <2>1, <2>5
    <3> QED
      BY <2>1, <2>5, <3>2, <3>3 DEF Knows
  <2>6. CASE ~(w.off > MAX_V6_EXT_BYTES) /\ i + 1 <= N /\ Readable(f, 2 + (i + 1)) /\ ext # -1
    <3>1. WalkStep(f, w) = [res |-> "go", off |-> w.off + ExtLength(ext), seen |-> i + 1]
      BY <1>1, <1>3, <2>1, <2>6 DEF WalkStep
    <3>2. /\ WalkStep(f, w).res = "go" /\ WalkStep(f, w).seen = i + 1
          /\ WalkStep(f, w).off = w.off + ExtLength(ext)
      BY <3>1
    <3>3. b[i + 1] = b[(i + 1) - 1] + ExtLength(ext)
      BY <1>1, <2>6, ExtBytesDef
    <3>4. NoFragment(f, i + 1)
      BY <2>1, <2>6 DEF NoFragment
    <3> QED
      BY <2>1, <2>6, <3>2, <3>3, <3>4 DEF Knows
  <2> QED
    BY <1>1, <2>1, <2>2, <2>3, <2>4, <2>5, <2>6
<1> QED
  BY <1>2, <1>3

\* What walk_v6_ext finds.
LEMMA WalkFinds ==
  ASSUME NEW f \in FrameType
  PROVE  LET w == walk_v6_ext(f)
             n == Before(f)
             walked == n < MAX_V6_EXT_HDRS /\ ExtBytes(f)[n] <= MAX_V6_EXT_BYTES
         IN  /\ w.res \in {"err", "l4", "fragment"} /\ w.seen \in Nat
             /\ w.res = "l4" => n = Len(f.exts) /\ walked
             /\ w.res = "fragment" => n < Len(f.exts) /\ w.seen = n + 1 /\ walked
             /\ w.res = "err" /\ Complete(f) => ~walked
<1> DEFINE M == MAX_V6_EXT_HDRS
           N == Len(f.exts)
           b == ExtBytes(f)
           e == Passes(f)[M]
           w == walk_v6_ext(f)
           n == Before(f)
<1>1. /\ M \in Nat /\ N \in Nat /\ MAX_V6_EXT_BYTES \in Nat
      /\ n \in 0..N /\ NoFragment(f, n) /\ (n < N => f.exts[n + 1] = -1)
      /\ \A m \in 0..N : NoFragment(f, m) => m <= n
  BY MatchingAssumption, FrameFields, BeforeIs
<1> DEFINE D == {i \in Nat : i <= M => Knows(f, Passes(f)[i], i)}
<1>2. 0 \in D
  <2>1. Knows(f, WalkStart, 0)
    BY <1>1, ExtBytesDef DEF Knows, WalkStart, NoFragment
  <2> QED
    BY <2>1, PassesDef
<1>3. ASSUME NEW i \in Nat, i \in D PROVE i + 1 \in D
  <2> SUFFICES ASSUME i + 1 <= M PROVE Knows(f, Passes(f)[i + 1], i + 1)
    OBVIOUS
  <2>1. Passes(f)[i] \in WalkStates /\ Knows(f, Passes(f)[i], i)
    BY <1>1, <1>3, PassesDef
  <2>2. Passes(f)[i + 1] = WalkStep(f, Passes(f)[(i + 1) - 1])
    BY <1>1, PassesDef
  <2> QED
    BY <2>1, <2>2, PassKnows
<1>4. \A i \in Nat : i \in D
  <2> HIDE DEF D
  <2> QED
    BY <1>2, <1>3, SetInduction
<1>5. e \in WalkStates /\ Knows(f, e, M)
  BY <1>1, <1>4, PassesDef
<1>6. CASE e.res = "go"
  <2>1. w.res = "err" /\ w.seen = e.seen
    BY <1>5, <1>6 DEF walk_v6_ext, WalkStates
  <2>2. M <= N /\ NoFragment(f, M)
    BY <1>5, <1>6 DEF Knows
  <2>3. M <= n
    BY <1>1, <2>2
  <2> QED
    BY <1>1, <1>5, <2>1, <2>3 DEF WalkStates
<1>7. CASE e.res # "go"
  <2>1. w = e
    BY <1>7 DEF walk_v6_ext
  <2>2. ASSUME e.res = "l4" PROVE n = N /\ n < M /\ b[n] <= MAX_V6_EXT_BYTES
    <3>1. N < M /\ NoFragment(f, N) /\ b[N] <= MAX_V6_EXT_BYTES
      BY <1>5, <2>2 DEF Knows
    <3> QED
      BY <1>1, <3>1
  <2>3. ASSUME e.res = "fragment"
        PROVE  n < N /\ e.seen = n + 1 /\ n < M /\ b[n] <= MAX_V6_EXT_BYTES
    <3>1. /\ e.seen \in 1..N /\ e.seen <= M
          /\ f.exts[e.seen] = -1 /\ NoFragment(f, e.seen - 1)
          /\ b[e.seen - 1] <= MAX_V6_EXT_BYTES
      BY <1>5, <2>3 DEF Knows
    <3>2. e.seen - 1 <= n
      BY <1>1, <3>1
    <3>3. ~(e.seen <= n)
      BY <1>1, <3>1 DEF NoFragment
    <3>4. e.seen - 1 = n
      BY <1>1, <3>1, <3>2, <3>3
    <3> QED
      BY <1>1, <3>1, <3>4
  <2>4. ASSUME e.res = "err", Complete(f) PROVE ~(b[n] <= MAX_V6_EXT_BYTES)
    <3>1. PICK m \in 0..N : NoFragment(f, m) /\ ~(b[m] <= MAX_V6_EXT_BYTES)
      BY <1>5, <2>4 DEF Knows
    <3>2. m \in 0..n
      BY <1>1, <3>1
    <3>3. b[m] <= b[n] /\ b[m] \in Int /\ b[n] \in Int
      BY <1>1, <3>2, BytesGrow, ExtBytesDef
    <3> QED
      BY <1>1, <3>1, <3>3
  <2> QED
    BY <1>5, <1>7, <2>1, <2>2, <2>3, <2>4 DEF WalkStates
<1> QED
  BY <1>6, <1>7

\* The walk depends only on the chain and on where the frame ends.
LEMMA SameWalk ==
  ASSUME NEW f \in FrameType, NEW g \in FrameType, g.exts = f.exts, g.cut = f.cut
  PROVE  walk_v6_ext(g) = walk_v6_ext(f)
<1> DEFINE D == {i \in Nat : i <= MAX_V6_EXT_HDRS => Passes(g)[i] = Passes(f)[i]}
<1>1. MAX_V6_EXT_HDRS \in Nat
  BY MatchingAssumption
<1>2. 0 \in D
  BY PassesDef
<1>3. ASSUME NEW i \in Nat, i \in D PROVE i + 1 \in D
  <2> SUFFICES ASSUME i + 1 <= MAX_V6_EXT_HDRS PROVE Passes(g)[i + 1] = Passes(f)[i + 1]
    OBVIOUS
  <2>1. Passes(g)[i + 1] = WalkStep(g, Passes(g)[(i + 1) - 1])
    BY <1>1, PassesDef
  <2>2. Passes(f)[i + 1] = WalkStep(f, Passes(f)[(i + 1) - 1])
    BY <1>1, PassesDef
  <2>3. Passes(g)[i] = Passes(f)[i]
    BY <1>1, <1>3
  <2>4. \A w : WalkStep(g, w) = WalkStep(f, w)
    BY DEF WalkStep, Readable
  <2> QED
    BY <2>1, <2>2, <2>3, <2>4
<1>4. \A i \in Nat : i \in D
  <2> HIDE DEF D
  <2> QED
    BY <1>2, <1>3, SetInduction
<1> QED
  BY <1>1, <1>4 DEF walk_v6_ext

-----------------------------------------------------------------------------
(* What the packet parser makes of a frame. *)

\* The transport header gives a packet or an error.
LEMMA L4Result ==
  ASSUME NEW f \in FrameType, NEW proto, NEW k
  PROVE  parse_l4(f, proto, k) = Malformed \/ \E p, s, d, t : parse_l4(f, proto, k) = Parsed(f, p, s, d, t)
  BY DEF parse_l4, parse_icmp

\* An IP packet is parsed or dropped, never taken for something else.
LEMMA IpResult ==
  ASSUME NEW f \in FrameType
  PROVE  parse_v4(f).res \in {"ok", "err"} /\ parse_v6(f).res \in {"ok", "err"}
<1>1. Malformed.res = "err" /\ \A p, s, d, t : Parsed(f, p, s, d, t).res = "ok"
  BY DEF Malformed, Parsed
<1>2. \A proto, k : parse_l4(f, proto, k).res \in {"ok", "err"}
  BY <1>1, L4Result
<1>3. parse_v4(f).res \in {"ok", "err"}
  BY <1>1, <1>2 DEF parse_v4, Fragment
<1>4. parse_v6(f).res \in {"ok", "err"}
  BY <1>1, <1>2 DEF parse_v6, Fragment
<1> QED
  BY <1>3, <1>4

\* A later fragment has no ports and no ICMP type.
LEMMA FragmentFields ==
  ASSUME NEW f \in FrameType, NEW proto
  PROVE  LET p == Fragment(f, proto)
         IN  /\ p.res = "ok" /\ p.sport = 0 /\ p.dport = 0 /\ p.icmp_type = "none"
             /\ p.proto = normalize_proto(proto, f.net) /\ p.family = f.net
  BY DEF Fragment, Parsed

\* What parse_l4 makes of a transport header that it can read.
LEMMA L4Fields ==
  ASSUME NEW f \in FrameType, f.net \in {"v4", "v6"}, NEW k, NEW proto
  PROVE  LET n == normalize_proto(proto, f.net)
             p == parse_l4(f, proto, k)
         IN  /\ n \in {"tcp", "udp", "icmp", "icmpv6", "any"}
             /\ n # "any" => n = proto
             /\ p.res = "ok" =>
                  /\ p.family = f.net /\ p.proto = n /\ p.src = f.src /\ p.dst = f.dst
                  /\ n = "any" => p.sport = 0 /\ p.dport = 0 /\ p.icmp_type = "none"
                  /\ n \in {"tcp", "udp"} =>
                       p.sport = f.sport /\ p.dport = f.dport /\ p.icmp_type = "none"
                  /\ n \in {"icmp", "icmpv6"} =>
                       p.sport = f.sport /\ p.dport = f.sport /\ p.icmp_type = f.icmp_type
             /\ Readable(f, k) => p.res = "ok"
<1>1. normalize_proto(proto, f.net) \in {"tcp", "udp", "icmp", "icmpv6", "any"}
  BY DEF normalize_proto
<1>2. normalize_proto(proto, f.net) # "any" => normalize_proto(proto, f.net) = proto
  BY DEF normalize_proto
<1> QED
  BY <1>1, <1>2 DEF parse_l4, parse_icmp, Parsed, Malformed

-----------------------------------------------------------------------------
(* The properties, of any frame. *)

\* A frame of which other fields are changed is still a frame.
LEMMA FrameChanges ==
  ASSUME NEW f \in FrameType
  PROVE  /\ \A n \in Nat : [f EXCEPT !.tags = n] \in FrameType
         /\ \A n \in Nat : [f EXCEPT !.cut = n] \in FrameType
         /\ \A s \in Seq(Nat \cup {-1}) : [f EXCEPT !.exts = s] \in FrameType
         /\ [f EXCEPT !.exts = <<>>] \in FrameType
<1>1. <<>> \in Seq(Nat \cup {-1})
  OBVIOUS
<1> QED
  BY <1>1 DEF FrameType

\* Where the IP header of an Ethernet frame is, and what the ethertypes say.
LEMMA Ethertypes ==
  ASSUME NEW f \in FrameType, f.link = "ethernet", NEW n \in {0, 1, 2}
  PROVE  /\ f.tags = n => ethertype_at(f, 12 + 4 * n) = f.net /\ IpOffset(f) = 14 + 4 * n
         /\ f.tags > n => ethertype_at(f, 12 + 4 * n) = "vlan"
<1>1. f.tags \in Nat
  BY FrameFields
<1>2. f.tags = n => ethertype_at(f, 12 + 4 * n) = f.net /\ IpOffset(f) = 14 + 4 * n
  BY DEF ethertype_at, IpOffset
<1>3. ASSUME f.tags > n PROVE ethertype_at(f, 12 + 4 * n) = "vlan"
  <2>1. 12 + 4 * n # 12 + 4 * f.tags /\ n \in 0..(f.tags - 1)
    BY <1>1, <1>3
  <2> QED
    BY <2>1 DEF ethertype_at
<1> QED
  BY <1>2, <1>3

\* The nested matches come to the IP header behind up to two tags.
LEMMA EthernetMatch ==
  ASSUME NEW f \in FrameType, f.link = "ethernet", Readable(f, 1)
  PROVE  parse_packet(f) = IF f.tags > 2 THEN NotIp
                           ELSE MatchType(f, f.net, IpOffset(f), NotIp)
<1> DEFINE third == MatchType(f, ethertype_at(f, 20), 22, NotIp)
           second == MatchType(f, ethertype_at(f, 16), 18, third)
<1>1. parse_packet(f) = MatchType(f, ethertype_at(f, 12), 14, second)
  BY DEF parse_packet
<1>2. f.tags \in Nat /\ f.net \in {"v4", "v6", "arp"}
  BY FrameFields DEF FrameType
<1>3. \A off, t1, t2 : MatchType(f, f.net, off, t1) = MatchType(f, f.net, off, t2)
  BY <1>2 DEF MatchType
<1>4. \A off, tagged : MatchType(f, "vlan", off, tagged) = tagged
  BY DEF MatchType
<1>5. /\ f.tags = 0 => ethertype_at(f, 12) = f.net /\ IpOffset(f) = 14
      /\ f.tags > 0 => ethertype_at(f, 12) = "vlan"
  BY Ethertypes
<1>6. /\ f.tags = 1 => ethertype_at(f, 16) = f.net /\ IpOffset(f) = 18
      /\ f.tags > 1 => ethertype_at(f, 16) = "vlan"
  BY Ethertypes
<1>7. /\ f.tags = 2 => ethertype_at(f, 20) = f.net /\ IpOffset(f) = 22
      /\ f.tags > 2 => ethertype_at(f, 20) = "vlan"
  BY Ethertypes
<1>8. CASE f.tags = 0
  BY <1>1, <1>3, <1>5, <1>8
<1>9. CASE f.tags = 1
  BY <1>1, <1>3, <1>4, <1>5, <1>6, <1>9
<1>10. CASE f.tags = 2
  BY <1>1, <1>4, <1>5, <1>6, <1>7, <1>10
<1>11. CASE f.tags > 2
  BY <1>1, <1>2, <1>4, <1>5, <1>6, <1>7, <1>11
<1> QED
  BY <1>2, <1>8, <1>9, <1>10, <1>11

\* parse_packet of an IP frame that is not cut off before the IP header's link
\* and has few enough tags is that of its family.
LEMMA ParseIp ==
  ASSUME NEW f \in FrameType, f.net \in {"v4", "v6"}, f.tags <= 2 \/ f.link = "raw"
  PROVE  parse_packet(f) = IF ~Readable(f, 1) THEN Malformed
                           ELSE IF f.net = "v4" THEN parse_v4(f) ELSE parse_v6(f)
<1>1. MatchType(f, f.net, IpOffset(f), NotIp) = IF f.net = "v4" THEN parse_v4(f) ELSE parse_v6(f)
  BY DEF MatchType, parse_ip
<1>2. CASE ~Readable(f, 1)
  BY <1>2 DEF parse_packet
<1>3. CASE Readable(f, 1) /\ f.link = "raw"
  BY <1>1, <1>3 DEF parse_packet, IpOffset
<1>4. CASE Readable(f, 1) /\ f.link # "raw"
  <2>1. f.link = "ethernet" /\ f.tags \in Nat
    BY <1>4, FrameFields DEF FrameType
  <2>2. ~(f.tags > 2)
    BY <1>4, <2>1
  <2> QED
    BY <1>1, <1>4, <2>1, <2>2, EthernetMatch
<1> QED
  BY <1>2, <1>3, <1>4

\* Any other frame is passed or dropped.
LEMMA ParseOther ==
  ASSUME NEW f \in FrameType, f.net \notin {"v4", "v6"} \/ (f.tags > 2 /\ f.link # "raw")
  PROVE  parse_packet(f) \in {Malformed, NotIp}
<1>1. f.net \notin {"v4", "v6"} => \A off : MatchType(f, f.net, off, NotIp) = NotIp
  BY DEF MatchType
<1>2. CASE ~Readable(f, 1)
  BY <1>2 DEF parse_packet
<1>3. CASE Readable(f, 1) /\ f.link = "raw"
  BY <1>1, <1>3 DEF parse_packet
<1>4. CASE Readable(f, 1) /\ f.link # "raw"
  <2>1. f.link = "ethernet"
    BY <1>4 DEF FrameType
  <2> QED
    BY <1>1, <1>4, <2>1, EthernetMatch
<1> QED
  BY <1>2, <1>3, <1>4

\* Tags change nothing.
LEMMA TagsOfFrame ==
  ASSUME NEW f \in FrameType, f.net \in {"v4", "v6"}, f.tags <= 2
  PROVE  parse_packet(f) = parse_packet([f EXCEPT !.tags = 0])
<1> DEFINE g == [f EXCEPT !.tags = 0]
<1>1. g \in FrameType
  BY FrameChanges
<1>2. /\ g.exts = f.exts /\ g.cut = f.cut /\ g.net = f.net /\ g.tags = 0
      /\ g.ihl = f.ihl /\ g.fragment = f.fragment /\ g.proto = f.proto
      /\ g.src = f.src /\ g.dst = f.dst /\ g.sport = f.sport /\ g.dport = f.dport
      /\ g.icmp_type = f.icmp_type
  BY DEF FrameType
<1> HIDE DEF g
<1>3. \A p, s, d, t : Parsed(g, p, s, d, t) = Parsed(f, p, s, d, t)
  BY <1>2 DEF Parsed
<1>4. \A k : Readable(g, k) <=> Readable(f, k)
  BY <1>2 DEF Readable
<1>5. \A proto, k : parse_l4(g, proto, k) = parse_l4(f, proto, k)
  BY <1>2, <1>3, <1>4 DEF parse_l4, parse_icmp
<1>6. \A proto : Fragment(g, proto) = Fragment(f, proto)
  BY <1>2, <1>3 DEF Fragment
<1>7. parse_v4(g) = parse_v4(f)
  BY <1>2, <1>4, <1>5, <1>6 DEF parse_v4
<1>8. walk_v6_ext(g) = walk_v6_ext(f)
  BY <1>1, <1>2, SameWalk
<1>9. \A k : NextHeader(g, k) = NextHeader(f, k)
  BY <1>2 DEF NextHeader
<1>10. parse_v6(g) = parse_v6(f)
  BY <1>2, <1>4, <1>5, <1>6, <1>8, <1>9 DEF parse_v6
<1>11. parse_packet(g) = IF ~Readable(g, 1) THEN Malformed
                         ELSE IF g.net = "v4" THEN parse_v4(g) ELSE parse_v6(g)
  BY <1>1, <1>2, ParseIp
<1> QED
  BY <1>2, <1>4, <1>7, <1>10, <1>11, ParseIp DEF g

\* Only a complete neighbour-discovery message is exempt.
LEMMA OutcomeOfFrame ==
  ASSUME NEW f \in FrameType, f.net \in {"v4", "v6"}, f.tags <= 2
  PROVE  /\ Outcome(f) # "passed"
         /\ Outcome(f) = "exempt" =>
              f.net = "v6" /\ f.proto = "icmpv6" /\ f.icmp_type = "ndp" /\ ~LaterFragment(f)
<1> DEFINE p == parse_packet(f)
<1>1. p.res \in {"ok", "err"}
  BY ParseIp, IpResult DEF Malformed
<1>2. Outcome(f) # "passed" /\ (Outcome(f) = "exempt" => p.res = "ok" /\ is_ndp(p))
  BY <1>1 DEF Outcome
<1>3. ASSUME p.res = "ok", is_ndp(p)
      PROVE  f.net = "v6" /\ f.proto = "icmpv6" /\ f.icmp_type = "ndp" /\ ~LaterFragment(f)
  <2>1. p.family = "v6" /\ p.proto = "icmpv6" /\ p.icmp_type = "ndp"
    BY <1>3 DEF is_ndp
  <2>2. Readable(f, 1) /\ p = IF f.net = "v4" THEN parse_v4(f) ELSE parse_v6(f)
    BY <1>3, ParseIp DEF Malformed
  <2> HIDE DEF p
  <2>3. f.net = "v6"
    <3> SUFFICES ASSUME f.net = "v4" PROVE FALSE
      OBVIOUS
    <3>1. p = Malformed \/ p = Fragment(f, f.proto) \/ p = parse_l4(f, f.proto, 3)
      BY <2>2 DEF parse_v4
    <3>2. Malformed.res = "err"
      BY DEF Malformed
    <3> QED
      BY <1>3, <2>1, <3>1, <3>2, FragmentFields, L4Fields
  <2>4. p = Malformed \/ (\E proto : p = Fragment(f, proto)) \/
        (p = parse_l4(f, f.proto, 3 + Len(f.exts)) /\ walk_v6_ext(f).res \notin {"err", "fragment"})
    BY <2>2, <2>3 DEF parse_v6
  <2>5. p = parse_l4(f, f.proto, 3 + Len(f.exts)) /\ walk_v6_ext(f).res = "l4"
    BY <1>3, <2>1, <2>4, FragmentFields, WalkFinds DEF Malformed
  <2>6. f.proto = "icmpv6" /\ f.icmp_type = "ndp"
    BY <1>3, <2>1, <2>3, <2>5, L4Fields
  <2>7. Before(f) = Len(f.exts)
    BY <2>5, WalkFinds
  <2> QED
    BY <2>3, <2>6, <2>7, FrameFields DEF LaterFragment
<1> QED
  BY <1>2, <1>3

\* A frame without extension headers is walked.
LEMMA BareWalk ==
  ASSUME NEW f \in FrameType, f.exts = <<>>
  PROVE  walk_v6_ext(f).res = "l4" /\ Before(f) = 0
<1>1. Len(f.exts) = 0
  OBVIOUS
<1>2. Before(f) = 0
  BY <1>1, BeforeIs
<1>3. 0 < MAX_V6_EXT_HDRS /\ ExtBytes(f)[0] <= MAX_V6_EXT_BYTES
  BY MatchingAssumption, ExtBytesDef
<1>4. walk_v6_ext(f).res # "fragment"
  BY <1>1, <1>2, WalkFinds
<1>5. CASE walk_v6_ext(f).res = "err"
  <2> DEFINE w == Passes(f)[MAX_V6_EXT_HDRS]
             D == {i \in Nat : i + 1 <= MAX_V6_EXT_HDRS => Passes(f)[i + 1].res = "l4"}
  <2>1. MAX_V6_EXT_HDRS \in Nat \ {0}
    BY MatchingAssumption
  <2>2. 0 \in D
    <3>1. Passes(f)[0 + 1] = WalkStep(f, WalkStart)
      BY <2>1, PassesDef
    <3>2. WalkStep(f, WalkStart) = [WalkStart EXCEPT !.res = "l4"]
      BY <1>1, MatchingAssumption DEF WalkStep, WalkStart
    <3> QED
      BY <3>1, <3>2 DEF WalkStart
  <2>3. ASSUME NEW i \in Nat, i \in D PROVE i + 1 \in D
    <3> SUFFICES ASSUME (i + 1) + 1 <= MAX_V6_EXT_HDRS PROVE Passes(f)[(i + 1) + 1].res = "l4"
      OBVIOUS
    <3>1. Passes(f)[(i + 1) + 1] = WalkStep(f, Passes(f)[((i + 1) + 1) - 1])
      BY <2>1, PassesDef
    <3>2. Passes(f)[i + 1].res = "l4"
      BY <2>1, <2>3
    <3>3. WalkStep(f, Passes(f)[i + 1]) = Passes(f)[i + 1]
      BY <3>2 DEF WalkStep
    <3> QED
      BY <3>1, <3>2, <3>3
  <2>4. \A i \in Nat : i \in D
    <3> HIDE DEF D
    <3> QED
      BY <2>2, <2>3, SetInduction
  <2>5. MAX_V6_EXT_HDRS - 1 \in D
    BY <2>1, <2>4
  <2>6. w.res = "l4"
    BY <2>1, <2>5
  <2> QED
    BY <1>5, <2>6 DEF walk_v6_ext
<1> QED
  BY <1>2, <1>4, <1>5, WalkFinds

\* Extension headers change nothing, or the packet is dropped.
LEMMA ExtsOfFrame ==
  ASSUME NEW f \in FrameType, f.net = "v6", f.tags <= 2, f.cut >= 3 + Len(f.exts)
  PROVE  LET n == Before(f)
             walked == n < MAX_V6_EXT_HDRS /\ ExtBytes(f)[n] <= MAX_V6_EXT_BYTES
             p == parse_packet(f)
             bare == parse_packet([f EXCEPT !.exts = <<>>])
         IN  IF ~walked THEN p = Malformed
             ELSE IF ~LaterFragment(f) THEN p = bare
             ELSE p.sport = 0 /\ p.dport = 0 /\ (n + 1 = Len(f.exts) => p.proto = bare.proto)
<1> DEFINE n == Before(f)
           N == Len(f.exts)
           walked == n < MAX_V6_EXT_HDRS /\ ExtBytes(f)[n] <= MAX_V6_EXT_BYTES
           w == walk_v6_ext(f)
           p == parse_packet(f)
           g == [f EXCEPT !.exts = <<>>]
           bare == parse_packet(g)
<1>1. N \in Nat /\ f.cut \in Nat /\ n \in 0..N
  BY FrameFields, BeforeIs
<1>2. Readable(f, 1) /\ Readable(f, 2) /\ Readable(f, 3 + N) /\ Complete(f)
  BY <1>1 DEF Readable, Complete
<1>3. p = parse_v6(f)
  BY <1>2, ParseIp
<1>4. g \in FrameType
  BY FrameChanges
<1>5. /\ g.exts = <<>> /\ g.cut = f.cut /\ g.net = f.net /\ g.tags = f.tags /\ g.proto = f.proto
      /\ g.src = f.src /\ g.dst = f.dst /\ g.sport = f.sport /\ g.dport = f.dport
      /\ g.icmp_type = f.icmp_type
  BY DEF FrameType
<1> HIDE DEF g
<1>6. Readable(g, 1) /\ Readable(g, 2) /\ Readable(g, 3)
  BY <1>1, <1>5 DEF Readable
<1>7. bare = parse_v6(g)
  BY <1>4, <1>5, <1>6, ParseIp
<1>8. Len(g.exts) = 0
  BY <1>5
<1>9. bare = parse_l4(g, f.proto, 3)
  BY <1>4, <1>5, <1>6, <1>7, <1>8, BareWalk DEF parse_v6
<1>10. (f.net = "v4" /\ f.fragment) = FALSE
  OBVIOUS
<1>11. CASE ~walked
  <2>1. w.res = "err"
    BY <1>11, WalkFinds
  <2>2. p = Malformed
    BY <1>3, <2>1 DEF parse_v6
  <2> QED
    BY <1>11, <2>2
<1>12. CASE walked /\ ~LaterFragment(f)
  <2>1. n = N
    BY <1>1, <1>10, <1>12 DEF LaterFragment
  <2>2. w.res = "l4"
    BY <1>2, <1>12, <2>1, WalkFinds
  <2>3. p = parse_l4(f, f.proto, 3 + N)
    BY <1>2, <1>3, <2>2 DEF parse_v6
  <2>4. \A q, s, d, t : Parsed(g, q, s, d, t) = Parsed(f, q, s, d, t)
    BY <1>5 DEF Parsed
  <2>5. p = bare
    BY <1>2, <1>5, <1>6, <1>9, <2>3, <2>4 DEF parse_l4, parse_icmp
  <2> QED
    BY <1>12, <2>5 DEF g
<1>13. CASE walked /\ LaterFragment(f)
  <2>1. n < N
    BY <1>10, <1>13 DEF LaterFragment
  <2>2. w.res = "fragment" /\ w.seen = n + 1
    BY <1>1, <1>2, <1>13, <2>1, WalkFinds
  <2>3. p = Fragment(f, NextHeader(f, w.seen + 1))
    BY <1>2, <1>3, <2>2 DEF parse_v6
  <2>4. p.sport = 0 /\ p.dport = 0
    BY <2>3, FragmentFields
  <2>5. ASSUME n + 1 = N PROVE p.proto = bare.proto
    <3>1. NextHeader(f, w.seen + 1) = f.proto
      BY <1>1, <2>2, <2>5 DEF NextHeader
    <3>2. p.proto = normalize_proto(f.proto, f.net)
      BY <2>3, <3>1, FragmentFields
    <3>3. bare.proto = normalize_proto(f.proto, g.net)
      BY <1>4, <1>5, <1>6, <1>9, L4Fields
    <3> QED
      BY <1>5, <3>2, <3>3
  <2> QED
    BY <1>13, <2>4, <2>5 DEF g
<1> QED
  BY <1>11, <1>12, <1>13

\* A frame's reply, complete, is a frame.
LEMMA ReplyType ==
  ASSUME NEW f \in FrameType
  PROVE  LET g == [Reply(f) EXCEPT !.cut = 3]
         IN  /\ g \in FrameType
             /\ g.tags = 0 /\ g.exts = <<>> /\ g.cut = 3
             /\ g.link = f.link /\ g.net = f.net /\ g.ihl = f.ihl /\ g.fragment = f.fragment
             /\ g.proto = f.proto /\ g.src = f.dst /\ g.dst = f.src
             /\ g.icmp_type = f.icmp_type
             /\ f.proto \in {"tcp", "udp"} => g.sport = f.dport /\ g.dport = f.sport
             /\ f.proto \notin {"tcp", "udp"} => g.sport = f.sport /\ g.dport = f.dport
<1> DEFINE b == Bare(f)
           c == [b EXCEPT !.src = f.dst, !.dst = f.src]
           d == [c EXCEPT !.sport = f.dport, !.dport = f.sport]
<1>1. b \in FrameType
  <2>1. [f EXCEPT !.exts = <<>>] \in FrameType
    BY FrameChanges
  <2> QED
    BY <2>1 DEF Bare, FrameType
<1>2. /\ b.tags = 0 /\ b.exts = <<>> /\ b.cut = f.cut
      /\ b.link = f.link /\ b.net = f.net /\ b.ihl = f.ihl /\ b.fragment = f.fragment
      /\ b.proto = f.proto /\ b.icmp_type = f.icmp_type
      /\ b.sport = f.sport /\ b.dport = f.dport
  BY DEF Bare, FrameType
<1> HIDE DEF b
<1>3. c \in FrameType
  BY <1>1 DEF FrameType
<1>4. /\ c.tags = 0 /\ c.exts = <<>> /\ c.cut = f.cut
      /\ c.link = f.link /\ c.net = f.net /\ c.ihl = f.ihl /\ c.fragment = f.fragment
      /\ c.proto = f.proto /\ c.icmp_type = f.icmp_type /\ c.src = f.dst /\ c.dst = f.src
      /\ c.sport = f.sport /\ c.dport = f.dport
  BY <1>1, <1>2 DEF FrameType
<1>5. Reply(f) = IF f.proto \in {"tcp", "udp"} THEN d ELSE c
  BY DEF Reply, b
<1> HIDE DEF c
<1>6. d \in FrameType
  BY <1>3 DEF FrameType
<1>7. /\ d.tags = 0 /\ d.exts = <<>> /\ d.cut = f.cut
      /\ d.link = f.link /\ d.net = f.net /\ d.ihl = f.ihl /\ d.fragment = f.fragment
      /\ d.proto = f.proto /\ d.icmp_type = f.icmp_type /\ d.src = f.dst /\ d.dst = f.src
      /\ d.sport = f.dport /\ d.dport = f.sport
  BY <1>3, <1>4 DEF FrameType
<1> HIDE DEF d
<1>8. \A e \in FrameType : LET g == [e EXCEPT !.cut = 3]
                          IN  /\ g \in FrameType /\ g.cut = 3
                              /\ g.tags = e.tags /\ g.exts = e.exts /\ g.link = e.link
                              /\ g.net = e.net /\ g.ihl = e.ihl /\ g.fragment = e.fragment
                              /\ g.proto = e.proto /\ g.icmp_type = e.icmp_type
                              /\ g.src = e.src /\ g.dst = e.dst
                              /\ g.sport = e.sport /\ g.dport = e.dport
  BY DEF FrameType
<1>9. CASE f.proto \in {"tcp", "udp"}
  <2>1. Reply(f) = d
    BY <1>5, <1>9
  <2> QED
    BY <1>6, <1>7, <1>8, <1>9, <2>1
<1>10. CASE f.proto \notin {"tcp", "udp"}
  <2>1. Reply(f) = c
    BY <1>5, <1>10
  <2> QED
    BY <1>3, <1>4, <1>8, <1>10, <2>1
<1> QED
  BY <1>9, <1>10

\* Packet and reply meet in CONNTRACK.
LEMMA ReplyOfFrame ==
  ASSUME NEW f \in FrameType, parse_packet(f).res = "ok", ~LaterFragment(f)
  PROVE  reverse_key(parse_packet([Reply(f) EXCEPT !.cut = 3])) = forward_key(parse_packet(f))
<1> DEFINE p == parse_packet(f)
           g == [Reply(f) EXCEPT !.cut = 3]
           r == parse_packet(g)
<1>1. /\ g \in FrameType
      /\ g.tags = 0 /\ g.exts = <<>> /\ g.cut = 3
      /\ g.link = f.link /\ g.net = f.net /\ g.ihl = f.ihl /\ g.fragment = f.fragment
      /\ g.proto = f.proto /\ g.src = f.dst /\ g.dst = f.src
      /\ f.proto \in {"tcp", "udp"} => g.sport = f.dport /\ g.dport = f.sport
      /\ f.proto \notin {"tcp", "udp"} => g.sport = f.sport
  BY ReplyType
<1> HIDE DEF g
<1>2. f.net \in {"v4", "v6"} /\ p = IF f.net = "v4" THEN parse_v4(f) ELSE parse_v6(f)
  <2>1. Malformed.res # "ok" /\ NotIp.res # "ok"
    BY DEF Malformed, NotIp
  <2>2. f.net \in {"v4", "v6"} /\ (f.tags <= 2 \/ f.link = "raw")
    BY <2>1, FrameFields, ParseOther
  <2> QED
    BY <2>1, <2>2, ParseIp
<1>3. \E k : p = parse_l4(f, f.proto, k)
  <2>1. CASE f.net = "v4"
    <3>1. ~f.fragment
      BY <2>1 DEF LaterFragment
    <3>2. Malformed.res # "ok"
      BY DEF Malformed
    <3> QED
      BY <1>2, <2>1, <3>1, <3>2 DEF parse_v4
  <2>2. CASE f.net = "v6"
    <3>1. Malformed.res # "ok"
      BY DEF Malformed
    <3>2. walk_v6_ext(f).res # "fragment"
      BY WalkFinds DEF LaterFragment
    <3> QED
      BY <1>2, <2>2, <3>1, <3>2 DEF parse_v6
  <2> QED
    BY <1>2, <2>1, <2>2
<1>4. Readable(g, 1) /\ Readable(g, 2) /\ Readable(g, 3) /\ 3 + Len(g.exts) = 3
  BY <1>1 DEF Readable
<1>5. r = parse_l4(g, f.proto, 3)
  <2>1. r = IF f.net = "v4" THEN parse_v4(g) ELSE parse_v6(g)
    BY <1>1, <1>2, <1>4, ParseIp
  <2>2. CASE f.net = "v4"
    <3>1. ~f.fragment /\ f.ihl \in 5..15
      BY <1>2, <2>2 DEF LaterFragment, parse_v4, Malformed
    <3> QED
      BY <1>1, <1>4, <2>1, <2>2, <3>1 DEF parse_v4
  <2>3. CASE f.net = "v6"
    BY <1>1, <1>4, <2>1, <2>3, BareWalk DEF parse_v6
  <2> QED
    BY <1>2, <2>2, <2>3
<1>6. r.res = "ok"
  BY <1>1, <1>2, <1>4, <1>5, L4Fields
<1> DEFINE proto == normalize_proto(f.proto, f.net)
<1>7. PICK k : p = parse_l4(f, f.proto, k)
  BY <1>3
<1>8. /\ proto \in {"tcp", "udp", "icmp", "icmpv6", "any"} /\ (proto # "any" => proto = f.proto)
      /\ p.family = f.net /\ p.proto = proto /\ p.src = f.src /\ p.dst = f.dst
      /\ proto = "any" => p.sport = 0 /\ p.dport = 0
      /\ proto \in {"tcp", "udp"} => p.sport = f.sport /\ p.dport = f.dport
      /\ proto \in {"icmp", "icmpv6"} => p.sport = f.sport /\ p.dport = f.sport
  BY <1>2, <1>7, L4Fields
<1>9. /\ r.family = f.net /\ r.proto = proto /\ r.src = f.dst /\ r.dst = f.src
      /\ proto = "any" => r.sport = 0 /\ r.dport = 0
      /\ proto \in {"tcp", "udp"} => r.sport = g.sport /\ r.dport = g.dport
      /\ proto \in {"icmp", "icmpv6"} => r.sport = g.sport /\ r.dport = g.sport
  BY <1>1, <1>2, <1>5, <1>6, L4Fields
<1> HIDE DEF p, r, proto
<1>10. r.dport = p.sport /\ r.sport = p.dport
  BY <1>1, <1>8, <1>9
<1>11. reverse_key(r) = forward_key(p)
  BY <1>8, <1>9, <1>10 DEF reverse_key, forward_key
<1> QED
  BY <1>11 DEF p, r, g

-----------------------------------------------------------------------------
(* The frame on the wire. *)

\* There is at most one, and it is a frame with at most MaxExts extension
\* headers.
SentOK == sent = <<>> \/ \E f \in FrameType : sent = <<f>> /\ Len(f.exts) <= MaxExts

\* Wrapping and truncating a frame leaves a frame.
LEMMA SentStep ==
  ASSUME SentOK, [Next]_vars
  PROVE  SentOK'
<1>1. CASE UNCHANGED vars
  BY <1>1 DEF vars, SentOK
<1>2. ASSUME NEW c \in Phrases, Type(c) PROVE SentOK'
  BY <1>2 DEF Type, SentOK
<1>3. ASSUME NEW k \in DOMAIN sent, \/ AddTag(sent[k])
                                    \/ \E len \in ExtLengths : AddExt(sent[k], len)
                                    \/ Truncate(sent[k])
      PROVE SentOK'
  <2>1. PICK f \in FrameType : sent = <<f>> /\ Len(f.exts) <= MaxExts
    BY <1>3 DEF SentOK
  <2>2. sent[k] = f
    BY <1>3, <2>1
  <2>3. f.tags + 1 \in Nat /\ f.cut \in Nat /\ MaxExts \in Nat
    BY FrameFields, FramesAssumption
  <2>4. CASE AddTag(sent[k])
    <3> DEFINE g == [f EXCEPT !.tags = @ + 1]
    <3>1. g \in FrameType
      BY <2>3, FrameChanges
    <3>2. g.exts = f.exts
      BY DEF FrameType
    <3>3. sent' = <<g>>
      BY <2>2, <2>4 DEF AddTag
    <3> HIDE DEF g
    <3> QED
      BY <2>1, <3>1, <3>2, <3>3 DEF SentOK
  <2>5. ASSUME NEW len \in ExtLengths, AddExt(sent[k], len) PROVE SentOK'
    <3> DEFINE s == Append(f.exts, len)
               g == [f EXCEPT !.exts = s]
    <3>1. len \in Nat \cup {-1} /\ f.exts \in Seq(Nat \cup {-1})
      BY FrameFields, FramesAssumption
    <3>2. s \in Seq(Nat \cup {-1}) /\ Len(s) = Len(f.exts) + 1
      BY <3>1
    <3>3. Len(f.exts) < MaxExts /\ sent' = <<g>>
      BY <2>2, <2>5 DEF AddExt
    <3> HIDE DEF s
    <3>4. g \in FrameType
      BY <3>2, FrameChanges
    <3>5. g.exts = s
      BY DEF FrameType
    <3>6. Len(g.exts) <= MaxExts
      BY <2>3, <3>2, <3>3, <3>5, FrameFields
    <3> HIDE DEF g
    <3> QED
      BY <3>3, <3>4, <3>6 DEF SentOK
  <2>6. CASE Truncate(sent[k])
    <3> DEFINE n == f.cut - 1
               g == [f EXCEPT !.cut = n]
    <3>1. n \in Nat /\ sent' = <<g>>
      BY <2>2, <2>3, <2>6 DEF Truncate
    <3> HIDE DEF n
    <3>2. g \in FrameType
      BY <3>1, FrameChanges
    <3>3. g.exts = f.exts
      BY DEF FrameType
    <3> HIDE DEF g
    <3> QED
      BY <2>1, <3>1, <3>2, <3>3 DEF SentOK
  <2> QED
    BY <1>3, <2>4, <2>5, <2>6
<1> QED
  BY <1>1, <1>2, <1>3 DEF Next

\* Only frames are sent, however they are wrapped.
THEOREM SentIsFrame == Spec => []SentOK
<1>1. Init => SentOK
  <2> SUFFICES ASSUME Init, NEW f \in Frames, sent = <<f>> PROVE SentOK
    BY DEF Init, SentOK
  <2>1. f \in FrameType /\ f.exts = <<>> /\ MaxExts \in Nat
    BY FramesAssumption
  <2>2. Len(f.exts) <= MaxExts
    BY <2>1
  <2> QED
    BY <2>1, <2>2 DEF SentOK
<1>2. SentOK /\ [Next]_vars => SentOK'
  BY SentStep
<1> QED
  BY <1>1, <1>2, PTL DEF Spec

\* For any frame: up to two VLAN tags make no difference to parse_packet, a
\* tagged IP packet is not passed unseen, and only a complete
\* neighbour-discovery message is exempt from the rules.
THEOREM TagsHide == Spec => []TagsHideNothing
<1>1. SentOK => TagsHideNothing
  <2> SUFFICES ASSUME SentOK, NEW k \in DOMAIN sent,
                      sent[k].net \in {"v4", "v6"}, sent[k].tags <= 2
               PROVE  /\ parse_packet(sent[k]) = parse_packet([sent[k] EXCEPT !.tags = 0])
                      /\ Outcome(sent[k]) # "passed"
                      /\ Outcome(sent[k]) = "exempt" =>
                           /\ sent[k].net = "v6" /\ sent[k].proto = "icmpv6"
                           /\ sent[k].icmp_type = "ndp" /\ ~LaterFragment(sent[k])
    BY DEF TagsHideNothing
  <2>1. sent[k] \in FrameType
    BY DEF SentOK
  <2> QED
    BY <2>1, TagsOfFrame, OutcomeOfFrame
<1> QED
  BY <1>1, SentIsFrame, PTL

\* For any frame and any bounds on the walk: extension headers either leave the
\* packet what it is without them or get it dropped, and which of the two is
\* decided by their number and their bytes.
THEOREM ExtHeadersHide == Spec => []ExtHeadersHideNothing
<1>1. SentOK => ExtHeadersHideNothing
  <2> SUFFICES ASSUME SentOK, NEW k \in DOMAIN sent,
                      sent[k].net = "v6", sent[k].tags <= 2, sent[k].cut = 3 + MaxExts
               PROVE  LET f == sent[k]
                          n == Before(f)
                          walked == n < MAX_V6_EXT_HDRS /\ ExtBytes(f)[n] <= MAX_V6_EXT_BYTES
                          p == parse_packet(f)
                          bare == parse_packet([f EXCEPT !.exts = <<>>])
                      IN  IF ~walked THEN p = Malformed
                          ELSE IF ~LaterFragment(f) THEN p = bare
                          ELSE /\ p.sport = 0 /\ p.dport = 0
                               /\ n + 1 = Len(f.exts) => p.proto = bare.proto
    BY DEF ExtHeadersHideNothing
  <2>1. sent[k] \in FrameType /\ Len(sent[k].exts) <= MaxExts
    BY DEF SentOK
  <2>2. sent[k].cut >= 3 + Len(sent[k].exts)
    BY <2>1, FrameFields, FramesAssumption
  <2> QED
    BY <2>1, <2>2, ExtsOfFrame
<1> QED
  BY <1>1, SentIsFrame, PTL

\* For any frame, wrapped in any headers: a reply meets the CONNTRACK entry that
\* the packet made.
THEOREM RepliesMeet == Spec => []RepliesMeetTheirFlow
<1>1. SentOK => RepliesMeetTheirFlow
  <2> SUFFICES ASSUME SentOK, NEW k \in DOMAIN sent,
                      parse_packet(sent[k]).res = "ok", ~LaterFragment(sent[k])
               PROVE  reverse_key(parse_packet([Reply(sent[k]) EXCEPT !.cut = 3]))
                        = forward_key(parse_packet(sent[k]))
    BY DEF RepliesMeetTheirFlow
  <2>1. sent[k] \in FrameType
    BY DEF SentOK
  <2> QED
    BY <2>1, ReplyOfFrame
<1> QED
  BY <1>1, SentIsFrame, PTL
=============================================================================
