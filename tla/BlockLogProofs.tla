---------------------------- MODULE BlockLogProofs ---------------------------
(***************************************************************************)
(* Proofs about the block log, for any number of CPUs and keys and any     *)
(* bucket size, refill interval, counter width and ring size.              *)
(*                                                                         *)
(* RateBound is not inductive: it counts tokens taken, while what may be   *)
(* taken next depends on the tokens left and on when they were refilled.   *)
(* Budget adds both.  SilenceIsShort needs that an empty bucket was        *)
(* emptied since its last refill.                                          *)
(***************************************************************************)
EXTENDS BlockLog, FiniteSetTheorems, TLAPS

\* No bucket was refilled in the future.
RefillsArePast == \A c \in Cpus : bucket[c].last_refill <= now

\* An empty bucket was emptied, or lost a refill to the cast, no earlier than
\* it was last refilled, unless it was never refilled at all.
EmptyIsRecent ==
  \A c \in Cpus : bucket[c].tokens = 0 =>
    bucket[c].last_refill = 0 \/ lastTaken[c] >= bucket[c].last_refill

\* Refill intervals begun in a time of length t.
Intervals(t) == (t + LOG_BUCKET_REFILL - 1) \div LOG_BUCKET_REFILL

\* Tokens that CPU c has taken in the watched interval or could take at once.
Spent(c) == watch.taken[c] + bucket[c].tokens

\* They are bounded by what was there when the watch began and what has been
\* refilled since; a bucket used in the interval but not refilled in it was
\* refilled less than one refill interval before.
Budget ==
  /\ watch.since >= -1 /\ watch.since <= now
  /\ \A c \in Cpus :
       /\ watch.since < 0 => watch.taken[c] = 0
       /\ watch.since >= 0 =>
            IF bucket[c].last_refill >= watch.since
            THEN Spent(c) <= LOG_BUCKET_MAX + Intervals(bucket[c].last_refill - watch.since)
            ELSE /\ Spent(c) <= LOG_BUCKET_MAX
                 /\ watch.taken[c] > 0 =>
                      watch.since - bucket[c].last_refill < LOG_BUCKET_REFILL

IInv == TypeOK /\ RefillsArePast /\ EmptyIsRecent /\ Budget /\ EveryHitCountedOnce

-----------------------------------------------------------------------------
(* Arithmetic. *)

\* Division by a positive number, and the remainder.
LEMMA DivBounds ==
  ASSUME NEW a \in Nat, NEW n \in Nat \ {0}
  PROVE  /\ a \div n \in Nat
         /\ n * (a \div n) <= a
         /\ a < n * (a \div n) + n
<1>1. a \div n \in Nat
  OBVIOUS
<1>2. n * (a \div n) <= a
  OBVIOUS
<1>3. a < n * (a \div n) + n
  OBVIOUS
<1> QED  BY <1>1, <1>2, <1>3

\* The truncating cast (as u32) never makes a number larger, and leaves small
\* ones alone.
LEMMA ModBounds ==
  ASSUME NEW a \in Nat, NEW n \in Nat \ {0}
  PROVE  a % n \in Nat /\ a % n <= a /\ (a < n => a % n = a)
<1>1. a % n \in Nat /\ a % n < n
  OBVIOUS
<1>2. a < n => a % n = a
  OBVIOUS
<1> QED  BY <1>1, <1>2

\* Multiplication by a positive number is monotonic and distributes.
LEMMA MulFacts ==
  ASSUME NEW u \in Int, NEW v \in Int, NEW n \in Nat \ {0}
  PROVE  /\ n * u \in Int
         /\ n * u < n * v => u < v
         /\ n * (u + v) = n * u + n * v
<1>1. n * u \in Int
  OBVIOUS
<1>2. n * u < n * v => u < v
  OBVIOUS
<1>3. n * (u + v) = n * u + n * v
  OBVIOUS
<1> QED  BY <1>1, <1>2, <1>3

\* The quotient is the largest number whose product fits: a bound on the
\* product is a bound on the number.
LEMMA DivLeast ==
  ASSUME NEW a \in Nat, NEW n \in Nat \ {0}, NEW q \in Int, n * q <= a
  PROVE  q <= a \div n
<1> DEFINE d == a \div n
<1>1. d \in Nat /\ a < n * d + n
  BY DivBounds
<1> HIDE DEF d
<1>2. n * (d + 1) = n * d + n /\ n * d \in Int /\ n * q \in Int /\ n * (d + 1) \in Int
  <2>1. n * (d + 1) = n * d + n * 1 /\ n * d \in Int
    BY <1>1, MulFacts
  <2> QED  BY <2>1, <1>1, MulFacts
<1>3. n * q < n * (d + 1)
  BY <1>1, <1>2
<1>4. q < d + 1
  BY <1>1, <1>3, MulFacts
<1> QED
  BY <1>1, <1>4 DEF d

\* Whole intervals between refills, on top of intervals begun before, are
\* intervals begun: the remainder that a refill forgets is never credited.
LEMMA IntervalFacts ==
  ASSUME NEW s \in Nat, NEW t \in Nat
  PROVE  /\ Intervals(s) \in Nat
         /\ Intervals(s) + (t \div LOG_BUCKET_REFILL) <= Intervals(s + t)
<1> DEFINE n == LOG_BUCKET_REFILL
           x == (s + n - 1) \div n
           y == t \div n
<1>1. n \in Nat \ {0} /\ s + n - 1 \in Nat
  BY BlockLogAssumption
<1>2. x \in Nat /\ n * x <= s + n - 1 /\ y \in Nat /\ n * y <= t
  BY <1>1, DivBounds
<1>3. n * (x + y) = n * x + n * y /\ n * x \in Int /\ n * y \in Int
  BY <1>1, <1>2, MulFacts
<1>4. n * (x + y) <= (s + t) + n - 1 /\ (s + t) + n - 1 \in Nat
  BY <1>1, <1>2, <1>3
<1> HIDE DEF n, x, y
<1>5. x + y <= ((s + t) + n - 1) \div n
  BY <1>1, <1>2, <1>4, DivLeast
<1> QED
  BY <1>2, <1>5 DEF Intervals, n, x, y

-----------------------------------------------------------------------------
(* Counting events in the ring. *)

InRing(s, k) == {i \in DOMAIN s : s[i] = k}

\* The number of times k occurs in the ring s.
Count(s, k) == Cardinality(InRing(s, k))

\* EveryHitCountedOnce counts just that.
LEMMA CountFacts ==
  ASSUME NEW s \in Seq(Keys), NEW k \in Keys
  PROVE  /\ Quantify(DOMAIN s, LAMBDA i : s[i] = k) = Count(s, k)
         /\ IsFiniteSet(InRing(s, k)) /\ Count(s, k) \in Nat
<1>1. Quantify(DOMAIN s, LAMBDA i : s[i] = k) = Count(s, k)
  BY DEF Quantify, Count, InRing
<1>2. IsFiniteSet(DOMAIN s)
  BY FS_Interval
<1>3. IsFiniteSet(InRing(s, k))
  BY <1>2, FS_Subset DEF InRing
<1> QED  BY <1>1, <1>3, FS_CardinalityType DEF Count

\* A submission adds one to the count of its key.
LEMMA CountAppend ==
  ASSUME NEW s \in Seq(Keys), NEW j \in Keys, NEW k \in Keys
  PROVE  Count(Append(s, j), k) = IF j = k THEN Count(s, k) + 1 ELSE Count(s, k)
<1>1. InRing(Append(s, j), k) = IF j = k THEN InRing(s, k) \cup {Len(s) + 1} ELSE InRing(s, k)
  BY DEF InRing
<1>2. Len(s) + 1 \notin InRing(s, k)
  BY DEF InRing
<1>3. IsFiniteSet(InRing(s, k))
  BY CountFacts
<1>4. Cardinality(InRing(s, k) \cup {Len(s) + 1}) = Cardinality(InRing(s, k)) + 1
  BY <1>2, <1>3, FS_AddElement
<1> QED
  BY <1>1, <1>4 DEF Count

\* Consuming the head takes one from the count of its key.
LEMMA CountTail ==
  ASSUME NEW s \in Seq(Keys), s # <<>>, NEW k \in Keys
  PROVE  Count(s, k) = IF Head(s) = k THEN Count(Tail(s), k) + 1 ELSE Count(Tail(s), k)
<1> DEFINE S == InRing(s, k)
           T == InRing(Tail(s), k)
           f == [i \in T |-> i + 1]
<1>1. /\ Tail(s) \in Seq(Keys) /\ Len(s) \in Nat \ {0} /\ Len(Tail(s)) = Len(s) - 1
      /\ \A i \in 1..(Len(s) - 1) : Tail(s)[i] = s[i + 1]
      /\ Head(s) = s[1]
  OBVIOUS
<1>2. /\ T = {i \in 1..(Len(s) - 1) : s[i + 1] = k}
      /\ S = {i \in 1..Len(s) : s[i] = k}
  BY <1>1 DEF InRing
<1>3. IsFiniteSet(T) /\ IsFiniteSet(S)
  BY <1>1, CountFacts
<1>4. f \in [T -> S \ {1}]
  BY <1>1, <1>2
<1>5. \A a, b \in T : f[a] = f[b] => a = b
  BY <1>2
<1>6. \A y \in S \ {1} : \E x \in T : f[x] = y
  <2> TAKE y \in S \ {1}
  <2>1. y \in 2..Len(s) /\ s[y] = k
    BY <1>1, <1>2
  <2>2. y - 1 \in 1..(Len(s) - 1) /\ (y - 1) + 1 = y
    BY <1>1, <2>1
  <2>3. y - 1 \in T
    BY <1>2, <2>1, <2>2
  <2> QED  BY <2>2, <2>3
<1> HIDE DEF S, T, f
<1>7. ExistsBijection(T, S \ {1})
  BY <1>4, <1>5, <1>6 DEF ExistsBijection, Bijection, Injection, Surjection, IsInjective
<1>8. Cardinality(S \ {1}) = Cardinality(T)
  BY <1>3, <1>7, FS_Bijection
<1>9. Cardinality(S \ {1}) = IF 1 \in S THEN Cardinality(S) - 1 ELSE Cardinality(S)
  BY <1>3, FS_RemoveElement
<1>10. 1 \in S <=> Head(s) = k
  BY <1>1, <1>2
<1>11. Cardinality(S) \in Nat /\ Cardinality(T) \in Nat
  BY <1>3, FS_CardinalityType
<1> QED
  BY <1>8, <1>9, <1>10, <1>11 DEF Count, S, T

-----------------------------------------------------------------------------
(* The bucket of one CPU. *)

Bucket == [tokens : 0..LOG_BUCKET_MAX, last_refill : 0..MaxTime]

\* try_take_token: either the last refill is recent and the bucket is left as
\* it is, or it is refilled, by no more than the whole intervals since then, and
\* by at least one token unless the cast truncated.
LEMMA RefillFacts ==
  ASSUME NEW b \in Bucket, now \in Uptime..MaxTime, b.last_refill <= now
  PROVE  /\ Refill(b) \in Bucket
         /\ now - b.last_refill < LOG_BUCKET_REFILL => Refill(b) = b
         /\ now - b.last_refill >= LOG_BUCKET_REFILL =>
              /\ Refill(b).last_refill = now
              /\ Refill(b).tokens
                   <= b.tokens + ((now - b.last_refill) \div LOG_BUCKET_REFILL)
              /\ ~Truncated(b) => Refill(b).tokens > 0
<1> DEFINE e == now - b.last_refill
           q == e \div LOG_BUCKET_REFILL
           m == q % U32
<1>1. /\ e \in Nat /\ now \in 0..MaxTime /\ b.tokens \in Nat /\ b.tokens <= LOG_BUCKET_MAX
      /\ LOG_BUCKET_REFILL \in Nat \ {0} /\ U32 \in Nat \ {0} /\ LOG_BUCKET_MAX \in Nat \ {0}
  BY BlockLogAssumption DEF Bucket
<1>2. q \in Nat
  BY <1>1, DivBounds
<1>3. m \in Nat /\ m <= q /\ (q < U32 => m = q)
  BY <1>1, <1>2, ModBounds
<1>4. e >= LOG_BUCKET_REFILL => q >= 1
  BY <1>1, DivLeast
<1>5. Truncated(b) <=> q >= U32
  BY DEF Truncated
<1>6. Refill(b) = IF e < LOG_BUCKET_REFILL THEN b
                  ELSE [tokens |-> AtMost(b.tokens + m, LOG_BUCKET_MAX), last_refill |-> now]
  BY DEF Refill
<1> HIDE DEF e, q, m
<1>7. /\ AtMost(b.tokens + m, LOG_BUCKET_MAX) \in 0..LOG_BUCKET_MAX
      /\ AtMost(b.tokens + m, LOG_BUCKET_MAX) <= b.tokens + q
      /\ m >= 1 => AtMost(b.tokens + m, LOG_BUCKET_MAX) > 0
  BY <1>1, <1>2, <1>3 DEF AtMost
<1>8. CASE e < LOG_BUCKET_REFILL
  BY <1>1, <1>6, <1>8 DEF e
<1>9. CASE e >= LOG_BUCKET_REFILL
  <2> DEFINE r == [tokens |-> AtMost(b.tokens + m, LOG_BUCKET_MAX), last_refill |-> now]
  <2>1. Refill(b) = r
    BY <1>1, <1>6, <1>9
  <2>2. r \in Bucket
    BY <1>1, <1>7 DEF Bucket
  <2>3. ~Truncated(b) => r.tokens > 0
    BY <1>1, <1>2, <1>3, <1>4, <1>5, <1>7, <1>9
  <2> QED
    BY <1>1, <1>7, <1>9, <2>1, <2>2, <2>3 DEF e, q
<1> QED
  BY <1>1, <1>8, <1>9

\* What emit_drop does to the bucket of its CPU, and to the history of it.
LEMMA EmitFacts ==
  ASSUME IInv, NEW c \in Cpus, NEW k \in Keys, emit_drop(c, k)
  PROVE  LET b == Refill(bucket[c])
         IN  /\ b \in Bucket /\ bucket[c] \in Bucket
             /\ bucket' \in [Cpus -> Bucket] /\ lastTaken' \in [Cpus -> Int]
             /\ watch' \in [since : Int, taken : [Cpus -> Nat]]
             /\ bucket'[c].last_refill = b.last_refill
             /\ b.tokens > 0 => bucket'[c].tokens = b.tokens - 1
             /\ b.tokens = 0 => bucket'[c].tokens = 0
             /\ b.tokens > 0 \/ Truncated(bucket[c]) => lastTaken'[c] = now
             /\ b.tokens = 0 /\ ~Truncated(bucket[c]) => lastTaken'[c] = lastTaken[c]
             /\ watch'.since = watch.since
             /\ b.tokens > 0 /\ watch.since >= 0 => watch'.taken[c] = watch.taken[c] + 1
             /\ b.tokens = 0 \/ watch.since < 0 => watch'.taken[c] = watch.taken[c]
             /\ \A x \in Cpus \ {c} : /\ bucket'[x] = bucket[x]
                                      /\ lastTaken'[x] = lastTaken[x]
                                      /\ watch'.taken[x] = watch.taken[x]
<1> DEFINE b == Refill(bucket[c])
<1>1. bucket \in [Cpus -> Bucket] /\ lastTaken \in [Cpus -> Int] /\ now \in Int
      /\ watch \in [since : Int, taken : [Cpus -> Nat]]
  BY BlockLogAssumption DEF IInv, TypeOK, Bucket
<1>2. b \in Bucket
  BY <1>1, RefillFacts DEF IInv, TypeOK, RefillsArePast
<1>t. b.tokens \in Nat
  BY <1>2, BlockLogAssumption DEF Bucket
<1>3. /\ bucket' = [bucket EXCEPT ![c] = IF b.tokens > 0
                                         THEN [b EXCEPT !.tokens = @ - 1] ELSE b]
      /\ lastTaken' = IF b.tokens > 0 \/ Truncated(bucket[c])
                      THEN [lastTaken EXCEPT ![c] = now] ELSE lastTaken
      /\ watch' = IF b.tokens > 0 /\ watch.since >= 0
                  THEN [watch EXCEPT !.taken[c] = @ + 1] ELSE watch
  BY DEF emit_drop
<1> HIDE DEF b
<1>4. [b EXCEPT !.tokens = @ - 1] \in Bucket \/ b.tokens = 0
  BY <1>2, BlockLogAssumption DEF Bucket
<1>5. /\ bucket' \in [Cpus -> Bucket]
      /\ bucket'[c].last_refill = b.last_refill
      /\ b.tokens > 0 => bucket'[c].tokens = b.tokens - 1
      /\ b.tokens = 0 => bucket'[c].tokens = 0
      /\ \A x \in Cpus \ {c} : bucket'[x] = bucket[x]
  BY <1>1, <1>2, <1>3, <1>4, <1>t DEF Bucket
<1>6. /\ lastTaken' \in [Cpus -> Int]
      /\ b.tokens > 0 \/ Truncated(bucket[c]) => lastTaken'[c] = now
      /\ b.tokens = 0 /\ ~Truncated(bucket[c]) => lastTaken'[c] = lastTaken[c]
      /\ \A x \in Cpus \ {c} : lastTaken'[x] = lastTaken[x]
  BY <1>1, <1>3, <1>t
<1>7. /\ watch' \in [since : Int, taken : [Cpus -> Nat]]
      /\ watch'.since = watch.since
      /\ b.tokens > 0 /\ watch.since >= 0 => watch'.taken[c] = watch.taken[c] + 1
      /\ b.tokens = 0 \/ watch.since < 0 => watch'.taken[c] = watch.taken[c]
      /\ \A x \in Cpus \ {c} : watch'.taken[x] = watch.taken[x]
  <2>1. CASE b.tokens > 0 /\ watch.since >= 0
    <3>1. PICK s \in Int, t \in [Cpus -> Nat] : watch = [since |-> s, taken |-> t]
      BY <1>1
    <3>2. watch' = [since |-> s, taken |-> [t EXCEPT ![c] = t[c] + 1]]
      BY <1>3, <2>1, <3>1
    <3>3. [t EXCEPT ![c] = t[c] + 1] \in [Cpus -> Nat]
      OBVIOUS
    <3> QED  BY <1>t, <2>1, <3>1, <3>2, <3>3
  <2>2. CASE ~(b.tokens > 0 /\ watch.since >= 0)
    BY <1>1, <1>3, <1>t, <2>2
  <2> QED  BY <2>1, <2>2
<1> QED
  BY <1>1, <1>2, <1>5, <1>6, <1>7 DEF b

-----------------------------------------------------------------------------
(* The inductive step. *)

\* The initial state: empty buckets that were never refilled, an empty ring.
LEMMA InitIInv == Init => IInv
<1> SUFFICES ASSUME Init PROVE IInv
  OBVIOUS
<1> USE BlockLogAssumption
<1>1. TypeOK
  <2>1. bucket \in [Cpus -> [tokens : 0..LOG_BUCKET_MAX, last_refill : 0..MaxTime]]
    BY DEF Init
  <2>2. EVENTS \in Seq(Keys) /\ Len(EVENTS) <= RingMax
    BY DEF Init
  <2>3. -LOG_BUCKET_REFILL \in Int
    OBVIOUS
  <2>4. lastTaken \in [Cpus -> Int] /\ watch \in [since : Int, taken : [Cpus -> Nat]]
    BY <2>3 DEF Init
  <2>5. drops \in [Cpus -> 0..MaxDrops] /\ now \in Uptime..MaxTime
    BY DEF Init
  <2> QED  BY <2>1, <2>2, <2>4, <2>5 DEF Init, TypeOK
<1>2. RefillsArePast /\ EmptyIsRecent
  BY DEF Init, RefillsArePast, EmptyIsRecent
<1>3. Budget
  BY DEF Init, Budget
<1>4. EveryHitCountedOnce
  <2> SUFFICES ASSUME NEW k \in Keys
               PROVE  submitted[k] = Quantify(DOMAIN EVENTS, LAMBDA i : EVENTS[i] = k)
                                       + entries[k] + logged[k]
    BY DEF EveryHitCountedOnce
  <2>1. EVENTS = <<>> /\ EVENTS \in Seq(Keys)
    BY DEF Init
  <2>2. InRing(EVENTS, k) = {}
    BY <2>1 DEF InRing
  <2>3. Quantify(DOMAIN EVENTS, LAMBDA i : EVENTS[i] = k) = 0
    BY <2>1, <2>2, CountFacts, FS_EmptySet DEF Count
  <2> QED  BY <2>3 DEF Init
<1> QED
  BY <1>1, <1>2, <1>3, <1>4 DEF IInv

\* A blocked packet, with a token or without, preserves the budget of its CPU.
LEMMA EmitBudget ==
  ASSUME IInv, NEW c \in Cpus, NEW k \in Keys, emit_drop(c, k)
  PROVE  Budget' /\ EmptyIsRecent' /\ RefillsArePast'
<1> DEFINE b == Refill(bucket[c])
           o == bucket[c]
           R == LOG_BUCKET_REFILL
<1>1. /\ now' = now /\ now \in Nat /\ now \in Uptime..MaxTime
      /\ R \in Nat \ {0} /\ LOG_BUCKET_MAX \in Nat
  BY BlockLogAssumption DEF IInv, TypeOK, emit_drop
<1>2. /\ b \in Bucket /\ o \in Bucket
      /\ bucket' \in [Cpus -> Bucket] /\ lastTaken' \in [Cpus -> Int]
      /\ watch' \in [since : Int, taken : [Cpus -> Nat]]
      /\ bucket'[c].last_refill = b.last_refill
      /\ b.tokens > 0 => bucket'[c].tokens = b.tokens - 1
      /\ b.tokens = 0 => bucket'[c].tokens = 0
      /\ b.tokens > 0 \/ Truncated(o) => lastTaken'[c] = now
      /\ b.tokens = 0 /\ ~Truncated(o) => lastTaken'[c] = lastTaken[c]
      /\ watch'.since = watch.since
      /\ b.tokens > 0 /\ watch.since >= 0 => watch'.taken[c] = watch.taken[c] + 1
      /\ b.tokens = 0 \/ watch.since < 0 => watch'.taken[c] = watch.taken[c]
      /\ \A x \in Cpus \ {c} : /\ bucket'[x] = bucket[x]
                               /\ lastTaken'[x] = lastTaken[x]
                               /\ watch'.taken[x] = watch.taken[x]
  BY EmitFacts
<1>3. /\ now - o.last_refill < R => b = o
      /\ now - o.last_refill >= R =>
           /\ b.last_refill = now
           /\ b.tokens <= o.tokens + ((now - o.last_refill) \div R)
           /\ ~Truncated(o) => b.tokens > 0
  BY <1>1, <1>2, RefillFacts DEF IInv, RefillsArePast
<1>4. /\ o.tokens \in Nat /\ o.last_refill \in Nat /\ o.last_refill <= now
      /\ b.tokens \in Nat /\ b.tokens <= LOG_BUCKET_MAX /\ b.last_refill \in Nat
      /\ watch.since \in Int /\ watch.taken[c] \in Nat /\ watch.since <= now
      /\ lastTaken[c] \in Int
  BY <1>1, <1>2, BlockLogAssumption DEF Bucket, IInv, TypeOK, RefillsArePast, Budget
<1>5. /\ watch.since < 0 => watch.taken[c] = 0
      /\ watch.since >= 0 =>
           IF o.last_refill >= watch.since
           THEN watch.taken[c] + o.tokens
                  <= LOG_BUCKET_MAX + Intervals(o.last_refill - watch.since)
           ELSE /\ watch.taken[c] + o.tokens <= LOG_BUCKET_MAX
                /\ watch.taken[c] > 0 => watch.since - o.last_refill < R
  BY DEF IInv, Budget, Spent
<1>6. EmptyIsRecent /\ RefillsArePast /\ Budget
  BY DEF IInv
<1> HIDE DEF b, o, R
<1>7. RefillsArePast'
  BY <1>1, <1>2, <1>3, <1>4, <1>6 DEF RefillsArePast, o
<1>8. EmptyIsRecent'
  <2>1. bucket'[c].tokens = 0 => bucket'[c].last_refill = 0
                                   \/ lastTaken'[c] >= bucket'[c].last_refill
    <3>1. CASE b.tokens > 0 \/ Truncated(o)
      BY <1>1, <1>2, <1>3, <1>4, <3>1
    <3>2. CASE b.tokens = 0 /\ ~Truncated(o)
      <4>1. b = o
        BY <1>1, <1>3, <1>4, <3>2
      <4> QED  BY <1>2, <1>6, <3>2, <4>1 DEF EmptyIsRecent, o
    <3> QED  BY <1>4, <3>1, <3>2
  <2> QED
    BY <1>2, <1>6, <2>1 DEF EmptyIsRecent
<1>9. watch.since >= 0 =>
        IF b.last_refill >= watch.since
        THEN watch.taken[c] + b.tokens
               <= LOG_BUCKET_MAX + Intervals(b.last_refill - watch.since)
        ELSE /\ watch.taken[c] + b.tokens <= LOG_BUCKET_MAX
             /\ watch.since - b.last_refill < R
  <2> SUFFICES ASSUME watch.since >= 0
               PROVE  IF b.last_refill >= watch.since
                      THEN watch.taken[c] + b.tokens
                             <= LOG_BUCKET_MAX + Intervals(b.last_refill - watch.since)
                      ELSE /\ watch.taken[c] + b.tokens <= LOG_BUCKET_MAX
                           /\ watch.since - b.last_refill < R
    OBVIOUS
  <2>1. CASE now - o.last_refill < R
    BY <1>1, <1>3, <1>4, <1>5, <2>1
  <2>2. CASE now - o.last_refill >= R
    <3>1. b.last_refill = now /\ b.tokens <= o.tokens + ((now - o.last_refill) \div R)
      BY <1>3, <2>2
    <3>2. Intervals(now - watch.since) \in Nat /\ (now - o.last_refill) \div R \in Nat
      BY <1>1, <1>4, IntervalFacts, DivBounds
    <3>3. CASE o.last_refill >= watch.since
      <4>0. o.last_refill - watch.since \in Nat /\ now - o.last_refill \in Nat
        BY <1>1, <1>4, <3>3
      <4>1. Intervals(o.last_refill - watch.since) + ((now - o.last_refill) \div R)
              <= Intervals((o.last_refill - watch.since) + (now - o.last_refill))
        BY <4>0, IntervalFacts DEF R
      <4>2. (o.last_refill - watch.since) + (now - o.last_refill) = now - watch.since
        BY <1>1, <1>4
      <4>3. Intervals(o.last_refill - watch.since) \in Nat
        BY <4>0, IntervalFacts
      <4> QED
        BY <1>1, <1>4, <1>5, <3>1, <3>2, <3>3, <4>1, <4>2, <4>3
    <3>4. CASE o.last_refill < watch.since /\ watch.taken[c] = 0
      BY <1>1, <1>4, <3>1, <3>2, <3>4
    <3>5. CASE o.last_refill < watch.since /\ watch.taken[c] > 0
      <4> DEFINE q == (now - o.last_refill) \div R
                 a == now - watch.since + R - 1
      <4>1. now - o.last_refill <= a /\ a \in Nat /\ now - o.last_refill \in Nat
        BY <1>1, <1>4, <1>5, <3>5
      <4>2. R * q <= now - o.last_refill /\ R * q \in Int /\ q \in Int
        BY <1>1, <3>2, <4>1, DivBounds, MulFacts
      <4>4. a \div R = Intervals(now - watch.since)
        BY DEF Intervals, R
      <4>5. b.tokens <= o.tokens + q
        BY <3>1
      <4> HIDE DEF q, a
      <4>6. R * q <= a
        BY <1>1, <1>4, <4>1, <4>2
      <4>3. q <= a \div R
        BY <1>1, <4>1, <4>2, <4>6, DivLeast
      <4> QED
        BY <1>1, <1>4, <1>5, <3>1, <3>2, <3>5, <4>2, <4>3, <4>4, <4>5
    <3> QED  BY <1>4, <3>3, <3>4, <3>5
  <2> QED  BY <1>1, <1>4, <2>1, <2>2
<1>10. watch.since >= 0 => watch'.taken[c] + bucket'[c].tokens = watch.taken[c] + b.tokens
  BY <1>2, <1>4
<1>11. Budget'
  <2>1. /\ watch.since < 0 => watch'.taken[c] = 0
        /\ watch.since >= 0 =>
             IF bucket'[c].last_refill >= watch.since
             THEN watch'.taken[c] + bucket'[c].tokens
                    <= LOG_BUCKET_MAX + Intervals(bucket'[c].last_refill - watch.since)
             ELSE /\ watch'.taken[c] + bucket'[c].tokens <= LOG_BUCKET_MAX
                  /\ watch'.taken[c] > 0 =>
                       watch.since - bucket'[c].last_refill < R
    BY <1>2, <1>4, <1>5, <1>9, <1>10
  <2> QED
    BY <1>1, <1>2, <1>6, <2>1 DEF Budget, Spent, R
<1> QED
  BY <1>7, <1>8, <1>11

\* emit_drop preserves the inductive invariant: a token that is taken although
\* the ring is full submits no event.
LEMMA EmitIInv ==
  ASSUME IInv, NEW c \in Cpus, NEW k \in Keys, emit_drop(c, k)
  PROVE  IInv'
<1>1. /\ EVENTS \in Seq(Keys) /\ Len(EVENTS) <= RingMax /\ TypeOK
      /\ submitted \in [Keys -> Nat] /\ drops \in [Cpus -> 0..MaxDrops]
  BY DEF IInv, TypeOK
<1>2. \A j \in Keys : submitted[j] = Count(EVENTS, j) + entries[j] + logged[j]
  BY DEF IInv, EveryHitCountedOnce, Quantify, Count, InRing
<1>3. /\ EVENTS' \in Seq(Keys) /\ Len(EVENTS') <= RingMax /\ signal' \in BOOLEAN
      /\ submitted' \in [Keys -> Nat]
      /\ \A j \in Keys : submitted'[j] = Count(EVENTS', j) + entries[j] + logged[j]
  <2>1. CASE UNCHANGED <<EVENTS, submitted, signal>>
    BY <1>1, <1>2, <2>1 DEF TypeOK
  <2>2. CASE Len(EVENTS) < RingMax /\ Submit(k)
    <3>1. EVENTS' = Append(EVENTS, k) /\ submitted' = [submitted EXCEPT ![k] = @ + 1]
      BY <2>2 DEF Submit
    <3>2. EVENTS' \in Seq(Keys) /\ Len(EVENTS') <= RingMax
      BY <1>1, <2>2, <3>1, BlockLogAssumption
    <3>3. signal' \in BOOLEAN
      BY <2>2 DEF Submit
    <3>4. ASSUME NEW j \in Keys
          PROVE  submitted'[j] = Count(EVENTS', j) + entries[j] + logged[j]
      <4>1. Count(EVENTS', j) = IF k = j THEN Count(EVENTS, j) + 1 ELSE Count(EVENTS, j)
        BY <1>1, <3>1, CountAppend
      <4>2. Count(EVENTS, j) \in Nat /\ entries[j] \in Nat /\ logged[j] \in Nat
        BY <1>1, CountFacts DEF TypeOK
      <4> QED
        BY <1>1, <1>2, <3>1, <4>1, <4>2
    <3> QED
      BY <1>1, <3>1, <3>2, <3>3, <3>4
  <2> QED
    BY <2>1, <2>2 DEF emit_drop
<1>4. /\ bucket' \in [Cpus -> Bucket] /\ lastTaken' \in [Cpus -> Int]
      /\ watch' \in [since : Int, taken : [Cpus -> Nat]]
  BY EmitFacts
<1>5. drops' \in [Cpus -> 0..MaxDrops]
  BY <1>1, BlockLogAssumption DEF emit_drop
<1>6. TypeOK'
  BY <1>1, <1>3, <1>4, <1>5 DEF TypeOK, Bucket, emit_drop, task
<1>7. EveryHitCountedOnce'
  BY <1>3 DEF EveryHitCountedOnce, Quantify, Count, InRing, emit_drop, task
<1> QED
  BY <1>6, <1>7, EmitBudget DEF IInv

\* next() and record: an event moves from the ring into the window, and is
\* counted there under its key.
LEMMA DrainIInv ==
  ASSUME IInv, DrainItem
  PROVE  IInv'
<1> DEFINE h == Head(EVENTS)
<1>1. /\ EVENTS \in Seq(Keys) /\ EVENTS # <<>> /\ Len(EVENTS) <= RingMax /\ TypeOK
      /\ entries \in [Keys -> Nat]
  BY DEF IInv, TypeOK, DrainItem
<1>2. h \in Keys /\ EVENTS' = Tail(EVENTS) /\ EVENTS' \in Seq(Keys) /\ Len(EVENTS') <= RingMax
  BY <1>1, BlockLogAssumption DEF DrainItem
<1>3. entries' = [entries EXCEPT ![h] = @ + 1] /\ entries' \in [Keys -> Nat]
  BY <1>1, <1>2 DEF DrainItem, record
<1>4. TypeOK'
  BY <1>1, <1>2, <1>3 DEF TypeOK, DrainItem, path
<1>5. \A j \in Keys : submitted[j] = Count(EVENTS, j) + entries[j] + logged[j]
  BY DEF IInv, EveryHitCountedOnce, Quantify, Count, InRing
<1> HIDE DEF h
<1>6. ASSUME NEW j \in Keys
      PROVE  submitted[j] = Count(EVENTS', j) + entries'[j] + logged[j]
  <2>1. Count(EVENTS, j) = IF h = j THEN Count(EVENTS', j) + 1 ELSE Count(EVENTS', j)
    BY <1>1, <1>2, CountTail DEF h
  <2>2. Count(EVENTS', j) \in Nat /\ entries[j] \in Nat /\ logged[j] \in Nat
    BY <1>1, <1>2, CountFacts DEF TypeOK
  <2> QED
    BY <1>1, <1>2, <1>3, <1>5, <2>1, <2>2
<1>7. EveryHitCountedOnce'
  BY <1>6 DEF EveryHitCountedOnce, Quantify, Count, InRing, DrainItem, path
<1>8. RefillsArePast' /\ EmptyIsRecent' /\ Budget'
  BY DEF IInv, RefillsArePast, EmptyIsRecent, Budget, Spent, DrainItem, path
<1> QED
  BY <1>4, <1>7, <1>8 DEF IInv

\* Every step of the data path, the clock and the daemon preserves it.
LEMMA NextIInv == IInv /\ [Next]_vars => IInv'
<1> SUFFICES ASSUME IInv, [Next]_vars PROVE IInv'
  OBVIOUS
<1>n. now \in Nat /\ now \in Uptime..MaxTime /\ Uptime \in Nat /\ MaxTime \in Nat
  BY BlockLogAssumption DEF IInv, TypeOK
<1>1. ASSUME UNCHANGED <<EVENTS, submitted, entries, logged>>
      PROVE  EveryHitCountedOnce'
  BY <1>1 DEF IInv, EveryHitCountedOnce, Quantify
<1>2. ASSUME UNCHANGED <<now, bucket, lastTaken, watch>>
      PROVE  RefillsArePast' /\ EmptyIsRecent' /\ Budget'
  BY <1>2 DEF IInv, RefillsArePast, EmptyIsRecent, Budget, Spent
<1>3. CASE SetLogging
  <2>1. TypeOK'
    BY <1>3 DEF SetLogging, task, IInv, TypeOK
  <2> QED  BY <1>1, <1>2, <1>3, <2>1 DEF SetLogging, task, IInv
<1>4. CASE Tick
  <2>1. now' = now + 1 /\ now' \in Uptime..MaxTime /\ UNCHANGED <<bucket, lastTaken, watch>>
    BY <1>4, <1>n DEF Tick, path
  <2>2. TypeOK'
    BY <1>4, <2>1 DEF Tick, path, task, IInv, TypeOK
  <2>3. RefillsArePast'
    <3>1. \A c \in Cpus : bucket[c].last_refill \in Nat
      BY BlockLogAssumption DEF IInv, TypeOK
    <3> QED  BY <1>n, <2>1, <3>1 DEF IInv, RefillsArePast
  <2>4. EmptyIsRecent' /\ Budget'
    <3>1. watch.since \in Int
      BY DEF IInv, TypeOK
    <3> QED  BY <1>n, <2>1, <3>1 DEF IInv, EmptyIsRecent, Budget, Spent
  <2> QED  BY <1>1, <1>4, <2>2, <2>3, <2>4 DEF Tick, path, task, IInv
<1>5. CASE StartWatch
  <2>1. PICK s \in Int, t \in [Cpus -> Nat] : watch = [since |-> s, taken |-> t]
    BY DEF IInv, TypeOK
  <2>2. watch' = [since |-> now, taken |-> t] /\ s < 0
    BY <1>5, <2>1 DEF StartWatch
  <2>3. watch' \in [since : Int, taken : [Cpus -> Nat]]
    BY <1>n, <2>2
  <2>4. TypeOK'
    BY <1>5, <2>3 DEF StartWatch, task, IInv, TypeOK
  <2>5. \A c \in Cpus : t[c] = 0 /\ watch'.taken[c] = 0
    BY <2>1, <2>2 DEF IInv, Budget
  <2>6. \A c \in Cpus : /\ bucket'[c] = bucket[c] /\ bucket[c].tokens \in Nat
                        /\ bucket[c].last_refill \in Nat
                        /\ bucket[c].tokens <= LOG_BUCKET_MAX
                        /\ bucket[c].last_refill <= now
    BY <1>5, BlockLogAssumption DEF StartWatch, IInv, TypeOK, RefillsArePast
  <2>7. Intervals(0) \in Nat
    BY IntervalFacts
  <2>8. Budget'
    <3>1. watch'.since = now /\ now' = now
      BY <1>5, <2>2 DEF StartWatch
    <3>2. ASSUME NEW c \in Cpus
          PROVE  IF bucket'[c].last_refill >= now
                 THEN Spent(c)' <= LOG_BUCKET_MAX + Intervals(bucket'[c].last_refill - now)
                 ELSE Spent(c)' <= LOG_BUCKET_MAX
      <4>1. Spent(c)' = bucket[c].tokens
        BY <2>5, <2>6 DEF Spent
      <4>2. bucket'[c].last_refill >= now => bucket'[c].last_refill - now = 0
        BY <1>n, <2>6
      <4> QED  BY <2>6, <2>7, <4>1, <4>2, BlockLogAssumption
    <3> QED  BY <1>n, <2>5, <3>1, <3>2 DEF Budget
  <2>9. RefillsArePast' /\ EmptyIsRecent'
    BY <1>5 DEF StartWatch, IInv, RefillsArePast, EmptyIsRecent
  <2> QED  BY <1>1, <1>5, <2>4, <2>8, <2>9 DEF StartWatch, task, IInv
<1>6. CASE Driver
  <2>1. TypeOK'
    BY <1>6 DEF Driver, path, IInv, TypeOK
  <2> QED  BY <1>1, <1>2, <1>6, <2>1 DEF Driver, path, IInv
<1>7. CASE Readable
  <2>1. TypeOK'
    BY <1>7 DEF Readable, path, IInv, TypeOK
  <2> QED  BY <1>1, <1>2, <1>7, <2>1 DEF Readable, path, IInv
<1>8. CASE DrainEnd
  <2>1. TypeOK'
    BY <1>8 DEF DrainEnd, path, IInv, TypeOK
  <2> QED  BY <1>1, <1>2, <1>8, <2>1 DEF DrainEnd, path, IInv
<1>9. CASE clear_ready
  <2>1. TypeOK'
    BY <1>9 DEF clear_ready, path, IInv, TypeOK
  <2> QED  BY <1>1, <1>2, <1>9, <2>1 DEF clear_ready, path, IInv
<1>10. CASE flush
  <2>1. /\ entries \in [Keys -> Nat] /\ logged \in [Keys -> Nat]
        /\ logged' = [k \in Keys |-> logged[k] + entries[k]]
        /\ entries' = [k \in Keys |-> 0]
        /\ EVENTS' = EVENTS /\ EVENTS \in Seq(Keys) /\ submitted' = submitted
    BY <1>10 DEF flush, path, IInv, TypeOK
  <2>2. entries' \in [Keys -> Nat] /\ logged' \in [Keys -> Nat]
    BY <2>1
  <2>3. TypeOK'
    BY <1>10, <2>2 DEF flush, path, IInv, TypeOK
  <2>4. \A k \in Keys : submitted[k] = Count(EVENTS, k) + entries[k] + logged[k]
    BY DEF IInv, EveryHitCountedOnce, Quantify, Count, InRing
  <2>5. \A k \in Keys : Count(EVENTS, k) \in Nat
    BY <2>1, CountFacts
  <2>6. \A k \in Keys : submitted'[k] = Count(EVENTS', k) + entries'[k] + logged'[k]
    BY <2>1, <2>4, <2>5
  <2>7. EveryHitCountedOnce'
    BY <2>6 DEF EveryHitCountedOnce, Quantify, Count, InRing
  <2> QED  BY <1>2, <1>10, <2>3, <2>7 DEF flush, path, IInv
<1>11. CASE UNCHANGED vars
  <2>1. TypeOK'
    BY <1>11 DEF vars, path, task, IInv, TypeOK
  <2> QED  BY <1>1, <1>2, <1>11, <2>1 DEF vars, path, task, IInv
<1> QED
  BY <1>3, <1>4, <1>5, <1>6, <1>7, <1>8, <1>9, <1>10, <1>11, EmitIInv, DrainIInv
  DEF Next, Drain

-----------------------------------------------------------------------------
(* The theorems. *)

\* The inductive invariant holds in every state the log can reach.
THEOREM Invariance == Spec => []IInv
BY InitIInv, NextIInv, PTL DEF Spec

\* Buckets, ring and window stay within their bounds.
THEOREM TypeCorrect == Spec => []TypeOK
<1>1. IInv => TypeOK
  BY DEF IInv
<1> QED  BY <1>1, Invariance, PTL

\* emit_drop, drain_events, record and flush between them lose no event that
\* was submitted and count none twice.
THEOREM CountedExactlyOnce == Spec => []EveryHitCountedOnce
<1>1. IInv => EveryHitCountedOnce
  BY DEF IInv
<1> QED  BY <1>1, Invariance, PTL

\* try_take_token: over any interval a CPU takes no more tokens than a full
\* bucket and one for every refill interval begun in it, for every bucket size,
\* refill interval and width of the counter.
THEOREM RateIsBounded == Spec => []RateBound
<1>1. IInv => RateBound
  <2> SUFFICES ASSUME IInv, watch.since >= 0, NEW c \in Cpus
               PROVE  watch.taken[c] <= LOG_BUCKET_MAX + Intervals(now - watch.since)
    BY DEF RateBound, Intervals
  <2> DEFINE l == bucket[c].last_refill
  <2>1. /\ now \in Nat /\ l \in Nat /\ l <= now /\ bucket[c].tokens \in Nat
        /\ watch.since \in Int /\ watch.since <= now /\ watch.taken[c] \in Nat
        /\ LOG_BUCKET_MAX \in Nat /\ LOG_BUCKET_REFILL \in Nat \ {0}
    BY BlockLogAssumption DEF IInv, TypeOK, RefillsArePast, Budget
  <2>2. Intervals(now - watch.since) \in Nat
    <3>1. now - watch.since \in Nat
      BY <2>1
    <3> QED  BY <3>1, IntervalFacts
  <2>3. CASE l < watch.since
    BY <2>1, <2>2, <2>3 DEF IInv, Budget, Spent
  <2>4. CASE l >= watch.since
    <3>1. l - watch.since \in Nat /\ now - l \in Nat
      BY <2>1, <2>4
    <3>2. Intervals(l - watch.since) + ((now - l) \div LOG_BUCKET_REFILL)
            <= Intervals((l - watch.since) + (now - l))
      BY <3>1, IntervalFacts
    <3>3. (l - watch.since) + (now - l) = now - watch.since
      BY <2>1
    <3>4. Intervals(l - watch.since) \in Nat /\ (now - l) \div LOG_BUCKET_REFILL \in Nat
      BY <2>1, <3>1, IntervalFacts, DivBounds
    <3>5. watch.taken[c] + bucket[c].tokens <= LOG_BUCKET_MAX + Intervals(l - watch.since)
      BY <2>4 DEF IInv, Budget, Spent
    <3> QED  BY <2>1, <2>2, <3>2, <3>3, <3>4, <3>5
  <2> QED  BY <2>1, <2>3, <2>4
<1> QED  BY <1>1, Invariance, PTL

\* try_take_token: a packet goes unlogged for want of a token only if its CPU
\* took one, or lost a refill to the cast, less than a refill interval ago.
THEOREM SilenceIsBounded == Spec => SilenceIsShort
<1>1. ASSUME IInv, [Next]_vars, NEW c \in Cpus, drops'[c] # drops[c]
      PROVE  now - lastTaken'[c] < LOG_BUCKET_REFILL
  <2>1. PICK k \in Keys : emit_drop(c, k)
    <3>1. PICK x \in Cpus, k \in Keys : emit_drop(x, k)
      BY <1>1 DEF Next, SetLogging, Tick, StartWatch, Driver, Drain, Readable, DrainItem,
                  DrainEnd, clear_ready, flush, vars, path
    <3>2. x = c
      BY <1>1, <3>1 DEF emit_drop, IInv, TypeOK
    <3> QED  BY <3>1, <3>2
  <2> DEFINE o == bucket[c]
             b == Refill(o)
  <2>2. /\ b.tokens \in Nat /\ o \in Bucket
        /\ b.tokens > 0 \/ Truncated(o) => lastTaken'[c] = now
        /\ b.tokens = 0 /\ ~Truncated(o) => lastTaken'[c] = lastTaken[c]
    <3>1. b \in Bucket /\ o \in Bucket
          /\ (b.tokens > 0 \/ Truncated(o) => lastTaken'[c] = now)
          /\ (b.tokens = 0 /\ ~Truncated(o) => lastTaken'[c] = lastTaken[c])
      BY <1>1, <2>1, EmitFacts
    <3> QED  BY <3>1, BlockLogAssumption DEF Bucket
  <2>3. /\ now \in Uptime..MaxTime /\ now \in Nat /\ Uptime >= LOG_BUCKET_REFILL
        /\ Uptime \in Nat /\ LOG_BUCKET_REFILL \in Nat \ {0} /\ lastTaken[c] \in Int
        /\ o.last_refill \in Nat /\ o.last_refill <= now
        /\ (o.tokens = 0 => o.last_refill = 0 \/ lastTaken[c] >= o.last_refill)
    BY <1>1, BlockLogAssumption DEF IInv, TypeOK, EmptyIsRecent, RefillsArePast
  <2>4. /\ now - o.last_refill < LOG_BUCKET_REFILL => b = o
        /\ now - o.last_refill >= LOG_BUCKET_REFILL => Truncated(o) \/ b.tokens > 0
    BY <2>2, <2>3, RefillFacts
  <2> HIDE DEF o, b
  <2>5. CASE b.tokens > 0 \/ Truncated(o)
    BY <2>2, <2>3, <2>5
  <2>6. CASE b.tokens = 0 /\ ~Truncated(o)
    <3>1. now - o.last_refill < LOG_BUCKET_REFILL /\ b = o
      BY <2>3, <2>4, <2>6
    <3> QED  BY <2>2, <2>3, <2>6, <3>1
  <2> QED  BY <2>2, <2>5, <2>6
<1>2. IInv /\ [Next]_vars =>
        [\A c \in Cpus : drops'[c] # drops[c] => now - lastTaken'[c] < LOG_BUCKET_REFILL]_vars
  BY <1>1
<1> QED
  BY <1>2, Invariance, PTL DEF Spec, SilenceIsShort
=============================================================================
