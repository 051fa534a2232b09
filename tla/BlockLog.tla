------------------------------ MODULE BlockLog -------------------------------
(***************************************************************************)
(* The log of blocked packets.  The data path (emit_drop) takes a token    *)
(* from the bucket of its CPU and writes an event into the EVENTS ring     *)
(* buffer; the daemon's drain_events task moves events into a deduplicating*)
(* window and writes the window to the journal once a second.              *)
(*                                                                         *)
(* The task sleeps until tokio says that the ring is readable.  The kernel *)
(* signals only a submission that finds the consumer at its very record;   *)
(* the driver thread turns the signal into readiness, and clear_ready      *)
(* takes readiness away unless a newer signal arrived since the task       *)
(* looked.  An event stands for the DedupeKey of its fields.               *)
(***************************************************************************)
EXTENDS Integers, Sequences, FiniteSetsExt

CONSTANTS
  Cpus, Keys,             \* CPUs of the data path; DedupeKeys of the events
  LOG_BUCKET_MAX,
  LOG_BUCKET_REFILL,      \* LOG_BUCKET_REFILL_NS, in clock units
  U32,                    \* number of values of the bucket's u32 counter
  RingMax,                \* events that fit in the ring
  Uptime,                 \* clock when the programs are attached
  MaxTime, MaxDrops       \* bounds on the clock and on blocked packets per CPU

ASSUME BlockLogAssumption ==
  /\ LOG_BUCKET_MAX \in Nat \ {0} /\ LOG_BUCKET_REFILL \in Nat \ {0}
  /\ U32 \in Nat /\ U32 > LOG_BUCKET_MAX
  /\ RingMax \in Nat \ {0}
  /\ Uptime \in Nat /\ MaxTime \in Nat /\ MaxDrops \in Nat
  /\ Uptime >= LOG_BUCKET_REFILL /\ MaxTime >= Uptime

VARIABLES
  now,              \* bpf_ktime_get_coarse_ns
  logging_enabled,  \* CONFIG.logging_enabled
  bucket,           \* LOG_TOKENS: per CPU, tokens and last_refill_ns
  EVENTS,           \* the ring: events submitted and not yet consumed
  signal,           \* epoll has an edge for the driver
  ready, fresh,     \* tokio's readiness; set since the task last looked
  pc,               \* drain_events: "select", "drain" or "clear"
  entries,          \* DedupeWindow: key |-> count, 0 if absent
  drops,            \* history: packets blocked with logging on, per CPU
  lastTaken,        \* history: per CPU, when a token was taken or a refill truncated
  watch,            \* history: an interval and the tokens taken in it
  submitted,        \* history: events put into the ring, per key
  logged            \* history: hits written to the journal, per key

path == <<logging_enabled, bucket, drops, lastTaken, watch, submitted>>
task == <<ready, fresh, pc, entries, logged>>
vars == <<now, path, EVENTS, signal, task>>

Init ==
  /\ now = Uptime
  /\ logging_enabled = FALSE
  /\ bucket = [c \in Cpus |-> [tokens |-> 0, last_refill |-> 0]]
  /\ EVENTS = <<>> /\ signal = FALSE
  /\ ready = FALSE /\ fresh = FALSE /\ pc = "select"
  /\ entries = [k \in Keys |-> 0]
  /\ drops = [c \in Cpus |-> 0]
  /\ lastTaken = [c \in Cpus |-> -LOG_BUCKET_REFILL]
  /\ watch = [since |-> -1, taken |-> [c \in Cpus |-> 0]]
  /\ submitted = [k \in Keys |-> 0]
  /\ logged = [k \in Keys |-> 0]

-----------------------------------------------------------------------------
(* The data path *)

AtMost(n, max) == IF n > max THEN max ELSE n

\* Mutant: the time of the refill is kept although its tokens were credited.
Refill_KeepTime(b) ==
  LET elapsed == now - b.last_refill
      new_tokens == (elapsed \div LOG_BUCKET_REFILL) % U32
  IN  IF elapsed < LOG_BUCKET_REFILL THEN b
      ELSE [b EXCEPT !.tokens = AtMost(@ + new_tokens, LOG_BUCKET_MAX)]

\* Mutant: a refill is credited only when it is longer than one interval.
Refill_Late(b) ==
  LET elapsed == now - b.last_refill
      new_tokens == (elapsed \div LOG_BUCKET_REFILL) % U32
  IN  IF elapsed <= LOG_BUCKET_REFILL THEN b
      ELSE [tokens |-> AtMost(b.tokens + new_tokens, LOG_BUCKET_MAX),
            last_refill |-> now]

\* The bucket after the refill of try_take_token.  The quotient is cast to
\* u32, which truncates; the remainder of the division is forgotten.  The
\* saturating addition cannot overflow in Nat before it is capped.
Refill(b) ==
  LET elapsed == now - b.last_refill
      new_tokens == (elapsed \div LOG_BUCKET_REFILL) % U32
  IN  IF elapsed < LOG_BUCKET_REFILL THEN b
      ELSE [tokens |-> AtMost(b.tokens + new_tokens, LOG_BUCKET_MAX),
            last_refill |-> now]

\* More intervals have passed than a u32 can count.
Truncated(b) == (now - b.last_refill) \div LOG_BUCKET_REFILL >= U32

\* entry.submit(0): the consumer is at this record iff it has eaten all others.
Submit(k) ==
  /\ EVENTS' = Append(EVENTS, k)
  /\ submitted' = [submitted EXCEPT ![k] = @ + 1]
  /\ signal' = (signal \/ EVENTS = <<>>)

\* One blocked packet on CPU c.  A token is spent before the ring is found full.
emit_drop(c, k) ==
  LET b == Refill(bucket[c])
  IN  /\ drops[c] < MaxDrops
      /\ drops' = [drops EXCEPT ![c] = @ + 1]
      /\ logging_enabled
      /\ bucket' = [bucket EXCEPT ![c] = IF b.tokens > 0
                                         THEN [b EXCEPT !.tokens = @ - 1] ELSE b]
      /\ lastTaken' = IF b.tokens > 0 \/ Truncated(bucket[c])
                      THEN [lastTaken EXCEPT ![c] = now] ELSE lastTaken
      /\ watch' = IF b.tokens > 0 /\ watch.since >= 0
                  THEN [watch EXCEPT !.taken[c] = @ + 1] ELSE watch
      /\ IF b.tokens > 0 /\ Len(EVENTS) < RingMax
         THEN Submit(k) ELSE UNCHANGED <<EVENTS, submitted, signal>>
      /\ UNCHANGED <<now, logging_enabled, task>>

\* The daemon flips CONFIG.logging_enabled; with it off emit_drop returns at once.
SetLogging ==
  /\ logging_enabled' = ~logging_enabled
  /\ UNCHANGED <<now, bucket, drops, lastTaken, watch, submitted, EVENTS, signal, task>>

Tick ==
  /\ now < MaxTime
  /\ now' = now + 1
  /\ UNCHANGED <<path, EVENTS, signal, task>>

\* An observer starts to count, once, at any moment.
StartWatch ==
  /\ watch.since < 0
  /\ watch' = [watch EXCEPT !.since = now]
  /\ UNCHANGED <<now, logging_enabled, bucket, drops, lastTaken, submitted,
                 EVENTS, signal, task>>

-----------------------------------------------------------------------------
(* The daemon *)

\* tokio's driver: the edge becomes readiness, with a new tick.
Driver ==
  /\ signal
  /\ signal' = FALSE /\ ready' = TRUE /\ fresh' = TRUE
  /\ UNCHANGED <<now, path, EVENTS, pc, entries, logged>>

\* readable_mut() resolves; the guard remembers the tick it saw.
Readable ==
  /\ pc = "select" /\ ready
  /\ fresh' = FALSE /\ pc' = "drain"
  /\ UNCHANGED <<now, path, EVENTS, signal, ready, entries, logged>>

\* Mutant: a key already in the window is inserted again.
record_Overwrite(k) == [entries EXCEPT ![k] = 1]

record(k) == [entries EXCEPT ![k] = @ + 1]

\* Mutant: one event per wake-up (if let, not while let).
DrainItem_Once ==
  /\ pc = "drain" /\ EVENTS # <<>>
  /\ entries' = record(Head(EVENTS))
  /\ EVENTS' = Tail(EVENTS)
  /\ pc' = "clear"
  /\ UNCHANGED <<now, path, signal, ready, fresh, logged>>

\* next() returned an item.
DrainItem ==
  /\ pc = "drain" /\ EVENTS # <<>>
  /\ entries' = record(Head(EVENTS))
  /\ EVENTS' = Tail(EVENTS)
  /\ UNCHANGED <<now, path, signal, ready, fresh, pc, logged>>

\* next() returned None.
DrainEnd ==
  /\ pc = "drain" /\ EVENTS = <<>>
  /\ pc' = "clear"
  /\ UNCHANGED <<now, path, EVENTS, signal, ready, fresh, entries, logged>>

\* Mutant: readiness is withdrawn although a newer signal came in.
clear_ready_Always ==
  /\ pc = "clear"
  /\ ready' = FALSE
  /\ pc' = "select"
  /\ UNCHANGED <<now, path, EVENTS, signal, fresh, entries, logged>>

\* Readiness goes, unless the driver has renewed it since the guard was made.
clear_ready ==
  /\ pc = "clear"
  /\ ready' = fresh
  /\ pc' = "select"
  /\ UNCHANGED <<now, path, EVENTS, signal, fresh, entries, logged>>

\* tick.tick(): one journal line per key with its count.
flush ==
  /\ pc = "select"
  /\ logged' = [k \in Keys |-> logged[k] + entries[k]]
  /\ entries' = [k \in Keys |-> 0]
  /\ UNCHANGED <<now, path, EVENTS, signal, ready, fresh, pc>>

-----------------------------------------------------------------------------
Drain == Readable \/ DrainItem \/ DrainEnd \/ clear_ready

Next ==
  \/ \E c \in Cpus, k \in Keys : emit_drop(c, k)
  \/ SetLogging \/ Tick \/ StartWatch
  \/ Driver \/ Drain \/ flush

\* Tokio's driver runs and the task is polled when it can run.  select! tries
\* its ready branches in random order, so a due tick is not passed over forever.
Fairness == WF_vars(Driver) /\ WF_vars(Drain) /\ SF_vars(flush)

Spec == Init /\ [][Next]_vars /\ Fairness

-----------------------------------------------------------------------------
\* No bucket holds more than LOG_BUCKET_MAX, the ring no more than it can, and
\* readiness is never newer than what the driver has set.
TypeOK ==
  /\ now \in Uptime..MaxTime
  /\ logging_enabled \in BOOLEAN
  /\ bucket \in [Cpus -> [tokens : 0..LOG_BUCKET_MAX, last_refill : 0..MaxTime]]
  /\ EVENTS \in Seq(Keys) /\ Len(EVENTS) <= RingMax
  /\ signal \in BOOLEAN /\ ready \in BOOLEAN /\ fresh \in BOOLEAN
  /\ fresh => ready
  /\ pc \in {"select", "drain", "clear"}
  /\ entries \in [Keys -> Nat]
  /\ drops \in [Cpus -> 0..MaxDrops]
  /\ lastTaken \in [Cpus -> Int]
  /\ watch \in [since : Int, taken : [Cpus -> Nat]]
  /\ submitted \in [Keys -> Nat] /\ logged \in [Keys -> Nat]

\* Every event the data path submitted is counted once: it waits in the ring,
\* is part of a count of the window, or is part of a hit count in the journal.
EveryHitCountedOnce ==
  \A k \in Keys :
    submitted[k] = Quantify(DOMAIN EVENTS, LAMBDA i : EVENTS[i] = k)
                     + entries[k] + logged[k]

\* The journal is not flooded: over any interval, a CPU takes no more tokens
\* than a full bucket and one for every refill interval begun in it.
RateBound ==
  watch.since >= 0 =>
    \A c \in Cpus :
      watch.taken[c] <= LOG_BUCKET_MAX
        + (now - watch.since + LOG_BUCKET_REFILL - 1) \div LOG_BUCKET_REFILL

\* A blocked packet goes unlogged for want of a token only if its CPU took one
\* less than a refill interval ago: the remainder that a refill forgets never
\* silences a CPU for longer.  (A CPU quiet for 2^32 refill intervals, more than
\* a year, may find the truncated refill to be zero and wait one more.)
SilenceIsShort ==
  [][\A c \in Cpus :
       drops'[c] # drops[c] => now - lastTaken'[c] < LOG_BUCKET_REFILL]_vars

\* No event is left behind: whatever was submitted, also while the task was
\* between its last look at the ring and clear_ready, reaches the journal.
EveryHitIsLogged ==
  \A k \in Keys : \A n \in 1..MaxDrops : submitted[k] >= n ~> logged[k] >= n
=============================================================================
