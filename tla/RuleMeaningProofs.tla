-------------------------- MODULE RuleMeaningProofs --------------------------
(***************************************************************************)
(* Proofs about what a typed rule means, for every vocabulary, every table *)
(* of addresses and ports and every sequence of clauses.  They go through  *)
(* the chain from its end: the comparison of an address with a network,    *)
(* the wire rule, and then, by induction on its passes, the loop of        *)
(* parse_full_grammar.                                                     *)
(***************************************************************************)
EXTENDS FrameMeaningProofs

-----------------------------------------------------------------------------
(* The wire rule. *)

\* What parse_cidr accepts and makes of it.
LEMMA CidrOf ==
  ASSUME NEW s
  PROVE  /\ parse_cidr(s).ok <=> /\ s \in DOMAIN AddrText
                                 /\ AddrText[s].prefix <= AddrBits(AddrText[s].family)
         /\ parse_cidr(s).ok =>
              LET a == AddrText[s]
                  c == parse_cidr(s).value
              IN  /\ a.family \in {"v4", "v6"} /\ a.addr \in Addresses(a.family)
                  /\ a.prefix \in Nat \cup {NoPrefix}
                  /\ c.family = a.family /\ c.addr = a.addr
                  /\ c.prefix = IF a.prefix = NoPrefix THEN AddrBits(a.family) ELSE a.prefix
                  /\ c.prefix \in 0..AddrBits(a.family)
<1>1. AddrBits("v4") \in Nat /\ AddrBits("v6") \in Nat
  BY MatchingAssumption DEF AddrBits
<1>2. CASE s \notin DOMAIN AddrText
  BY <1>2 DEF parse_cidr, Err
<1>3. CASE s \in DOMAIN AddrText
  <2> DEFINE a == AddrText[s]
             n == AddrBits(a.family)
             prefix == IF a.prefix = NoPrefix THEN n ELSE a.prefix
             c == [family |-> a.family, addr |-> a.addr, prefix |-> prefix]
  <2>1. /\ a.family \in {"v4", "v6"} /\ a.addr \in Addresses(a.family)
        /\ a.prefix \in Nat \cup {NoPrefix}
    BY <1>3, TextAssumption
  <2>2. parse_cidr(s) = IF prefix > n THEN [ok |-> FALSE] ELSE [ok |-> TRUE, value |-> c]
    BY <1>3 DEF parse_cidr, Err, Ok
  <2>3. n \in Nat
    BY <1>1, <2>1
  <2>4. prefix \in Nat /\ (prefix > n <=> ~(a.prefix <= n))
    <3> HIDE DEF n, a
    <3> QED
      BY <2>1, <2>3 DEF NoPrefix
  <2>5. c.family = a.family /\ c.addr = a.addr /\ c.prefix = prefix
    OBVIOUS
  <2> HIDE DEF c, n, prefix
  <2>6. CASE prefix > n
    <3>1. ~parse_cidr(s).ok
      BY <2>2, <2>6
    <3> QED
      BY <2>4, <2>6, <3>1 DEF n
  <2>7. CASE ~(prefix > n)
    <3>1. parse_cidr(s).ok /\ parse_cidr(s).value = c
      BY <2>2, <2>7
    <3>2. prefix \in 0..n
      BY <2>3, <2>4, <2>7
    <3> QED
      BY <1>3, <2>1, <2>4, <2>5, <2>7, <3>1, <3>2 DEF n, prefix
  <2> QED
    BY <2>6, <2>7
<1> QED
  BY <1>2, <1>3

\* What parse_port_range accepts and makes of it: never a range with port 0.
LEMMA PortsOf ==
  ASSUME NEW s
  PROVE  LET t == PortText[s]
             r == parse_port_range(s)
         IN  /\ r.ok <=> s \in DOMAIN PortText /\ 1 <= Head(t) /\ Head(t) <= Last(t)
             /\ r.ok => /\ Head(t) \in Nat /\ Last(t) \in Nat
                        /\ 1 <= Head(t) /\ Head(t) <= Last(t)
                        /\ r.value = <<Head(t), Last(t)>>
                        /\ r.value[1] = Head(t) /\ r.value[2] = Last(t)
<1>1. CASE s \notin DOMAIN PortText
  BY <1>1 DEF parse_port_range, Err
<1>2. CASE s \in DOMAIN PortText
  <2> DEFINE t == PortText[s]
             lo == t[1]
             hi == t[Len(t)]
  <2>1. t \in Seq(Nat) /\ Len(t) \in {1, 2}
    BY <1>2, TextAssumption
  <2>2. lo \in Nat /\ hi \in Nat
    BY <2>1
  <2>3. Head(t) = lo /\ Last(t) = hi
    BY <2>1 DEF Last
  <2>4. parse_port_range(s) = IF lo = 0 \/ hi = 0 \/ lo > hi THEN [ok |-> FALSE]
                              ELSE [ok |-> TRUE, value |-> <<lo, hi>>]
    BY <1>2 DEF parse_port_range, Err, Ok
  <2> HIDE DEF lo, hi
  <2>5. CASE lo = 0 \/ hi = 0 \/ lo > hi
    <3>1. ~parse_port_range(s).ok
      BY <2>4, <2>5
    <3>2. ~(1 <= lo /\ lo <= hi)
      BY <2>2, <2>5
    <3> QED
      BY <2>3, <3>1, <3>2
  <2>6. CASE ~(lo = 0 \/ hi = 0 \/ lo > hi)
    <3>1. parse_port_range(s).ok /\ parse_port_range(s).value = <<lo, hi>>
      BY <2>4, <2>6
    <3>2. 1 <= lo /\ lo <= hi
      BY <2>2, <2>6
    <3> QED
      BY <1>2, <2>2, <2>3, <3>1, <3>2
  <2> QED
    BY <2>5, <2>6
<1> QED
  BY <1>1, <1>2

\* The words of a user rule that build_wire_rule reads.
GivenAddrs(u) == {w \in {u.src, u.dst} : w # None}
GivenPorts(u) == {w \in {u.src_port, u.dst_port} : w # None}

\* When build_wire_rule succeeds, and the fields of the wire rule.
LEMMA WireRuleOf ==
  ASSUME NEW u, NEW ifindex
  PROVE  LET b == build_wire_rule(u, ifindex)
         IN  /\ b.ok <=> /\ u.proto = "icmp" => GivenPorts(u) = {}
                         /\ \A w \in GivenAddrs(u) : parse_cidr(w).ok
                         /\ \A v, w \in GivenAddrs(u) : AddrText[v].family = AddrText[w].family
                         /\ \A w \in GivenPorts(u) : parse_port_range(w).ok
             /\ b.ok =>
                  /\ b.value.direction = u.direction
                  /\ b.value.proto = proto_byte(u.proto) /\ b.value.ifindex = ifindex
                  /\ u.src # None => b.value.src = parse_cidr(u.src).value
                  /\ u.dst # None => b.value.dst = parse_cidr(u.dst).value
                  /\ u.src_port # None => b.value.src_port = parse_port_range(u.src_port).value
                  /\ u.dst_port # None => b.value.dst_port = parse_port_range(u.dst_port).value
                  /\ u.src = None => b.value.src.prefix = 0
                  /\ u.dst = None => b.value.dst.prefix = 0
                  /\ u.src_port = None => b.value.src_port = AnyPort
                  /\ u.dst_port = None => b.value.dst_port = AnyPort
                  /\ u.src = None => \E family : b.value.src = any_cidr(family)
                  /\ u.dst = None => \E family : b.value.dst = any_cidr(family)
<1> DEFINE addrs == GivenAddrs(u)
           ports == GivenPorts(u)
           families == {AddrText[w].family : w \in addrs}
           family == IF families = {} THEN "v4" ELSE CHOOSE f \in families : TRUE
           Cidr(word) == IF word # None THEN parse_cidr(word).value ELSE any_cidr(family)
           Ports(word) == IF word # None THEN parse_port_range(word).value ELSE AnyPort
           bad == \/ u.proto = "icmp" /\ ports # {}
                  \/ \E w \in addrs : ~parse_cidr(w).ok
                  \/ \E f, g \in families : f # g
                  \/ \E w \in ports : ~parse_port_range(w).ok
           value == [direction |-> u.direction, action |-> u.action,
                     proto |-> proto_byte(u.proto), ifindex |-> ifindex,
                     src |-> Cidr(u.src), dst |-> Cidr(u.dst),
                     src_port |-> Ports(u.src_port), dst_port |-> Ports(u.dst_port)]
           b == build_wire_rule(u, ifindex)
<1>1. b = IF bad THEN [ok |-> FALSE] ELSE [ok |-> TRUE, value |-> value]
  BY DEF build_wire_rule, GivenAddrs, GivenPorts, Err, Ok
<1>2. b.ok <=> ~bad
  <2> HIDE DEF bad, value, b
  <2> QED
    BY <1>1
<1>3. b.ok => b.value = value
  <2> HIDE DEF bad, value, b
  <2> QED
    BY <1>1, <1>2
<1>4. /\ value.direction = u.direction /\ value.proto = proto_byte(u.proto)
      /\ value.ifindex = ifindex
      /\ value.src = Cidr(u.src) /\ value.dst = Cidr(u.dst)
      /\ value.src_port = Ports(u.src_port) /\ value.dst_port = Ports(u.dst_port)
  OBVIOUS
<1>5. any_cidr(family).prefix = 0
  BY DEF any_cidr
<1>6. ~bad <=> /\ u.proto = "icmp" => ports = {}
               /\ \A w \in addrs : parse_cidr(w).ok
               /\ \A v, w \in addrs : AddrText[v].family = AddrText[w].family
               /\ \A w \in ports : parse_port_range(w).ok
  OBVIOUS
<1> HIDE DEF b, bad, value, family, addrs, ports
<1> QED
  BY <1>2, <1>3, <1>4, <1>5, <1>6 DEF b, addrs, ports

\* Whatever rule is asked for, the data path can hold what build_wire_rule makes
\* of it.
LEMMA WireRuleType ==
  ASSUME NEW u, NEW ifindex, build_wire_rule(u, ifindex).ok
  PROVE  LET v == build_wire_rule(u, ifindex).value
         IN  /\ \A c \in {v.src, v.dst} : c.prefix \in 0..AddrBits(c.family)
             /\ \A r \in {v.src_port, v.dst_port} : r = AnyPort \/ (r[1] >= 1 /\ r[1] <= r[2])
<1> DEFINE v == build_wire_rule(u, ifindex).value
<1>1. \A family : any_cidr(family).prefix \in 0..AddrBits(any_cidr(family).family)
  BY MatchingAssumption DEF any_cidr, AddrBits
<1>2. \A w : parse_cidr(w).ok =>
        parse_cidr(w).value.prefix \in 0..AddrBits(parse_cidr(w).value.family)
  BY CidrOf
<1>3. \A w : parse_port_range(w).ok =>
        LET r == parse_port_range(w).value IN r[1] >= 1 /\ r[1] <= r[2]
  BY PortsOf
<1>4. /\ \A w \in GivenAddrs(u) : parse_cidr(w).ok
      /\ \A w \in GivenPorts(u) : parse_port_range(w).ok
  BY WireRuleOf
<1>5. v.src.prefix \in 0..AddrBits(v.src.family)
  BY <1>1, <1>2, <1>4, WireRuleOf DEF GivenAddrs
<1>6. v.dst.prefix \in 0..AddrBits(v.dst.family)
  BY <1>1, <1>2, <1>4, WireRuleOf DEF GivenAddrs
<1>7. v.src_port = AnyPort \/ (v.src_port[1] >= 1 /\ v.src_port[1] <= v.src_port[2])
  BY <1>3, <1>4, WireRuleOf DEF GivenPorts
<1>8. v.dst_port = AnyPort \/ (v.dst_port[1] >= 1 /\ v.dst_port[1] <= v.dst_port[2])
  BY <1>3, <1>4, WireRuleOf DEF GivenPorts
<1> QED
  BY <1>5, <1>6, <1>7, <1>8

\* The clauses typed are clauses, and no more than the bound.
TypedOK == typed \in Seq(Phrases) /\ Len(typed) <= MaxPhrases

\* Only Type adds to them.
THEOREM TypedIsPhrases == Spec => []TypedOK
<1>1. Init => TypedOK
  BY VocabularyAssumption DEF Init, TypedOK
<1>2. TypedOK /\ [Next]_vars => TypedOK'
  <2> SUFFICES ASSUME TypedOK, [Next]_vars PROVE TypedOK'
    OBVIOUS
  <2>1. ASSUME NEW c \in Phrases, Type(c) PROVE TypedOK'
    BY <2>1, VocabularyAssumption DEF Type, TypedOK
  <2>2. CASE UNCHANGED typed
    BY <2>2 DEF TypedOK
  <2>3. ASSUME NEW k \in DOMAIN sent, \/ AddTag(sent[k])
                                      \/ \E len \in ExtLengths : AddExt(sent[k], len)
                                      \/ Truncate(sent[k])
        PROVE UNCHANGED typed
    BY <2>3 DEF AddTag, AddExt, Truncate
  <2>4. CASE UNCHANGED vars
    BY <2>2, <2>4 DEF vars
  <2> QED
    BY <2>1, <2>2, <2>3, <2>4 DEF Next
<1> QED
  BY <1>1, <1>2, PTL DEF Spec

\* For every vocabulary and every table of addresses and ports: whatever is
\* typed, the wire rules that come of it are ones that the data path can hold.
THEOREM TypeCorrect == Spec => []TypeOK
<1>1. TypedOK /\ SentOK => TypeOK
  <2> SUFFICES ASSUME TypedOK, SentOK PROVE TypeOK
    OBVIOUS
  <2>1. typed \in Seq(Phrases) /\ Len(typed) <= MaxPhrases
    BY DEF TypedOK
  <2>2. sent = <<>> \/ (Len(sent) = 1 /\ sent \in Seq(FrameType) /\ Len(sent[1].exts) <= MaxExts)
    <3>1. CASE sent # <<>>
      <4>1. PICK f \in FrameType : sent = <<f>> /\ Len(f.exts) <= MaxExts
        BY <3>1 DEF SentOK
      <4>2. <<f>> \in Seq(FrameType) /\ Len(<<f>>) = 1 /\ <<f>>[1] = f
        OBVIOUS
      <4> QED
        BY <4>1, <4>2
    <3> QED
      BY <3>1
  <2>3. ASSUME NEW u, Built(u).ok
        PROVE  /\ \A c \in {Built(u).value.src, Built(u).value.dst} :
                    c.prefix \in 0..AddrBits(c.family)
               /\ \A r \in {Built(u).value.src_port, Built(u).value.dst_port} :
                    r = AnyPort \/ (r[1] >= 1 /\ r[1] <= r[2])
    <3> DEFINE ifindex == IF u.iface = None THEN 0 ELSE Ifindex[u.iface]
    <3>1. Built(u) = build_wire_rule(u, ifindex)
      BY DEF Built
    <3> HIDE DEF ifindex
    <3> QED
      BY <2>3, <3>1, WireRuleType
  <2> QED
    BY <2>1, <2>2, <2>3 DEF TypeOK
<1> QED
  BY <1>1, TypedIsPhrases, SentIsFrame, PTL

-----------------------------------------------------------------------------
(* Addresses and networks. *)

\* The powers of 2 are what their definition says.
LEMMA PowDef ==
  Pow2[0] = 1 /\ \A n \in Nat : Pow2[n] \in Nat \ {0} /\ Pow2[n + 1] = 2 * Pow2[n]
<1> DEFINE step == [x \in Nat \X Nat |-> 2 * x[2]]
           G(n) == CHOOSE g : Orbit(g, Nat, 1, step, n)
           P(h) == h = [n \in Nat |-> IF n = 0 THEN 1 ELSE 2 * h[n - 1]]
           h0 == [n \in Nat |-> G(n)[n]]
<1>1. step \in Steps(Nat)
  BY DEF Steps
<1>2. \A n \in Nat : Orbit(G(n), Nat, 1, step, n)
  <2> SUFFICES ASSUME NEW n \in Nat PROVE Orbit(G(n), Nat, 1, step, n)
    OBVIOUS
  <2>1. \E g : Orbit(g, Nat, 1, step, n)
    <3> HIDE DEF step
    <3> QED
      BY <1>1, Iteration
  <2> HIDE DEF step
  <2> QED
    BY <2>1
<1>3. ASSUME NEW n \in Nat
      PROVE  /\ G(n)[0] = 1 /\ \A i \in 0..n : G(n)[i] \in Nat
             /\ \A i \in 1..n : G(n)[i] = 2 * G(n)[i - 1]
  <2>1. Orbit(G(n), Nat, 1, step, n)
    BY <1>2
  <2> DEFINE g == G(n)
  <2> HIDE DEF g
  <2>2. Orbit(g, Nat, 1, step, n)
    BY <2>1 DEF g
  <2>3. g \in [0..n -> Nat] /\ g[0] = 1 /\ \A i \in 1..n : g[i] = step[<<i, g[i - 1]>>]
    BY <2>2 DEF Orbit
  <2>4. \A i \in 1..n : g[i] = 2 * g[i - 1]
    <3> SUFFICES ASSUME NEW i \in 1..n PROVE g[i] = 2 * g[i - 1]
      OBVIOUS
    <3>1. <<i, g[i - 1]>> \in Nat \X Nat
      BY <2>3
    <3> QED
      BY <2>3, <3>1
  <2> QED
    BY <2>3, <2>4 DEF g
<1> HIDE DEF G
<1>4. ASSUME NEW n \in Nat PROVE G(n + 1)[n] = G(n)[n]
  <2> DEFINE D == {i \in Nat : i <= n => G(n + 1)[i] = G(n)[i]}
  <2>1. 0 \in D
    BY <1>3
  <2>2. ASSUME NEW i \in Nat, i \in D PROVE i + 1 \in D
    <3> SUFFICES ASSUME i + 1 <= n PROVE G(n + 1)[i + 1] = G(n)[i + 1]
      OBVIOUS
    <3>1. G(n)[i + 1] = 2 * G(n)[i] /\ G(n + 1)[i + 1] = 2 * G(n + 1)[i]
      BY <1>3
    <3>2. G(n + 1)[i] = G(n)[i]
      BY <2>2
    <3> QED
      BY <3>1, <3>2
  <2>3. \A i \in Nat : i \in D
    <3> HIDE DEF D
    <3> QED
      BY <2>1, <2>2, SetInduction
  <2> QED
    BY <2>3
<1>5. \A n \in Nat \ {0} : G(n)[n] = 2 * G(n - 1)[n - 1]
  <2> SUFFICES ASSUME NEW n \in Nat \ {0} PROVE G(n)[n] = 2 * G(n - 1)[n - 1]
    OBVIOUS
  <2>1. n - 1 \in Nat /\ (n - 1) + 1 = n /\ n \in 1..n
    OBVIOUS
  <2>2. G(n)[n] = 2 * G(n)[n - 1]
    BY <1>3, <2>1
  <2>3. G(n)[n - 1] = G(n - 1)[n - 1]
    BY <1>4, <2>1
  <2> QED
    BY <2>2, <2>3
<1>6. G(0)[0] = 1
  BY <1>3
<1>7. P(h0)
  BY <1>5, <1>6
<1>8. Pow2 = CHOOSE h : P(h)
  BY DEF Pow2
<1>9. P(Pow2)
  <2> HIDE DEF P, h0
  <2> QED
    BY <1>7, <1>8
<1>10. Pow2[0] = 1 /\ \A n \in Nat : Pow2[n + 1] = 2 * Pow2[n]
  BY <1>9
<1> DEFINE E == {n \in Nat : Pow2[n] \in Nat \ {0}}
<1>11. 0 \in E
  BY <1>10
<1>12. ASSUME NEW n \in Nat, n \in E PROVE n + 1 \in E
  BY <1>10, <1>12
<1>13. \A n \in Nat : n \in E
  <2> HIDE DEF E
  <2> QED
    BY <1>11, <1>12, SetInduction
<1> QED
  BY <1>10, <1>13

\* They multiply.
LEMMA PowSum ==
  ASSUME NEW a \in Nat, NEW b \in Nat
  PROVE  Pow2[a + b] = Pow2[a] * Pow2[b]
<1> DEFINE D == {n \in Nat : Pow2[a + n] = Pow2[a] * Pow2[n]}
<1>1. 0 \in D
  BY PowDef
<1>2. ASSUME NEW n \in Nat, n \in D PROVE n + 1 \in D
  <2>1. Pow2[a + n] = Pow2[a] * Pow2[n]
    BY <1>2
  <2>2. a + (n + 1) = (a + n) + 1 /\ a + n \in Nat
    OBVIOUS
  <2>3. Pow2[(a + n) + 1] = 2 * Pow2[a + n] /\ Pow2[n + 1] = 2 * Pow2[n]
    BY <2>2, PowDef
  <2>4. Pow2[a] \in Nat /\ Pow2[n] \in Nat
    BY PowDef
  <2>5. Pow2[a + (n + 1)] = Pow2[a] * Pow2[n + 1]
    BY <2>1, <2>2, <2>3, <2>4
  <2> QED
    BY <2>5
<1>3. \A n \in Nat : n \in D
  <2> HIDE DEF D
  <2> QED
    BY <1>1, <1>2, SetInduction
<1> QED
  BY <1>3

\* Masking the low bits of two words and comparing is comparing the high ones.
LEMMA MaskedIs ==
  ASSUME NEW a \in Nat, NEW b \in Nat, NEW n \in Nat
  PROVE  Masked(a, n) = Masked(b, n) <=> a \div Pow2[n] = b \div Pow2[n]
<1> DEFINE m == Pow2[n]
<1>1. m \in Nat /\ m > 0
  BY PowDef
<1> HIDE DEF m
<1>2. a - (a % m) = b - (b % m) <=> a \div m = b \div m
  BY <1>1
<1> QED
  BY <1>2 DEF Masked, m

\* Division by its remainder.
LEMMA DivIs ==
  ASSUME NEW a \in Nat, NEW m \in Nat \ {0}
  PROVE  /\ a \div m \in Nat /\ a % m \in 0..(m - 1) /\ a = m * (a \div m) + (a % m)
         /\ \A q \in Nat, r \in 0..(m - 1) : a = m * q + r => a \div m = q
<1> DEFINE d == a \div m
           e == a % m
<1>1. d \in Nat /\ e \in 0..(m - 1) /\ a = m * d + e
  OBVIOUS
<1> HIDE DEF d, e
<1>2. ASSUME NEW q \in Nat, NEW r \in 0..(m - 1), a = m * q + r PROVE d = q
  <2>1. ~(q >= d + 1)
    <3> SUFFICES ASSUME q >= d + 1 PROVE FALSE
      OBVIOUS
    <3>1. m * q >= m * (d + 1) /\ m * (d + 1) = m * d + m
      BY <1>1
    <3> QED
      BY <1>1, <1>2, <3>1
  <2>2. ~(d >= q + 1)
    <3> SUFFICES ASSUME d >= q + 1 PROVE FALSE
      OBVIOUS
    <3>1. m * d >= m * (q + 1) /\ m * (q + 1) = m * q + m
      BY <1>1
    <3> QED
      BY <1>1, <1>2, <3>1
  <2> QED
    BY <1>1, <2>1, <2>2
<1> QED
  BY <1>1, <1>2 DEF d, e

\* A number of two words, without more than the low word: the high word without
\* the rest.
LEMMA HighBits ==
  ASSUME NEW hi \in Nat, NEW lo \in Nat, NEW p \in Nat \ {0}, lo < p, NEW m \in Nat \ {0}
  PROVE  (hi * p + lo) \div (p * m) = hi \div m
<1> DEFINE q == hi \div m
           r == hi % m
<1>1. q \in Nat /\ r \in 0..(m - 1) /\ hi = m * q + r
  BY DivIs
<1> HIDE DEF q, r
<1>2. hi * p + lo = (p * m) * q + (r * p + lo)
  <2>1. hi * p = (m * q + r) * p
    BY <1>1
  <2>2. (m * q + r) * p = (p * m) * q + r * p
    BY <1>1
  <2> QED
    BY <1>1, <2>1, <2>2
<1>3. r * p + lo \in 0..((p * m) - 1)
  <2>1. r * p <= (m - 1) * p
    BY <1>1
  <2>2. (m - 1) * p = m * p - p
    OBVIOUS
  <2>3. r * p \in Nat /\ m * p \in Nat /\ p * m = m * p
    BY <1>1
  <2> DEFINE x == r * p
             y == m * p
             z == p * m
  <2> HIDE DEF x, y, z
  <2>4. x + lo \in 0..(z - 1)
    <3>1. x <= y - p /\ x \in Nat /\ y \in Nat /\ z = y
      BY <2>1, <2>2, <2>3 DEF x, y, z
    <3> QED
      BY <3>1
  <2> QED
    BY <2>4 DEF x, z
<1>4. hi * p + lo \in Nat /\ p * m \in Nat \ {0}
  OBVIOUS
<1> DEFINE a == hi * p + lo
           d == p * m
           e == r * p + lo
<1> HIDE DEF a, d, e
<1>5. a \in Nat /\ d \in Nat \ {0} /\ e \in 0..(d - 1) /\ a = d * q + e
  BY <1>2, <1>3, <1>4 DEF a, d, e
<1>6. a \div d = q
  BY <1>1, <1>5, DivIs
<1> QED
  BY <1>6 DEF a, d, q

\* A number of two words without a part of the low one: equal in that and in
\* the high word.
LEMMA LowBits ==
  ASSUME NEW hi \in Nat, NEW lo \in Nat, NEW m \in Nat \ {0}, NEW r \in Nat \ {0}, lo < m * r
  PROVE  (hi * (m * r) + lo) \div m = hi * r + (lo \div m) /\ lo \div m \in 0..(r - 1)
<1> DEFINE q == lo \div m
           s == lo % m
<1>1. q \in Nat /\ s \in 0..(m - 1) /\ lo = m * q + s
  BY DivIs
<1> HIDE DEF q, s
<1>2. hi * (m * r) + lo = m * (hi * r + q) + s
  BY <1>1
<1>3. hi * (m * r) + lo \in Nat /\ hi * r + q \in Nat
  BY <1>1
<1>4. (hi * (m * r) + lo) \div m = hi * r + q
  BY <1>1, <1>2, <1>3, DivIs
<1>5. q \in 0..(r - 1)
  <2> SUFFICES ASSUME q >= r PROVE FALSE
    BY <1>1
  <2>1. m * q >= m * r
    BY <1>1
  <2>2. lo >= m * r
    BY <1>1, <2>1
  <2> QED
    BY <2>2
<1> QED
  BY <1>4, <1>5 DEF q

\* What an address clause comes to in the data path: /0 is of either family.
NetSeen(word, family, addr) ==
  InNet(word, family, addr) \/ (word # "any" /\ AddrText[word].prefix = 0)

\* cidr_contains of the network that parse_cidr reads is membership of the
\* address in it, for both families and on either side of the word boundary.
LEMMA ContainsIsInNet ==
  ASSUME NEW word, parse_cidr(word).ok, NEW family \in {"v4", "v6"},
         NEW addr \in Addresses(family), word # "any"
  PROVE  cidr_contains(parse_cidr(word).value, addr, family) <=> NetSeen(word, family, addr)
<1> DEFINE net == AddrText[word]
           c == parse_cidr(word).value
           bits == AddrBits(net.family)
           host == IF net.prefix = NoPrefix THEN 0 ELSE AddrBits(net.family) - net.prefix
           W == V6_WORD
<1>1. /\ net.family \in {"v4", "v6"} /\ net.addr \in Addresses(net.family)
      /\ net.prefix \in Nat \cup {NoPrefix}
      /\ c.family = net.family /\ c.addr = net.addr
      /\ c.prefix = IF net.prefix = NoPrefix THEN bits ELSE net.prefix
      /\ c.prefix \in 0..bits
  BY CidrOf
<1>2. bits \in Nat \ {0} /\ W \in Nat \ {0} /\ V4_BITS \in Nat \ {0}
  BY <1>1, MatchingAssumption DEF AddrBits
<1>3. host \in Nat /\ c.prefix = bits - host /\ (c.prefix = 0 <=> net.prefix = 0)
  BY <1>1, <1>2 DEF NoPrefix
<1>4. NetSeen(word, family, addr) <=>
        \/ net.prefix = 0
        \/ /\ net.family = family
           /\ Number(family, addr) \div Pow2[host] = Number(family, net.addr) \div Pow2[host]
  BY DEF InNet, NetSeen
<1>5. cidr_contains(c, addr, family) <=>
        \/ c.prefix = 0
        \/ /\ c.family = family
           /\ IF family = "v4" THEN cidr_contains_v4(c, addr) ELSE cidr_contains_v6(c, addr)
  BY DEF cidr_contains
<1>6. addr[1] \in Nat /\ addr[2] \in Nat /\ net.addr[1] \in Nat /\ net.addr[2] \in Nat
  BY <1>1 DEF Addresses
<1> DEFINE a1 == addr[1]
           a2 == addr[2]
           b1 == net.addr[1]
           b2 == net.addr[2]
<1> HIDE DEF c, net, host
<1>7. CASE net.family # family
  BY <1>1, <1>3, <1>4, <1>5, <1>7 DEF c
<1>8. CASE net.family = family /\ family = "v4"
  <2>1. bits = V4_BITS /\ V4_BITS - c.prefix = host /\ c.prefix <= V4_BITS
    BY <1>1, <1>2, <1>3, <1>8 DEF AddrBits
  <2>2. cidr_contains_v4(c, addr) <=> Masked(b1, host) = Masked(a1, host)
    BY <1>1, <2>1 DEF cidr_contains_v4
  <2>3. Masked(b1, host) = Masked(a1, host) <=> b1 \div Pow2[host] = a1 \div Pow2[host]
    BY <1>3, <1>6, MaskedIs
  <2>4. Number(family, addr) = a1 /\ Number(family, net.addr) = b1
    BY <1>8 DEF Number
  <2> QED
    BY <1>1, <1>3, <1>4, <1>5, <1>8, <2>2, <2>3, <2>4 DEF c
<1>9. CASE net.family = family /\ family = "v6"
  <2> DEFINE p == Pow2[W]
  <2>1. bits = 2 * W /\ family # "v4"
    BY <1>9 DEF AddrBits
  <2>2. p \in Nat \ {0} /\ a2 < p /\ b2 < p
    BY <1>1, <1>2, <1>9, PowDef DEF Addresses
  <2>3. Number(family, addr) = a1 * p + a2 /\ Number(family, net.addr) = b1 * p + b2
    BY <1>9 DEF Number
  <2> HIDE DEF p, a1, a2, b1, b2
  <2>4. a1 \in Nat /\ a2 \in Nat /\ b1 \in Nat /\ b2 \in Nat
    BY <1>6 DEF a1, a2, b1, b2
  <2>5. CASE c.prefix <= W
    <3> DEFINE n == W - c.prefix
    <3>1. n \in Nat /\ host = W + n
      BY <1>1, <1>2, <1>3, <2>1, <2>5
    <3>2. cidr_contains_v6(c, addr) <=> Masked(b1, n) = Masked(a1, n)
      BY <1>1, <2>5 DEF cidr_contains_v6, a1, b1
    <3> HIDE DEF n
    <3>3. Masked(b1, n) = Masked(a1, n) <=> b1 \div Pow2[n] = a1 \div Pow2[n]
      BY <2>4, <3>1, MaskedIs
    <3>4. Pow2[host] = p * Pow2[n] /\ Pow2[n] \in Nat \ {0}
      <4>1. Pow2[W + n] = Pow2[W] * Pow2[n]
        BY <1>2, <3>1, PowSum
      <4> QED
        BY <3>1, <4>1, PowDef DEF p
    <3>5. (a1 * p + a2) \div (p * Pow2[n]) = a1 \div Pow2[n]
      BY <2>2, <2>4, <3>4, HighBits
    <3>6. (b1 * p + b2) \div (p * Pow2[n]) = b1 \div Pow2[n]
      BY <2>2, <2>4, <3>4, HighBits
    <3>7. Number(family, addr) \div Pow2[host] = Number(family, net.addr) \div Pow2[host]
            <=> cidr_contains_v6(c, addr)
      BY <2>3, <3>2, <3>3, <3>4, <3>5, <3>6
    <3> QED
      BY <1>1, <1>3, <1>4, <1>5, <1>9, <2>1, <3>7 DEF c
  <2>6. CASE ~(c.prefix <= W)
    <3> DEFINE k == W - host
    <3>1. k \in Nat /\ W = host + k /\ 2 * W - c.prefix = host /\ c.prefix <= 2 * W
      <4>1. c.prefix \in Nat /\ c.prefix = 2 * W - host
        BY <1>1, <1>3, <2>1
      <4> DEFINE x == c.prefix
      <4> HIDE DEF x
      <4>2. x \in Nat /\ x = 2 * W - host /\ ~(x <= W)
        BY <2>6, <4>1 DEF x
      <4>3. k \in Nat /\ W = host + k /\ 2 * W - x = host /\ x <= 2 * W
        BY <1>2, <1>3, <4>2
      <4> QED
        BY <4>3 DEF x
    <3>2. cidr_contains_v6(c, addr) <=> b1 = a1 /\ Masked(b2, host) = Masked(a2, host)
      BY <1>1, <2>6, <3>1 DEF cidr_contains_v6, a1, b1, a2, b2
    <3> HIDE DEF k
    <3>3. Masked(b2, host) = Masked(a2, host) <=> b2 \div Pow2[host] = a2 \div Pow2[host]
      BY <1>3, <2>4, MaskedIs
    <3> DEFINE m == Pow2[host]
               r == Pow2[k]
    <3>4. p = m * r /\ m \in Nat \ {0} /\ r \in Nat \ {0}
      BY <1>3, <3>1, PowSum, PowDef DEF p
    <3> HIDE DEF m, r
    <3>5. (a1 * p + a2) \div m = a1 * r + (a2 \div m) /\ a2 \div m \in 0..(r - 1)
      <4>1. a2 < m * r
        BY <2>2, <3>4
      <4>2. /\ (a1 * (m * r) + a2) \div m = a1 * r + (a2 \div m)
            /\ a2 \div m \in 0..(r - 1)
        BY <2>4, <3>4, <4>1, LowBits
      <4> QED
        BY <3>4, <4>2
    <3>6. (b1 * p + b2) \div m = b1 * r + (b2 \div m) /\ b2 \div m \in 0..(r - 1)
      <4>1. b2 < m * r
        BY <2>2, <3>4
      <4>2. /\ (b1 * (m * r) + b2) \div m = b1 * r + (b2 \div m)
            /\ b2 \div m \in 0..(r - 1)
        BY <2>4, <3>4, <4>1, LowBits
      <4> QED
        BY <3>4, <4>2
    <3> DEFINE x == a2 \div m
               y == b2 \div m
    <3>7. a1 * r + x = b1 * r + y <=> a1 = b1 /\ x = y
      <4>1. x \in 0..(r - 1) /\ y \in 0..(r - 1)
        BY <3>5, <3>6
      <4> HIDE DEF x, y
      <4>2. ASSUME a1 * r + x = b1 * r + y PROVE a1 = b1 /\ x = y
        <5> DEFINE z == r * a1 + x
        <5>1. z = r * a1 + x /\ z = r * b1 + y /\ z \in Nat
          BY <2>4, <3>4, <4>1, <4>2
        <5> HIDE DEF z
        <5>2. z \div r = a1 /\ z \div r = b1
          BY <2>4, <3>4, <4>1, <5>1, DivIs
        <5>3. a1 = b1
          BY <5>2
        <5> QED
          BY <2>4, <3>4, <4>1, <4>2, <5>3
      <4> QED
        BY <4>2
    <3>8. Number(family, addr) \div Pow2[host] = Number(family, net.addr) \div Pow2[host]
            <=> cidr_contains_v6(c, addr)
      BY <2>3, <3>2, <3>3, <3>5, <3>6, <3>7 DEF m
    <3> QED
      BY <1>1, <1>3, <1>4, <1>5, <1>9, <2>1, <3>8 DEF c
  <2> QED
    BY <2>5, <2>6
<1> QED
  BY <1>7, <1>8, <1>9

-----------------------------------------------------------------------------
(* The words of a rule. *)

\* The words.  (The provers do not know that a literal is in STRING.)
Token == STRING \cup Keywords \cup {None, "deny", "tcp", "udp", "icmp", "any"}

\* Where the words of clause k are in the text ts: after off[k - 1] others.
Laid(cs, ts, off) ==
  /\ ts \in Seq(Token) /\ off \in [0..Len(cs) -> Nat]
  /\ off[0] = 0 /\ off[Len(cs)] = Len(ts)
  /\ \A k \in 1..Len(cs) :
       /\ off[k] = off[k - 1] + Len(Words(cs[k]))
       /\ \A j \in 1..Len(Words(cs[k])) : ts[off[k - 1] + j] = Words(cs[k])[j]

\* Short sequences.
LEMMA Tuples ==
  ASSUME NEW S, NEW a \in S, NEW b \in S, NEW c \in S, NEW d \in S
  PROVE  /\ <<a>> \in Seq(S) /\ Len(<<a>>) = 1 /\ <<a>>[1] = a
         /\ <<a, b>> \in Seq(S) /\ Len(<<a, b>>) = 2 /\ <<a, b>>[1] = a /\ <<a, b>>[2] = b
         /\ <<a, b, c, d>> \in Seq(S) /\ Len(<<a, b, c, d>>) = 4
         /\ <<a, b, c, d>>[1] = a /\ <<a, b, c, d>>[2] = b
         /\ <<a, b, c, d>>[3] = c /\ <<a, b, c, d>>[4] = d
  OBVIOUS

\* Two sequences one after the other.
LEMMA Concat ==
  ASSUME NEW S, NEW a \in Seq(S), NEW b \in Seq(S)
  PROVE  /\ a \o b \in Seq(S) /\ Len(a \o b) = Len(a) + Len(b)
         /\ \A j \in 1..Len(a) : (a \o b)[j] = a[j]
         /\ \A j \in 1..Len(b) : (a \o b)[Len(a) + j] = b[j]
  OBVIOUS

\* The words of a clause.
LEMMA WordsOf ==
  ASSUME NEW c \in Phrases
  PROVE  /\ Words(c) \in Seq(Token)
         /\ c.kind \in {"dir", "word"} => Len(Words(c)) = 1 /\ Words(c)[1] = c.word
         /\ c.kind \notin {"dir", "word"} =>
              Len(Words(c)) >= 2 /\ Words(c)[1] = c.kind /\ Words(c)[2] = c.word
         /\ c.kind \in {"on", "port", "proto"} => Len(Words(c)) = 2
         /\ c.kind \in {"from", "to"} /\ c.port = None => Len(Words(c)) = 2
         /\ c.kind \in {"from", "to"} /\ c.port # None =>
              Len(Words(c)) = 4 /\ Words(c)[3] = "port" /\ Words(c)[4] = c.port
         /\ Len(Words(c)) \in {1, 2, 4}
<1>1. /\ c.kind \in {"dir", "on", "from", "to", "port", "proto", "word"}
      /\ c.word \in STRING /\ c.port \in STRING
  BY VocabularyAssumption
<1> DEFINE kind == c.kind
           word == c.word
           port == c.port
<1>2. /\ kind \in {"dir", "word"} => Words(c) = <<word>>
      /\ kind \in {"from", "to"} /\ port # None => Words(c) = <<kind, word, "port", port>>
      /\ kind \notin {"dir", "word"} /\ ~(kind \in {"from", "to"} /\ port # None) =>
           Words(c) = <<kind, word>>
  BY DEF Words
<1> HIDE DEF kind, word, port
<1>3. word \in Token /\ port \in Token /\ "port" \in Token
  BY <1>1 DEF Token, Keywords, word, port
<1>4. CASE kind \in {"dir", "word"}
  <2>1. <<word>> \in Seq(Token) /\ Len(<<word>>) = 1 /\ <<word>>[1] = word
    BY <1>3, Tuples
  <2>2. Words(c) = <<word>> /\ kind \notin {"on", "port", "proto", "from", "to"}
    BY <1>2, <1>4
  <2> QED
    BY <1>4, <2>1, <2>2 DEF kind, word
<1>5. CASE kind \notin {"dir", "word"}
  <2>1. kind \in Token
    BY <1>1, <1>5 DEF Token, Keywords, kind
  <2>2. CASE kind \in {"from", "to"} /\ port # None
    <3> DEFINE t == <<kind, word, "port", port>>
    <3>1. t \in Seq(Token) /\ Len(t) = 4 /\ t[1] = kind /\ t[2] = word /\ t[3] = "port" /\ t[4] = port
      BY <1>3, <2>1, Tuples
    <3>2. Words(c) = t
      BY <1>2, <2>2
    <3> HIDE DEF t
    <3>3. /\ Words(c) \in Seq(Token) /\ Len(Words(c)) = 4 /\ Words(c)[1] = c.kind
          /\ Words(c)[2] = c.word /\ Words(c)[3] = "port" /\ Words(c)[4] = c.port
      BY <3>1, <3>2 DEF kind, word, port
    <3>4. c.kind \in {"from", "to"} /\ c.port # None
      BY <2>2 DEF kind, port
    <3> QED
      BY <3>3, <3>4
  <2>3. CASE ~(kind \in {"from", "to"} /\ port # None)
    <3> DEFINE t == <<kind, word>>
    <3>1. t \in Seq(Token) /\ Len(t) = 2 /\ t[1] = kind /\ t[2] = word
      BY <1>3, <2>1, Tuples
    <3>2. Words(c) = t
      BY <1>2, <1>5, <2>3
    <3> HIDE DEF t
    <3>3. /\ Words(c) \in Seq(Token) /\ Len(Words(c)) = 2 /\ Words(c)[1] = c.kind
          /\ Words(c)[2] = c.word
      BY <3>1, <3>2 DEF kind, word
    <3>4. c.kind \notin {"dir", "word"} /\ ~(c.kind \in {"from", "to"} /\ c.port # None)
      BY <1>5, <2>3 DEF kind, port
    <3> QED
      BY <3>3, <3>4
  <2> QED
    BY <2>2, <2>3
<1> QED
  BY <1>4, <1>5

\* What FlattenSeq computes: ws[1] to ws[n] appended one by one.
Appended(g, S, n, ws) ==
  /\ \A i \in 1..n : ws[i] \in Seq(S)
  /\ g \in [0..n -> Seq(S)]
  /\ g[0] = <<>>
  /\ \A i \in 1..n : g[i] = g[i - 1] \o ws[i]

\* FlattenSeq, which folds, computes that.
LEMMA FlattenIs ==
  ASSUME NEW S, NEW n \in Nat \ {0}, NEW ws, Len(ws) = n, \A i \in 1..n : ws[i] \in Seq(S)
  PROVE  \E g : Appended(g, S, n, ws) /\ FlattenSeq(ws) = g[n]
<1> DEFINE Q == Seq(S)
           step == [x \in Nat \X Q |-> IF x[1] \in 1..n THEN x[2] \o ws[x[1]] ELSE <<>>]
           P(h) == h = [i \in 1..n |-> IF i = 1 THEN ws[i] ELSE h[i - 1] \o ws[i]]
<1>1. step \in Steps(Q)
  BY DEF Steps
<1>2. <<>> \in Q
  OBVIOUS
<1>3. PICK g : Orbit(g, Q, <<>>, step, n)
  <2> HIDE DEF step, Q
  <2> QED
    BY <1>1, <1>2, Iteration
<1>4. g \in [0..n -> Q] /\ g[0] = <<>>
  BY <1>3 DEF Orbit
<1>5. \A i \in 1..n : g[i] = g[i - 1] \o ws[i]
  <2> SUFFICES ASSUME NEW i \in 1..n PROVE g[i] = g[i - 1] \o ws[i]
    OBVIOUS
  <2>1. g[i] = step[<<i, g[i - 1]>>]
    BY <1>3 DEF Orbit
  <2>2. <<i, g[i - 1]>> \in Nat \X Q
    <3> HIDE DEF Q
    <3> QED
      BY <1>4
  <2> QED
    BY <2>1, <2>2
<1>6. Appended(g, S, n, ws)
  BY <1>4, <1>5 DEF Appended
<1>7. g[1] = ws[1]
  <2>1. 1 \in 1..n /\ 1 - 1 = 0
    OBVIOUS
  <2>2. g[1] = g[1 - 1] \o ws[1] /\ ws[1] \in Seq(S)
    BY <1>5, <2>1
  <2>3. g[1] = <<>> \o ws[1]
    BY <1>4, <2>1, <2>2
  <2> QED
    BY <2>2, <2>3
<1> HIDE DEF step, Q
<1> DEFINE h0 == CHOOSE h : P(h)
<1>8. P(h0)
  <2> DEFINE h == [i \in 1..n |-> g[i]]
  <2>1. \A i \in 1..n : g[i] = IF i = 1 THEN ws[i] ELSE h[i - 1] \o ws[i]
    <3> SUFFICES ASSUME NEW i \in 1..n, i # 1 PROVE g[i] = h[i - 1] \o ws[i]
      BY <1>7
    <3>1. i - 1 \in 1..n
      OBVIOUS
    <3>2. h[i - 1] = g[i - 1]
      BY <3>1
    <3> QED
      BY <1>5, <3>2
  <2>2. h = [i \in 1..n |-> IF i = 1 THEN ws[i] ELSE h[i - 1] \o ws[i]]
    BY <2>1
  <2>3. P(h)
    BY <2>2
  <2> HIDE DEF P, h
  <2> QED
    BY <2>3
<1>9. FlattenSeq(ws) = h0[n]
  BY DEF FlattenSeq
<1> HIDE DEF h0
<1> DEFINE D == {i \in Nat : 1 <= i /\ i <= n => h0[i] = g[i]}
<1>10. 0 \in D
  OBVIOUS
<1>11. ASSUME NEW i \in Nat, i \in D PROVE i + 1 \in D
  <2> SUFFICES ASSUME i + 1 <= n PROVE h0[i + 1] = g[i + 1]
    OBVIOUS
  <2>1. i + 1 \in 1..n /\ (i + 1) - 1 = i
    OBVIOUS
  <2>2. h0[i + 1] = IF i + 1 = 1 THEN ws[i + 1] ELSE h0[i] \o ws[i + 1]
    <3>1. \A j \in 1..n : h0[j] = IF j = 1 THEN ws[j] ELSE h0[j - 1] \o ws[j]
      BY <1>8
    <3> QED
      BY <2>1, <3>1
  <2>3. CASE i = 0
    BY <1>7, <2>2, <2>3
  <2>4. CASE i # 0
    <3>1. h0[i] = g[i]
      BY <1>11, <2>1, <2>4
    <3>2. g[i + 1] = g[i] \o ws[i + 1]
      <4> DEFINE m == i + 1
      <4>1. m \in 1..n /\ m - 1 = i
        BY <2>1
      <4> HIDE DEF m
      <4>2. g[m] = g[m - 1] \o ws[m]
        BY <1>5, <4>1
      <4>3. g[m] = g[i] \o ws[m]
        BY <4>1, <4>2
      <4> QED
        BY <4>3 DEF m
    <3>3. h0[i + 1] = h0[i] \o ws[i + 1]
      <4>1. i + 1 # 1
        BY <2>4
      <4> QED
        BY <2>2, <4>1
    <3> QED
      BY <3>1, <3>2, <3>3
  <2> QED
    BY <2>3, <2>4
<1>12. \A i \in Nat : i \in D
  <2> HIDE DEF D
  <2> QED
    BY <1>10, <1>11, SetInduction
<1>13. h0[n] = g[n]
  BY <1>12
<1> QED
  BY <1>6, <1>9, <1>13

\* Item k of ws is at its place in the whole.
SitsAt(g, n, ws, k) ==
  /\ Len(g[k]) = Len(g[k - 1]) + Len(ws[k])
  /\ \A j \in 1..Len(ws[k]) : g[n][Len(g[k - 1]) + j] = ws[k][j]

\* Nothing moves when more is appended.
LEMMA AppendedAt ==
  ASSUME NEW S, NEW n \in Nat, NEW ws, NEW g, Appended(g, S, n, ws), NEW k \in 1..n
  PROVE  SitsAt(g, n, ws, k)
<1>0. \A i \in 1..n : ws[i] \in Seq(S)
  BY DEF Appended
<1>1. \A i \in 0..n : g[i] \in Seq(S) /\ Len(g[i]) \in Nat
  BY DEF Appended
<1>2. ASSUME NEW i \in 1..n
      PROVE  /\ Len(g[i]) = Len(g[i - 1]) + Len(ws[i])
             /\ \A j \in 1..Len(g[i - 1]) : g[i][j] = g[i - 1][j]
             /\ \A j \in 1..Len(ws[i]) : g[i][Len(g[i - 1]) + j] = ws[i][j]
  <2> DEFINE a == g[i - 1]
             b == ws[i]
  <2>1. a \in Seq(S) /\ b \in Seq(S)
    BY <1>0, <1>1
  <2>2. g[i] = a \o b
    BY DEF Appended
  <2> HIDE DEF a, b
  <2>3. /\ Len(a \o b) = Len(a) + Len(b)
        /\ \A j \in 1..Len(a) : (a \o b)[j] = a[j]
        /\ \A j \in 1..Len(b) : (a \o b)[Len(a) + j] = b[j]
    BY <2>1, Concat
  <2> QED
    BY <2>2, <2>3 DEF a, b
<1> DEFINE D == {i \in Nat : k + i <= n =>
                   /\ Len(g[k]) <= Len(g[k + i])
                   /\ \A j \in 1..Len(g[k]) : g[k + i][j] = g[k][j]}
<1>3. 0 \in D
  BY <1>1
<1>4. ASSUME NEW i \in Nat, i \in D PROVE i + 1 \in D
  <2> DEFINE m == k + (i + 1)
  <2> SUFFICES ASSUME m <= n
               PROVE  Len(g[k]) <= Len(g[m]) /\ \A j \in 1..Len(g[k]) : g[m][j] = g[k][j]
    OBVIOUS
  <2>1. m \in 1..n /\ m - 1 = k + i
    OBVIOUS
  <2>2. Len(g[k]) <= Len(g[k + i]) /\ \A j \in 1..Len(g[k]) : g[k + i][j] = g[k][j]
    BY <1>4, <2>1
  <2> HIDE DEF m
  <2>3. Len(ws[m]) \in Nat
    BY <1>0, <2>1
  <2> DEFINE x == Len(g[k])
             y == Len(g[m - 1])
             z == Len(g[m])
             w == Len(ws[m])
  <2>4. x \in Nat /\ y \in Nat /\ z \in Nat /\ w \in Nat
    BY <1>1, <2>1, <2>3
  <2>5. x <= y /\ \A j \in 1..x : g[m - 1][j] = g[k][j]
    BY <2>1, <2>2
  <2>6. z = y + w /\ \A j \in 1..y : g[m][j] = g[m - 1][j]
    BY <1>2, <2>1
  <2> HIDE DEF x, y, z, w
  <2>7. x <= z
    BY <2>4, <2>5, <2>6
  <2>8. \A j \in 1..x : g[m][j] = g[k][j]
    <3> SUFFICES ASSUME NEW j \in 1..x PROVE g[m][j] = g[k][j]
      OBVIOUS
    <3>1. j \in 1..y
      BY <2>4, <2>5
    <3> QED
      BY <2>5, <2>6, <3>1
  <2> QED
    BY <2>7, <2>8 DEF x, z
<1>5. \A i \in Nat : i \in D
  <2> HIDE DEF D
  <2> QED
    BY <1>3, <1>4, SetInduction
<1>6. \A j \in 1..Len(g[k]) : g[n][j] = g[k][j]
  <2> DEFINE i == n - k
  <2>1. i \in Nat /\ k + i = n
    OBVIOUS
  <2> HIDE DEF i
  <2> QED
    BY <1>5, <2>1
<1> DEFINE a == Len(g[k - 1])
           w == Len(ws[k])
<1>7. Len(g[k]) = a + w /\ \A j \in 1..w : g[k][a + j] = ws[k][j]
  BY <1>2
<1>8. a \in Nat /\ w \in Nat
  BY <1>0, <1>1
<1>9. \A j \in 1..(a + w) : g[n][j] = g[k][j]
  BY <1>6, <1>7
<1> HIDE DEF a, w
<1>10. \A j \in 1..w : g[n][a + j] = ws[k][j]
  <2> SUFFICES ASSUME NEW j \in 1..w PROVE g[n][a + j] = ws[k][j]
    OBVIOUS
  <2>1. a + j \in 1..(a + w)
    BY <1>8
  <2> QED
    BY <1>7, <1>9, <2>1
<1> QED
  BY <1>7, <1>10 DEF a, w, SitsAt

\* Every rule has such a layout.
LEMMA TextLaid ==
  ASSUME NEW cs \in Seq(Phrases), cs # <<>>
  PROVE  \E off : Laid(cs, Text(cs), off)
<1> DEFINE n == Len(cs)
           ws == [k \in DOMAIN cs |-> Words(cs[k])]
<1>1. n \in Nat \ {0} /\ DOMAIN cs = 1..n /\ \A k \in 1..n : cs[k] \in Phrases
  OBVIOUS
<1>2. \A k \in 1..n : ws[k] \in Seq(Token) /\ ws[k] = Words(cs[k])
  BY <1>1, WordsOf
<1>3. Len(ws) = n
  BY <1>1
<1>4. Text(cs) = FlattenSeq(ws)
  BY DEF Text
<1> HIDE DEF ws, n
<1>5. PICK g : Appended(g, Token, n, ws) /\ Text(cs) = g[n]
  BY <1>1, <1>2, <1>3, <1>4, FlattenIs
<1> DEFINE off == [i \in 0..n |-> Len(g[i])]
           ts == Text(cs)
<1>6. ts \in Seq(Token) /\ off \in [0..n -> Nat] /\ off[0] = 0 /\ off[n] = Len(ts)
  BY <1>1, <1>5 DEF Appended
<1>7. ASSUME NEW k \in 1..n
      PROVE  /\ off[k] = off[k - 1] + Len(Words(cs[k]))
             /\ \A j \in 1..Len(Words(cs[k])) : ts[off[k - 1] + j] = Words(cs[k])[j]
  <2>1. /\ Len(g[k]) = Len(g[k - 1]) + Len(ws[k])
        /\ \A j \in 1..Len(ws[k]) : g[n][Len(g[k - 1]) + j] = ws[k][j]
    <3>1. SitsAt(g, n, ws, k)
      BY <1>1, <1>5, AppendedAt
    <3> QED
      BY <3>1 DEF SitsAt
  <2>2. off[k] = Len(g[k]) /\ off[k - 1] = Len(g[k - 1])
    BY <1>1
  <2> HIDE DEF off
  <2> QED
    BY <1>2, <1>5, <2>1, <2>2
<1> HIDE DEF off, ts
<1>8. Laid(cs, ts, off)
  BY <1>6, <1>7 DEF Laid, n
<1> QED
  BY <1>8 DEF ts

\* The kinds of a layout.
LEMMA LaidType ==
  ASSUME NEW cs \in Seq(Phrases), NEW ts, NEW off, Laid(cs, ts, off)
  PROVE  /\ Len(cs) \in Nat /\ \A i \in 0..Len(cs) : off[i] \in Nat
         /\ ts \in Seq(Token) /\ Len(ts) \in Nat
         /\ off[0] = 0 /\ off[Len(cs)] = Len(ts)
<1> DEFINE n == Len(cs)
<1>1. n \in Nat
  OBVIOUS
<1>2. off \in [0..n -> Nat] /\ ts \in Seq(Token) /\ off[0] = 0 /\ off[n] = Len(ts)
  BY DEF Laid
<1>3. Len(ts) \in Nat
  BY <1>2
<1> HIDE DEF n
<1>4. \A i \in 0..n : off[i] \in Nat
  BY <1>2
<1> QED
  BY <1>1, <1>2, <1>3, <1>4 DEF n

\* The words of clause k in the text.
LEMMA LaidAt ==
  ASSUME NEW cs \in Seq(Phrases), NEW ts, NEW off, Laid(cs, ts, off), NEW k \in 1..Len(cs)
  PROVE  LET c == cs[k]
             at == off[k - 1] + 1
         IN  /\ c \in Phrases /\ off[k - 1] \in Nat /\ off[k] \in Nat
             /\ c.kind \in {"dir", "word"} => off[k] = at /\ ts[at] = c.word
             /\ c.kind \notin {"dir", "word"} =>
                  off[k] >= at + 1 /\ ts[at] = c.kind /\ ts[at + 1] = c.word
             /\ c.kind \in {"on", "port", "proto"} => off[k] = at + 1
             /\ c.kind \in {"from", "to"} /\ c.port = None => off[k] = at + 1
             /\ c.kind \in {"from", "to"} /\ c.port # None =>
                  off[k] = at + 3 /\ ts[at + 2] = "port" /\ ts[at + 3] = c.port
             /\ off[k] >= at
<1> DEFINE c == cs[k]
           w == Words(c)
           b == off[k - 1]
           e == off[k]
<1>1. Len(cs) \in Nat /\ c \in Phrases
  OBVIOUS
<1>2. b \in Nat /\ e \in Nat
  BY <1>1, LaidType
<1>3. e = b + Len(w) /\ \A j \in 1..Len(w) : ts[b + j] = w[j]
  BY DEF Laid
<1>4. /\ c.kind \in {"dir", "word"} => Len(w) = 1 /\ w[1] = c.word
      /\ c.kind \notin {"dir", "word"} => Len(w) >= 2 /\ w[1] = c.kind /\ w[2] = c.word
      /\ c.kind \in {"on", "port", "proto"} => Len(w) = 2
      /\ c.kind \in {"from", "to"} /\ c.port = None => Len(w) = 2
      /\ c.kind \in {"from", "to"} /\ c.port # None => Len(w) = 4 /\ w[3] = "port" /\ w[4] = c.port
      /\ Len(w) \in {1, 2, 4}
  BY <1>1, WordsOf
<1> HIDE DEF w, b, e, c
<1>5. Len(w) >= 1 => ts[b + 1] = w[1]
  BY <1>3, <1>4
<1>6. Len(w) >= 2 => ts[(b + 1) + 1] = w[2]
  <2>1. (b + 1) + 1 = b + 2
    BY <1>2
  <2> QED
    BY <1>3, <1>4, <2>1
<1>7. Len(w) = 4 => ts[(b + 1) + 2] = w[3] /\ ts[(b + 1) + 3] = w[4]
  <2>1. (b + 1) + 2 = b + 3 /\ (b + 1) + 3 = b + 4
    BY <1>2
  <2> QED
    BY <1>3, <2>1
<1>8. CASE c.kind \in {"dir", "word"}
  <2>1. e = b + 1 /\ ts[b + 1] = c.word
    BY <1>2, <1>3, <1>4, <1>5, <1>8
  <2> QED
    BY <1>1, <1>2, <1>8, <2>1 DEF b, e, c
<1>9. CASE c.kind \notin {"dir", "word"}
  <2>1. ts[b + 1] = c.kind /\ ts[(b + 1) + 1] = c.word /\ e >= (b + 1) + 1 /\ e >= b + 1
    BY <1>2, <1>3, <1>4, <1>5, <1>6, <1>9
  <2>2. Len(w) = 2 => e = (b + 1) + 1
    BY <1>2, <1>3
  <2>3. Len(w) = 4 => e = (b + 1) + 3
    BY <1>2, <1>3
  <2> QED
    BY <1>1, <1>2, <1>4, <1>7, <1>9, <2>1, <2>2, <2>3 DEF b, e, c
<1> QED
  BY <1>8, <1>9

\* Later clauses come later.
LEMMA OffGrows ==
  ASSUME NEW cs \in Seq(Phrases), NEW ts, NEW off, Laid(cs, ts, off),
         NEW j \in 0..Len(cs), NEW k \in 0..Len(cs), j < k
  PROVE  off[j] < off[k]
<1> DEFINE n == Len(cs)
           D == {i \in Nat : j + 1 + i <= n => off[j] < off[j + 1 + i]}
<1>1. n \in Nat /\ \A i \in 0..n : off[i] \in Nat
  BY LaidType
<1>2. \A i \in 1..n : off[i] >= off[i - 1] + 1
  BY LaidAt
<1>3. 0 \in D
  <2>1. CASE j + 1 <= n
    <3>1. j + 1 \in 1..n /\ (j + 1) - 1 = j
      BY <1>1, <2>1
    <3>2. off[j + 1] >= off[j] + 1
      BY <1>2, <3>1
    <3> QED
      BY <1>1, <3>1, <3>2
  <2> QED
    BY <1>1, <2>1
<1>4. ASSUME NEW i \in Nat, i \in D PROVE i + 1 \in D
  <2> DEFINE m == j + 1 + (i + 1)
  <2> SUFFICES ASSUME m <= n PROVE off[j] < off[m]
    OBVIOUS
  <2>1. m \in 1..n /\ m - 1 = j + 1 + i
    BY <1>1
  <2>2. off[j] < off[m - 1]
    BY <1>4, <2>1
  <2> HIDE DEF m
  <2>3. off[m] >= off[m - 1] + 1 /\ off[m] \in Nat /\ off[m - 1] \in Nat /\ off[j] \in Nat
    BY <1>1, <1>2, <2>1
  <2> QED
    BY <2>2, <2>3
<1>5. \A i \in Nat : i \in D
  <2> HIDE DEF D
  <2> QED
    BY <1>3, <1>4, SetInduction
<1> DEFINE i == k - (j + 1)
<1>6. i \in Nat /\ j + 1 + i = k
  BY <1>1
<1> HIDE DEF i
<1>7. j + 1 + i <= n => off[j] < off[j + 1 + i]
  BY <1>5, <1>6
<1> HIDE DEF D
<1> QED
  BY <1>1, <1>6, <1>7

-----------------------------------------------------------------------------
(* One pass of the loop of parse_full_grammar. *)

UserRules ==
  [direction : Token, action : Token, iface : Token, proto : Token,
   src : Token, dst : Token, src_port : Token, dst_port : Token]
ParseStates == [rule : UserRules, given : SUBSET Token, at : Nat \ {0}, ok : BOOLEAN]

\* The state after taking n words.
Taken(t, s, n, given, rule) ==
  /\ t \in ParseStates
  /\ t.at = s.at + n /\ t.given = s.given \cup given /\ t.rule = rule /\ t.ok = s.ok

\* Taking a clause and refusing one.
LEMMA TakeIs ==
  ASSUME NEW s \in ParseStates, NEW n \in Nat, NEW given, given \subseteq Token,
         NEW rule \in UserRules
  PROVE  Taken(Take(s, n, given, rule), s, n, given, rule)
<1>1. s.at \in Nat \ {0} /\ s.given \in SUBSET Token /\ s.ok \in BOOLEAN
  BY DEF ParseStates
<1> DEFINE at == s.at + n
           all == s.given \cup given
<1>2. at \in Nat \ {0} /\ all \in SUBSET Token
  BY <1>1
<1>3. Take(s, n, given, rule) = [s EXCEPT !.at = at, !.given = all, !.rule = rule]
  BY DEF Take
<1> HIDE DEF at, all
<1> DEFINE t == [s EXCEPT !.at = at, !.given = all, !.rule = rule]
<1>4. t \in ParseStates /\ t.at = at /\ t.given = all /\ t.rule = rule /\ t.ok = s.ok
  BY <1>1, <1>2 DEF ParseStates
<1> HIDE DEF t
<1> QED
  BY <1>3, <1>4 DEF at, all, t, Taken

\* A refusal is a state in which nothing is taken any more.
LEMMA RefuseIs ==
  ASSUME NEW s \in ParseStates
  PROVE  Refuse(s) \in ParseStates /\ ~Refuse(s).ok
  BY DEF Refuse, ParseStates

\* The fields of a rule that a clause sets, and those that it leaves alone.
LEMMA SetFields ==
  ASSUME NEW r \in UserRules, NEW v \in Token, NEW w \in Token
  PROVE  /\ [r EXCEPT !.iface = v] \in UserRules
         /\ [r EXCEPT !.proto = v] \in UserRules
         /\ [r EXCEPT !.src = v] \in UserRules
         /\ [r EXCEPT !.dst = v] \in UserRules
         /\ [r EXCEPT !.dst_port = v] \in UserRules
         /\ [r EXCEPT !.src = v, !.src_port = w] \in UserRules
         /\ [r EXCEPT !.dst = v, !.dst_port = w] \in UserRules
  BY DEF UserRules

\* A protocol that is accepted is one of four.
LEMMA ProtoIs ==
  ASSUME NEW w
  PROVE  /\ parse_proto(w).ok <=> Protocol(w) \in {"tcp", "udp", "icmp", "any"}
         /\ parse_proto(w).ok => parse_proto(w).value = Protocol(w) /\ Protocol(w) \in Token
<1> DEFINE p == Protocol(w)
<1>1. parse_proto(w) = IF p \in {"tcp", "udp", "icmp", "any"} THEN [ok |-> TRUE, value |-> p]
                       ELSE [ok |-> FALSE]
  BY DEF parse_proto, Protocol, Ok, Err
<1> HIDE DEF p
<1>2. p \in {"tcp", "udp", "icmp", "any"} => p \in Token
  BY DEF Token
<1> QED
  BY <1>1, <1>2 DEF p

\* A clause that is taken is two or four words long.
LEMMA TakeClauseType ==
  ASSUME NEW ts \in Seq(Token), NEW s \in ParseStates, s.at < Len(ts)
  PROVE  LET t == TakeClause(ts, s)
         IN  t \in ParseStates /\ (t.ok => t.at >= s.at + 2)
<1> DEFINE clause == ts[s.at]
           word == ts[s.at + 1]
           addr == IF word = "any" THEN None ELSE word
           port == TakesPort(ts, s.at)
           whole == s.at + 3 <= Len(ts)
           own == ts[s.at + 3]
           t == TakeClause(ts, s)
<1>1. s.at \in Nat \ {0} /\ Len(ts) \in Nat /\ s.rule \in UserRules /\ s.ok \in BOOLEAN
  BY DEF ParseStates
<1>2. clause \in Token /\ word \in Token /\ (whole => own \in Token)
  BY <1>1
<1>3. addr \in Token
  BY <1>2 DEF Token
<1>4. /\ {"on"} \in SUBSET Token /\ {"from"} \in SUBSET Token /\ {"to"} \in SUBSET Token
      /\ {"port"} \in SUBSET Token /\ {"proto"} \in SUBSET Token
      /\ {"to", "port"} \in SUBSET Token
  BY DEF Token, Keywords
<1>5. \A n \in {2, 4}, given \in SUBSET Token, r \in UserRules :
        Take(s, n, given, r) \in ParseStates /\ Take(s, n, given, r).at >= s.at + 2
  <2> SUFFICES ASSUME NEW n \in {2, 4}, NEW given \in SUBSET Token, NEW r \in UserRules
               PROVE  /\ Take(s, n, given, r) \in ParseStates
                      /\ Take(s, n, given, r).at >= s.at + 2
    OBVIOUS
  <2>1. n \in Nat
    OBVIOUS
  <2>2. Taken(Take(s, n, given, r), s, n, given, r)
    BY <2>1, TakeIs
  <2> QED
    BY <1>1, <2>2 DEF Taken
<1>6. Refuse(s) \in ParseStates /\ ~Refuse(s).ok
  BY RefuseIs
<1> DEFINE r == s.rule
<1>7. /\ [r EXCEPT !.iface = word] \in UserRules
      /\ [r EXCEPT !.src = addr] \in UserRules
      /\ [r EXCEPT !.dst = addr] \in UserRules
      /\ [r EXCEPT !.dst_port = word] \in UserRules
      /\ whole => [r EXCEPT !.src = addr, !.src_port = own] \in UserRules
      /\ whole => [r EXCEPT !.dst = addr, !.dst_port = own] \in UserRules
      /\ parse_proto(word).ok => [r EXCEPT !.proto = parse_proto(word).value] \in UserRules
  BY <1>1, <1>2, <1>3, SetFields, ProtoIs
<1>8. \/ t = Take(s, 2, {"on"}, [r EXCEPT !.iface = word])
      \/ t = Take(s, 2, {"from"}, [r EXCEPT !.src = addr])
      \/ t = Take(s, 4, {"from"}, [r EXCEPT !.src = addr, !.src_port = own]) /\ whole
      \/ t = Take(s, 2, {"to"}, [r EXCEPT !.dst = addr])
      \/ t = Take(s, 4, {"to", "port"}, [r EXCEPT !.dst = addr, !.dst_port = own]) /\ whole
      \/ t = Take(s, 2, {"port"}, [r EXCEPT !.dst_port = word])
      \/ t = Take(s, 2, {"proto"}, [r EXCEPT !.proto = parse_proto(word).value])
           /\ parse_proto(word).ok
      \/ t = Refuse(s)
  BY DEF TakeClause
<1> HIDE DEF t, addr, word, own, whole, r
<1> QED
  BY <1>4, <1>5, <1>6, <1>7, <1>8 DEF t

\* A pass.
LEMMA ClauseStepType ==
  ASSUME NEW ts \in Seq(Token), NEW s \in ParseStates
  PROVE  LET t == ClauseStep(ts, s)
         IN  /\ t \in ParseStates
             /\ t.ok => s.ok /\ ((s.at > Len(ts) /\ t = s) \/ t.at >= s.at + 2)
<1>1. s.at \in Nat \ {0} /\ Len(ts) \in Nat /\ s.ok \in BOOLEAN
  BY DEF ParseStates
<1>2. CASE ~s.ok \/ s.at > Len(ts)
  <2>1. ClauseStep(ts, s) = s
    BY <1>2 DEF ClauseStep
  <2> QED
    BY <1>2, <2>1
<1>3. CASE s.ok /\ ~(s.at > Len(ts)) /\ (ts[s.at] \in s.given \/ s.at = Len(ts))
  <2>1. ClauseStep(ts, s) = Refuse(s)
    BY <1>3 DEF ClauseStep
  <2> QED
    BY <2>1, RefuseIs
<1>4. CASE s.ok /\ ~(s.at > Len(ts)) /\ ~(ts[s.at] \in s.given \/ s.at = Len(ts))
  <2>1. ClauseStep(ts, s) = TakeClause(ts, s)
    BY <1>4 DEF ClauseStep
  <2>2. s.at < Len(ts)
    BY <1>1, <1>4
  <2> QED
    BY <1>4, <2>1, <2>2, TakeClauseType
<1> QED
  BY <1>2, <1>3, <1>4

ParseStart(rule, at) == [rule |-> rule, given |-> {}, at |-> at, ok |-> TRUE]

\* The passes are what their definition says; as long as nothing is refused each
\* of them moves on, so that after the last there is no word left.
LEMMA ClausesDef ==
  ASSUME NEW rule \in UserRules, NEW ts \in Seq(Token), NEW at \in Nat \ {0}
  PROVE  LET pass == Clauses(rule, ts, at)
         IN  /\ pass[0] = ParseStart(rule, at)
             /\ \A i \in 0..Len(ts) : pass[i] \in ParseStates
             /\ \A i \in 1..Len(ts) : pass[i] = ClauseStep(ts, pass[i - 1])
             /\ pass[Len(ts)].ok => pass[Len(ts)].at > Len(ts)
<1> DEFINE N == Len(ts)
           pass == Clauses(rule, ts, at)
           start == ParseStart(rule, at)
           P(h) == h = [i \in 0..N |-> IF i = 0 THEN start ELSE ClauseStep(ts, h[i - 1])]
           step == [x \in Nat \X ParseStates |-> ClauseStep(ts, x[2])]
<1>1. N \in Nat
  OBVIOUS
<1>2. step \in Steps(ParseStates)
  BY ClauseStepType DEF Steps
<1>3. start \in ParseStates
  BY DEF ParseStart, ParseStates
<1>4. PICK g : Orbit(g, ParseStates, start, step, N)
  <2> HIDE DEF step, N, start
  <2> QED
    BY <1>1, <1>2, <1>3, Iteration
<1>5. g \in [0..N -> ParseStates] /\ g[0] = start
  BY <1>4 DEF Orbit
<1>6. \A i \in 1..N : g[i] = ClauseStep(ts, g[i - 1])
  <2> SUFFICES ASSUME NEW i \in 1..N PROVE g[i] = ClauseStep(ts, g[i - 1])
    OBVIOUS
  <2>1. g[i] = step[<<i, g[i - 1]>>]
    BY <1>4 DEF Orbit
  <2>2. <<i, g[i - 1]>> \in Nat \X ParseStates
    <3>1. i \in Nat /\ i - 1 \in 0..N
      BY <1>1
    <3> HIDE DEF N
    <3>2. g[i - 1] \in ParseStates
      BY <1>5, <3>1
    <3> QED
      BY <3>1, <3>2
  <2> QED
    BY <2>1, <2>2
<1>7. \E h : P(h)
  <2> HIDE DEF step, N, start
  <2>1. \A i \in 0..N : g[i] = IF i = 0 THEN start ELSE ClauseStep(ts, g[i - 1])
    BY <1>1, <1>5, <1>6
  <2>2. P(g)
    BY <1>5, <2>1
  <2> HIDE DEF P
  <2> QED
    BY <2>2
<1>8. pass = CHOOSE h : P(h)
  BY DEF Clauses, ParseStart
<1>9. P(pass)
  <2> HIDE DEF P, pass
  <2> QED
    BY <1>7, <1>8
<1> HIDE DEF pass, N, start
<1>10. pass[0] = start /\ \A i \in 1..N : pass[i] = ClauseStep(ts, pass[i - 1])
  BY <1>1, <1>9
<1> DEFINE D == {i \in Nat : i <= N => /\ pass[i] \in ParseStates
                                       /\ pass[i].ok => pass[i].at > i \/ pass[i].at > N}
<1>11. 0 \in D
  <2>1. start.at > 0
    BY DEF start, ParseStart
  <2> QED
    BY <1>3, <1>10, <2>1
<1>12. ASSUME NEW i \in Nat, i \in D PROVE i + 1 \in D
  <2> SUFFICES ASSUME i + 1 <= N
               PROVE  /\ pass[i + 1] \in ParseStates
                      /\ pass[i + 1].ok => pass[i + 1].at > i + 1 \/ pass[i + 1].at > N
    OBVIOUS
  <2> DEFINE s == pass[i]
             t == pass[i + 1]
  <2>1. s \in ParseStates /\ (s.ok => s.at > i \/ s.at > N)
    BY <1>1, <1>12
  <2>2. t = ClauseStep(ts, s)
    <3>1. i + 1 \in 1..N /\ (i + 1) - 1 = i
      BY <1>1
    <3> QED
      BY <1>10, <3>1
  <2> HIDE DEF s, t
  <2>3. t \in ParseStates /\ (t.ok => s.ok /\ ((s.at > N /\ t = s) \/ t.at >= s.at + 2))
    BY <2>1, <2>2, ClauseStepType DEF N
  <2>4. s.at \in Nat /\ t.at \in Nat
    BY <2>1, <2>3 DEF ParseStates
  <2> QED
    BY <1>1, <2>1, <2>3, <2>4 DEF t
<1>13. \A i \in Nat : i \in D
  <2> HIDE DEF D
  <2> QED
    BY <1>11, <1>12, SetInduction
<1>14. \A i \in 0..N : pass[i] \in ParseStates
  BY <1>1, <1>13
<1>15. pass[N].ok => pass[N].at > N
  BY <1>1, <1>13
<1> QED
  BY <1>10, <1>14, <1>15 DEF N, pass, start

-----------------------------------------------------------------------------
(* What the loop knows of the first k clauses. *)

IsDst(cs, k) ==
  (cs[k].kind = "port" /\ ~AfterFrom(cs, k)) \/ (cs[k].kind = "to" /\ cs[k].port # None)
IsSrc(cs, k) ==
  (cs[k].kind = "port" /\ AfterFrom(cs, k)) \/ (cs[k].kind = "from" /\ cs[k].port # None)

Of(cs, kind, k) == {j \in OfKind(cs, kind) : j <= k}
Dst(cs, k) == {j \in DstPorts(cs) : j <= k}
Src(cs, k) == {j \in SrcPorts(cs) : j <= k}

Once == {"on", "from", "to", "proto"}
Protocols == {"tcp", "udp", "icmp", "any"}
Addr(word) == IF word = "any" THEN None ELSE word

\* They are grammatical.
Legal(cs, k) ==
  /\ Of(cs, "dir", k) \subseteq {1} /\ Of(cs, "word", k) = {}
  /\ \A kind \in Once : AtMostOne(Of(cs, kind, k))
  /\ AtMostOne(Dst(cs, k))
  /\ \A j \in Of(cs, "on", k) : cs[j].word \in DOMAIN Ifindex
  /\ \A j \in Of(cs, "proto", k) : Protocol(cs[j].word) \in Protocols

\* The clauses given are remembered.
Kept(cs, k, given) ==
  /\ given \subseteq Once \cup {"port"}
  /\ \A kind \in Once : kind \in given <=> Of(cs, kind, k) # {}
  /\ "port" \in given <=> Dst(cs, k) # {}

\* The rule says what they say.
Said(cs, k, r) ==
  /\ r.direction = IF Of(cs, "dir", k) = {} THEN "in" ELSE cs[1].word
  /\ IF Of(cs, "on", k) = {} THEN r.iface = None
     ELSE \A j \in Of(cs, "on", k) : r.iface = cs[j].word
  /\ IF Of(cs, "proto", k) = {} THEN r.proto = None
     ELSE \A j \in Of(cs, "proto", k) : r.proto = Protocol(cs[j].word)
  /\ IF Of(cs, "from", k) = {} THEN r.src = None
     ELSE \A j \in Of(cs, "from", k) : r.src = Addr(cs[j].word)
  /\ IF Of(cs, "to", k) = {} THEN r.dst = None
     ELSE \A j \in Of(cs, "to", k) : r.dst = Addr(cs[j].word)
  /\ IF Src(cs, k) = {} THEN r.src_port = None
     ELSE \A j \in Src(cs, k) : r.src_port = PortWord(cs[j])
  /\ IF Dst(cs, k) = {} THEN r.dst_port = None
     ELSE \A j \in Dst(cs, k) : r.dst_port = PortWord(cs[j])

\* One clause more.
LEMMA OneMore ==
  ASSUME NEW cs \in Seq(Phrases), NEW k \in Nat, k < Len(cs)
  PROVE  LET c == cs[k + 1]
         IN  /\ \A kind : Of(cs, kind, k + 1) = IF c.kind = kind THEN Of(cs, kind, k) \cup {k + 1}
                                                ELSE Of(cs, kind, k)
             /\ Dst(cs, k + 1) = IF IsDst(cs, k + 1) THEN Dst(cs, k) \cup {k + 1} ELSE Dst(cs, k)
             /\ Src(cs, k + 1) = IF IsSrc(cs, k + 1) THEN Src(cs, k) \cup {k + 1} ELSE Src(cs, k)
<1> DEFINE n == Len(cs)
<1>1. n \in Nat /\ DOMAIN cs = 1..n /\ k + 1 \in 1..n
  OBVIOUS
<1>2. \A j \in 1..n : j <= k + 1 <=> j <= k \/ j = k + 1
  BY <1>1
<1> HIDE DEF n
<1>3. \A kind : Of(cs, kind, k + 1) = IF cs[k + 1].kind = kind THEN Of(cs, kind, k) \cup {k + 1}
                                      ELSE Of(cs, kind, k)
  BY <1>1, <1>2 DEF Of, OfKind
<1>4. \A j \in 1..n : j \in DstPorts(cs) <=> IsDst(cs, j)
  BY <1>1 DEF DstPorts, OfKind, IsDst
<1>5. \A j \in 1..n : j \in SrcPorts(cs) <=> IsSrc(cs, j)
  BY <1>1 DEF SrcPorts, OfKind, IsSrc
<1>6. DstPorts(cs) \subseteq 1..n /\ SrcPorts(cs) \subseteq 1..n
  BY <1>1 DEF DstPorts, SrcPorts, OfKind
<1>7. Dst(cs, k + 1) = IF IsDst(cs, k + 1) THEN Dst(cs, k) \cup {k + 1} ELSE Dst(cs, k)
  BY <1>1, <1>2, <1>4, <1>6 DEF Dst
<1>8. Src(cs, k + 1) = IF IsSrc(cs, k + 1) THEN Src(cs, k) \cup {k + 1} ELSE Src(cs, k)
  BY <1>1, <1>2, <1>5, <1>6 DEF Src
<1> QED
  BY <1>3, <1>7, <1>8

\* With one `from` there is one source port.
LEMMA SrcFresh ==
  ASSUME NEW cs \in Seq(Phrases), NEW k \in Nat, k < Len(cs), Legal(cs, k), IsSrc(cs, k + 1),
         cs[k + 1].kind = "from" => Of(cs, "from", k) = {}
  PROVE  Src(cs, k) = {}
<1> DEFINE n == Len(cs)
<1>1. n \in Nat /\ DOMAIN cs = 1..n /\ k + 1 \in 1..n
  OBVIOUS
<1> SUFFICES ASSUME NEW j \in Src(cs, k) PROVE FALSE
  OBVIOUS
<1>2. j \in 1..n /\ j <= k /\ IsSrc(cs, j)
  BY <1>1 DEF Src, SrcPorts, OfKind, IsSrc
<1> HIDE DEF n
<1>3. PICK i \in 1..n : /\ i <= k /\ cs[i].kind = "from"
                        /\ (i = j /\ cs[i].port # None) \/ (i + 1 = j)
  <2>1. CASE cs[j].kind = "from" /\ cs[j].port # None
    BY <1>2, <2>1
  <2>2. CASE AfterFrom(cs, j)
    <3>1. j - 1 \in 1..n /\ j - 1 <= k /\ cs[j - 1].kind = "from" /\ (j - 1) + 1 = j
      BY <1>1, <1>2, <2>2 DEF AfterFrom
    <3> QED
      BY <3>1
  <2> QED
    BY <1>2, <2>1, <2>2 DEF IsSrc
<1>4. i \in Of(cs, "from", k)
  BY <1>1, <1>3 DEF Of, OfKind
<1>5. cs[k + 1].kind = "port" /\ AfterFrom(cs, k + 1)
  BY <1>4 DEF IsSrc
<1>6. k \in 1..n /\ cs[k].kind = "from" /\ cs[k].port = None
  BY <1>1, <1>5 DEF AfterFrom
<1>7. k \in Of(cs, "from", k)
  BY <1>1, <1>6 DEF Of, OfKind
<1>8. i = k
  BY <1>4, <1>7 DEF Legal, AtMostOne, Once
<1> QED
  BY <1>2, <1>3, <1>6, <1>8

\* Clause k + 1 may follow the first k, of which `given` is remembered.
Fits(cs, k, given) ==
  LET c == cs[k + 1]
  IN  /\ c.kind \in Once \cup {"port"}
      /\ c.kind \in Once => c.kind \notin given
      /\ IsDst(cs, k + 1) => "port" \notin given
      /\ c.kind = "on" => c.word \in DOMAIN Ifindex
      /\ c.kind = "proto" => Protocol(c.word) \in Protocols

\* It adds r2 to rule r and `more` to the clauses given.
Adds(cs, k, r, r2, more) ==
  LET c == cs[k + 1]
  IN  /\ more = (IF c.kind \in Once THEN {c.kind} ELSE {})
                  \cup (IF IsDst(cs, k + 1) THEN {"port"} ELSE {})
      /\ r2.direction = r.direction
      /\ r2.iface = IF c.kind = "on" THEN c.word ELSE r.iface
      /\ r2.proto = IF c.kind = "proto" THEN Protocol(c.word) ELSE r.proto
      /\ r2.src = IF c.kind = "from" THEN Addr(c.word) ELSE r.src
      /\ r2.dst = IF c.kind = "to" THEN Addr(c.word) ELSE r.dst
      /\ r2.src_port = IF IsSrc(cs, k + 1) THEN PortWord(c) ELSE r.src_port
      /\ r2.dst_port = IF IsDst(cs, k + 1) THEN PortWord(c) ELSE r.dst_port

\* A clause that fits extends what is known.
LEMMA Extend ==
  ASSUME NEW cs \in Seq(Phrases), NEW k \in Nat, k < Len(cs), NEW g, NEW r, NEW r2, NEW more,
         Legal(cs, k), Kept(cs, k, g), Said(cs, k, r),
         Fits(cs, k, g), Adds(cs, k, r, r2, more)
  PROVE  Legal(cs, k + 1) /\ Kept(cs, k + 1, g \cup more) /\ Said(cs, k + 1, r2)
<1> DEFINE c == cs[k + 1]
           m == k + 1
<1>1. /\ \A kind : Of(cs, kind, m) = IF c.kind = kind THEN Of(cs, kind, k) \cup {m}
                                     ELSE Of(cs, kind, k)
      /\ Dst(cs, m) = IF IsDst(cs, m) THEN Dst(cs, k) \cup {m} ELSE Dst(cs, k)
      /\ Src(cs, m) = IF IsSrc(cs, m) THEN Src(cs, k) \cup {m} ELSE Src(cs, k)
  BY OneMore
<1>2. c.kind # "dir" /\ c.kind # "word"
  BY DEF Fits, Once
<1>3. Of(cs, "dir", m) = Of(cs, "dir", k) /\ Of(cs, "word", m) = Of(cs, "word", k)
  BY <1>1, <1>2
<1>4. \A kind \in Once : IF c.kind = kind THEN Of(cs, kind, k) = {} /\ Of(cs, kind, m) = {m}
                         ELSE Of(cs, kind, m) = Of(cs, kind, k)
  BY <1>1 DEF Fits, Kept
<1>5. IF IsDst(cs, m) THEN Dst(cs, k) = {} /\ Dst(cs, m) = {m} ELSE Dst(cs, m) = Dst(cs, k)
  BY <1>1 DEF Fits, Kept
<1>6. IF IsSrc(cs, m) THEN Src(cs, k) = {} /\ Src(cs, m) = {m} ELSE Src(cs, m) = Src(cs, k)
  <2>1. CASE IsSrc(cs, m)
    <3>1. c.kind = "from" => Of(cs, "from", k) = {}
      BY <1>4 DEF Once
    <3>2. Src(cs, k) = {}
      BY <2>1, <3>1, SrcFresh
    <3> QED
      BY <1>1, <2>1, <3>2
  <2> QED
    BY <1>1, <2>1
<1>7. Legal(cs, m)
  <2>1. Of(cs, "dir", m) \subseteq {1} /\ Of(cs, "word", m) = {}
    BY <1>3 DEF Legal
  <2>2. \A kind \in Once : AtMostOne(Of(cs, kind, m))
    BY <1>4 DEF Legal, AtMostOne
  <2>3. AtMostOne(Dst(cs, m))
    BY <1>5 DEF Legal, AtMostOne
  <2>4. \A j \in Of(cs, "on", m) : cs[j].word \in DOMAIN Ifindex
    BY <1>4 DEF Legal, Fits, Once
  <2>5. \A j \in Of(cs, "proto", m) : Protocol(cs[j].word) \in Protocols
    BY <1>4 DEF Legal, Fits, Once
  <2> QED
    BY <2>1, <2>2, <2>3, <2>4, <2>5 DEF Legal
<1>8. Kept(cs, m, g \cup more)
  <2>1. more \subseteq Once \cup {"port"}
    BY DEF Adds, Once
  <2>2. \A kind \in Once : kind \in more <=> c.kind = kind
    BY DEF Adds, Once
  <2>3. "port" \in more <=> IsDst(cs, m)
    BY DEF Adds, Once
  <2>4. \A kind \in Once : kind \in g \cup more <=> Of(cs, kind, m) # {}
    BY <1>4, <2>2 DEF Kept
  <2>5. "port" \in g \cup more <=> Dst(cs, m) # {}
    BY <1>5, <2>3 DEF Kept
  <2> QED
    BY <2>1, <2>4, <2>5 DEF Kept
<1>9. Said(cs, m, r2)
  <2>1. r2.direction = IF Of(cs, "dir", m) = {} THEN "in" ELSE cs[1].word
    BY <1>3 DEF Said, Adds
  <2>2. IF Of(cs, "on", m) = {} THEN r2.iface = None
        ELSE \A j \in Of(cs, "on", m) : r2.iface = cs[j].word
    BY <1>4 DEF Said, Adds, Once
  <2>3. IF Of(cs, "proto", m) = {} THEN r2.proto = None
        ELSE \A j \in Of(cs, "proto", m) : r2.proto = Protocol(cs[j].word)
    BY <1>4 DEF Said, Adds, Once
  <2>4. IF Of(cs, "from", m) = {} THEN r2.src = None
        ELSE \A j \in Of(cs, "from", m) : r2.src = Addr(cs[j].word)
    BY <1>4 DEF Said, Adds, Once
  <2>5. IF Of(cs, "to", m) = {} THEN r2.dst = None
        ELSE \A j \in Of(cs, "to", m) : r2.dst = Addr(cs[j].word)
    BY <1>4 DEF Said, Adds, Once
  <2>6. IF Src(cs, m) = {} THEN r2.src_port = None
        ELSE \A j \in Src(cs, m) : r2.src_port = PortWord(cs[j])
    BY <1>6 DEF Said, Adds
  <2>7. IF Dst(cs, m) = {} THEN r2.dst_port = None
        ELSE \A j \in Dst(cs, m) : r2.dst_port = PortWord(cs[j])
    BY <1>5 DEF Said, Adds
  <2> QED
    BY <2>1, <2>2, <2>3, <2>4, <2>5, <2>6, <2>7 DEF Said
<1> QED
  BY <1>7, <1>8, <1>9

\* A rule with a later clause m that does not fit is not grammatical.
LEMMA Illegal ==
  ASSUME NEW cs \in Seq(Phrases), NEW k \in Nat, NEW m \in (k + 1)..Len(cs), NEW g, Kept(cs, k, g),
         \/ cs[m].kind \in Once /\ cs[m].kind \in g
         \/ IsDst(cs, m) /\ "port" \in g
         \/ cs[m].kind = "on" /\ cs[m].word \notin DOMAIN Ifindex
         \/ cs[m].kind = "proto" /\ Protocol(cs[m].word) \notin Protocols
         \/ cs[m].kind = "word"
         \/ cs[m].kind = "dir" /\ m # 1
  PROVE  ~Grammatical(cs)
<1> DEFINE n == Len(cs)
<1>1. n \in Nat /\ DOMAIN cs = 1..n
  OBVIOUS
<1>2. m \in 1..n /\ m > k
  BY <1>1
<1> HIDE DEF n
<1>3. m \in OfKind(cs, cs[m].kind) /\ (IsDst(cs, m) => m \in DstPorts(cs))
  BY <1>1, <1>2 DEF OfKind, DstPorts, IsDst
<1>4. ASSUME cs[m].kind \in Once, cs[m].kind \in g PROVE ~Grammatical(cs)
  <2>1. PICK j \in OfKind(cs, cs[m].kind) : j <= k
    BY <1>4 DEF Kept, Of
  <2>2. j # m
    BY <1>2, <2>1
  <2>3. ~AtMostOne(OfKind(cs, cs[m].kind))
    BY <1>3, <2>1, <2>2 DEF AtMostOne
  <2> QED
    BY <1>4, <2>3 DEF Grammatical, Once
<1>5. ASSUME IsDst(cs, m), "port" \in g PROVE ~Grammatical(cs)
  <2>1. PICK j \in DstPorts(cs) : j <= k
    BY <1>5 DEF Kept, Dst
  <2>2. j # m
    BY <1>2, <2>1
  <2>3. ~AtMostOne(DstPorts(cs))
    BY <1>3, <1>5, <2>1, <2>2 DEF AtMostOne
  <2> QED
    BY <2>3 DEF Grammatical
<1> QED
  BY <1>3, <1>4, <1>5 DEF Grammatical, Protocols

\* All clauses legal is a grammatical rule.
LEMMA LegalIsGrammatical ==
  ASSUME NEW cs \in Seq(Phrases)
  PROVE  Legal(cs, Len(cs)) <=> Grammatical(cs)
<1> DEFINE n == Len(cs)
<1>1. n \in Nat /\ DOMAIN cs = 1..n
  OBVIOUS
<1>2. \A kind : OfKind(cs, kind) \subseteq 1..n
  BY <1>1 DEF OfKind
<1>3. DstPorts(cs) \subseteq 1..n
  BY <1>1 DEF OfKind, DstPorts
<1> HIDE DEF n
<1>4. \A j \in 1..n : j <= n
  BY <1>1
<1>5. \A kind : Of(cs, kind, n) = OfKind(cs, kind)
  BY <1>2, <1>4 DEF Of
<1>6. Dst(cs, n) = DstPorts(cs)
  BY <1>3, <1>4 DEF Dst
<1> QED
  BY <1>5, <1>6 DEF Legal, Grammatical, Once, Protocols, n

\* The loop has taken the first k clauses, and not half of a `from ... port`.
Known(cs, off, k, s) ==
  /\ s \in ParseStates /\ s.ok /\ s.at = off[k] + 1
  /\ Legal(cs, k) /\ Kept(cs, k, s.given) /\ Said(cs, k, s.rule)
  /\ k < Len(cs) => ~AfterFrom(cs, k + 1)

\* Taking one clause that fits.
LEMMA Advance ==
  ASSUME NEW cs \in Seq(Phrases), NEW off, NEW k \in Nat, k < Len(cs), NEW s, Known(cs, off, k, s),
         NEW n \in Nat, NEW more, NEW r2 \in UserRules,
         Fits(cs, k, s.given), Adds(cs, k, s.rule, r2, more),
         s.at + n = off[k + 1] + 1, k + 1 < Len(cs) => ~AfterFrom(cs, k + 2)
  PROVE  Known(cs, off, k + 1, Take(s, n, more, r2))
<1> DEFINE t == Take(s, n, more, r2)
<1>1. s \in ParseStates /\ s.ok /\ Legal(cs, k) /\ Kept(cs, k, s.given) /\ Said(cs, k, s.rule)
  BY DEF Known
<1>2. more \subseteq Token
  BY DEF Adds, Once, Token, Keywords
<1>3. Taken(t, s, n, more, r2)
  BY <1>1, <1>2, TakeIs
<1> HIDE DEF t
<1>4. t \in ParseStates /\ t.ok /\ t.at = off[k + 1] + 1 /\ t.given = s.given \cup more /\ t.rule = r2
  BY <1>1, <1>3 DEF Taken
<1>5. Legal(cs, k + 1) /\ Kept(cs, k + 1, s.given \cup more) /\ Said(cs, k + 1, r2)
  BY <1>1, Extend
<1>6. (k + 1) + 1 = k + 2
  OBVIOUS
<1>7. Known(cs, off, k + 1, t)
  BY <1>4, <1>5, <1>6 DEF Known
<1> QED
  BY <1>7 DEF t

\* Taking an address together with the port that follows as a clause of its own.
LEMMA AdvanceTwo ==
  ASSUME NEW cs \in Seq(Phrases), NEW off, NEW k \in Nat, k + 1 < Len(cs), NEW s,
         Known(cs, off, k, s), NEW n \in Nat, NEW more1, NEW more2, NEW r1, NEW r2 \in UserRules,
         Fits(cs, k, s.given), Adds(cs, k, s.rule, r1, more1),
         Fits(cs, k + 1, s.given \cup more1), Adds(cs, k + 1, r1, r2, more2),
         s.at + n = off[k + 2] + 1, cs[k + 2].kind = "port"
  PROVE  Known(cs, off, k + 2, Take(s, n, more1 \cup more2, r2))
<1> DEFINE more == more1 \cup more2
           t == Take(s, n, more, r2)
<1>1. s \in ParseStates /\ s.ok /\ Legal(cs, k) /\ Kept(cs, k, s.given) /\ Said(cs, k, s.rule)
  BY DEF Known
<1>2. more \subseteq Token
  BY DEF Adds, Once, Token, Keywords
<1> HIDE DEF more
<1>3. Taken(t, s, n, more, r2)
  BY <1>1, <1>2, TakeIs
<1> HIDE DEF t
<1>4. /\ t \in ParseStates /\ t.ok /\ t.at = off[k + 2] + 1 /\ t.rule = r2
      /\ t.given = (s.given \cup more1) \cup more2
  BY <1>1, <1>3 DEF Taken, more
<1>5. k < Len(cs) /\ k + 1 \in Nat /\ (k + 1) + 1 = k + 2
  OBVIOUS
<1>6. Legal(cs, k + 1) /\ Kept(cs, k + 1, s.given \cup more1) /\ Said(cs, k + 1, r1)
  BY <1>1, <1>5, Extend
<1>7. /\ Legal(cs, (k + 1) + 1) /\ Kept(cs, (k + 1) + 1, (s.given \cup more1) \cup more2)
      /\ Said(cs, (k + 1) + 1, r2)
  BY <1>5, <1>6, Extend
<1>8. ~AfterFrom(cs, (k + 2) + 1)
  <2>1. ((k + 2) + 1) - 1 = k + 2
    OBVIOUS
  <2> QED
    BY <2>1 DEF AfterFrom
<1>9. Known(cs, off, k + 2, t)
  BY <1>4, <1>5, <1>7, <1>8 DEF Known
<1> QED
  BY <1>9 DEF t, more

\* A pass comes to a clause that is not there yet.
Ready(cs, ts, off, k, s) ==
  /\ cs \in Seq(Phrases) /\ k \in Nat /\ k < Len(cs) /\ Laid(cs, ts, off) /\ Known(cs, off, k, s)
  /\ ts[s.at] = cs[k + 1].kind /\ ts[s.at + 1] = cs[k + 1].word
  /\ s.at < Len(ts) /\ cs[k + 1].kind \notin s.given

\* It takes it or refuses a rule that is not grammatical.
Onward(cs, off, t) ==
  \/ \E m \in 0..Len(cs) : Known(cs, off, m, t)
  \/ t \in ParseStates /\ ~t.ok /\ ~Grammatical(cs)

\* The position of a pass and of the clauses around it.
LEMMA ReadyAt ==
  ASSUME NEW cs, NEW ts, NEW off, NEW k, NEW s, Ready(cs, ts, off, k, s)
  PROVE  /\ cs \in Seq(Phrases) /\ Len(cs) \in Nat /\ k \in Nat /\ k + 1 \in 1..Len(cs)
         /\ cs[k + 1] \in Phrases /\ cs[k + 1].word \in Token
         /\ s \in ParseStates /\ s.rule \in UserRules /\ s.given \subseteq Token
         /\ off[k] \in Nat /\ off[k + 1] \in Nat /\ s.at \in Nat /\ s.at = off[k] + 1
         /\ ts \in Seq(Token) /\ Len(ts) \in Nat /\ off[k + 1] <= Len(ts)
         /\ Legal(cs, k) /\ Kept(cs, k, s.given) /\ ~AfterFrom(cs, k + 1)
<1>1. cs \in Seq(Phrases) /\ k \in Nat /\ k < Len(cs) /\ Laid(cs, ts, off) /\ Known(cs, off, k, s)
  BY DEF Ready
<1>2. Len(cs) \in Nat /\ k + 1 \in 1..Len(cs) /\ cs[k + 1] \in Phrases
  BY <1>1
<1>3. cs[k + 1].word \in Token
  BY <1>2, VocabularyAssumption DEF Token
<1>4. /\ ts \in Seq(Token) /\ Len(ts) \in Nat /\ off[Len(cs)] = Len(ts)
      /\ \A i \in 0..Len(cs) : off[i] \in Nat
  BY <1>1, LaidType
<1>5. off[k] \in Nat /\ off[k + 1] \in Nat
  BY <1>1, <1>2, <1>4
<1>6. off[k + 1] <= Len(ts)
  <2>1. CASE k + 1 = Len(cs)
    BY <1>4, <1>5, <2>1
  <2>2. CASE k + 1 < Len(cs)
    <3>1. off[k + 1] < off[Len(cs)]
      BY <1>1, <1>2, <2>2, OffGrows
    <3> QED
      BY <1>4, <1>5, <3>1
  <2> QED
    BY <1>2, <2>1, <2>2
<1>7. /\ s \in ParseStates /\ s.at = off[k] + 1
      /\ Legal(cs, k) /\ Kept(cs, k, s.given) /\ ~AfterFrom(cs, k + 1)
  BY <1>1 DEF Known
<1>8. s.rule \in UserRules /\ s.given \subseteq Token /\ s.at \in Nat
  BY <1>7 DEF ParseStates
<1> QED
  BY <1>1, <1>2, <1>3, <1>4, <1>5, <1>6, <1>7, <1>8

\* The length of that clause in the text.
LEMMA ReadyWords ==
  ASSUME NEW cs, NEW ts, NEW off, NEW k, NEW s, Ready(cs, ts, off, k, s)
  PROVE  LET c == cs[k + 1]
         IN  /\ c.kind \in {"on", "port", "proto"} => off[k + 1] = s.at + 1
             /\ c.kind \in {"from", "to"} /\ c.port = None => off[k + 1] = s.at + 1
             /\ c.kind \in {"from", "to"} /\ c.port # None =>
                  /\ off[k + 1] = s.at + 3
                  /\ ts[s.at + 2] = "port" /\ ts[s.at + 3] = c.port
<1>1. /\ cs \in Seq(Phrases) /\ k + 1 \in 1..Len(cs) /\ (k + 1) - 1 = k /\ s.at = off[k] + 1
      /\ Laid(cs, ts, off)
  BY ReadyAt DEF Ready
<1> DEFINE m == k + 1
<1>2. m \in 1..Len(cs) /\ off[m - 1] + 1 = s.at
  BY <1>1
<1> HIDE DEF m
<1>3. LET c == cs[m]
          at == off[m - 1] + 1
      IN  /\ c.kind \in {"on", "port", "proto"} => off[m] = at + 1
          /\ c.kind \in {"from", "to"} /\ c.port = None => off[m] = at + 1
          /\ c.kind \in {"from", "to"} /\ c.port # None =>
               off[m] = at + 3 /\ ts[at + 2] = "port" /\ ts[at + 3] = c.port
  BY <1>1, <1>2, LaidAt
<1> QED
  BY <1>2, <1>3 DEF m

\* An `on`, `port` or `proto`.
LEMMA SimpleClause ==
  ASSUME NEW cs, NEW ts, NEW off, NEW k, NEW s, Ready(cs, ts, off, k, s),
         cs[k + 1].kind \in {"on", "port", "proto"}
  PROVE  Onward(cs, off, TakeClause(ts, s))
<1> DEFINE c == cs[k + 1]
           r == s.rule
           t == TakeClause(ts, s)
<1>1. /\ cs \in Seq(Phrases) /\ Len(cs) \in Nat /\ k \in Nat /\ k + 1 \in 1..Len(cs)
      /\ c \in Phrases /\ c.word \in Token /\ s \in ParseStates /\ r \in UserRules
      /\ Kept(cs, k, s.given) /\ ~AfterFrom(cs, k + 1)
      /\ off[k] \in Nat /\ s.at \in Nat
  BY ReadyAt
<1>2. k < Len(cs) /\ Known(cs, off, k, s) /\ ts[s.at] = c.kind /\ ts[s.at + 1] = c.word
  BY DEF Ready
<1>3. s.at + 2 = off[k + 1] + 1
  <2>1. off[k + 1] = s.at + 1
    BY ReadyWords
  <2> QED
    BY <1>1, <2>1
<1>4. k + 1 < Len(cs) => ~AfterFrom(cs, k + 2)
  <2>1. (k + 2) - 1 = k + 1
    BY <1>1
  <2> QED
    BY <2>1 DEF AfterFrom
<1>5. ~IsSrc(cs, k + 1) /\ (IsDst(cs, k + 1) <=> c.kind = "port")
  BY <1>1 DEF IsSrc, IsDst
<1>6. ASSUME NEW more, NEW r2 \in UserRules, t = Take(s, 2, more, r2),
             Fits(cs, k, s.given), Adds(cs, k, r, r2, more)
      PROVE  Onward(cs, off, t)
  <2>1. Known(cs, off, k + 1, t)
    BY <1>1, <1>2, <1>3, <1>4, <1>6, Advance
  <2>2. k + 1 \in 0..Len(cs)
    BY <1>1
  <2> QED
    BY <2>1, <2>2 DEF Onward
<1>7. ASSUME t = Refuse(s), ~Grammatical(cs) PROVE Onward(cs, off, t)
  BY <1>1, <1>7, RefuseIs DEF Onward
<1>8. CASE c.kind = "on"
  <2>1. c.word \in InvalidNames <=> c.word \notin DOMAIN Ifindex
    BY <1>1, <1>8, VocabularyAssumption
  <2>2. CASE c.word \in InvalidNames
    <3>1. t = Refuse(s)
      BY <1>2, <1>8, <2>2 DEF TakeClause
    <3>2. ~Grammatical(cs)
      BY <1>1, <1>8, <2>1, <2>2, Illegal
    <3> QED
      BY <1>7, <3>1, <3>2
  <2>3. CASE c.word \notin InvalidNames
    <3> DEFINE r2 == [r EXCEPT !.iface = c.word]
    <3>1. t = Take(s, 2, {"on"}, r2)
      BY <1>2, <1>8, <2>3 DEF TakeClause
    <3>2. r2 \in UserRules
      BY <1>1, SetFields
    <3>3. Adds(cs, k, r, r2, {"on"})
      BY <1>1, <1>5, <1>8 DEF Adds, UserRules, Once
    <3>4. Fits(cs, k, s.given)
      BY <1>5, <1>8, <2>1, <2>3 DEF Fits, Once, Ready
    <3> QED
      BY <1>6, <3>1, <3>2, <3>3, <3>4
  <2> QED
    BY <2>2, <2>3
<1>9. CASE c.kind = "proto"
  <2>1. CASE ~parse_proto(c.word).ok
    <3>1. t = Refuse(s)
      BY <1>2, <1>9, <2>1 DEF TakeClause
    <3>2. Protocol(c.word) \notin Protocols
      BY <2>1, ProtoIs DEF Protocols
    <3>3. ~Grammatical(cs)
      BY <1>1, <1>9, <3>2, Illegal
    <3> QED
      BY <1>7, <3>1, <3>3
  <2>2. CASE parse_proto(c.word).ok
    <3> DEFINE r2 == [r EXCEPT !.proto = Protocol(c.word)]
    <3>1. parse_proto(c.word).value = Protocol(c.word) /\ Protocol(c.word) \in Token
      BY <2>2, ProtoIs
    <3>2. t = Take(s, 2, {"proto"}, r2)
      BY <1>2, <1>9, <2>2, <3>1 DEF TakeClause
    <3>3. r2 \in UserRules
      BY <1>1, <3>1, SetFields
    <3>4. Adds(cs, k, r, r2, {"proto"})
      BY <1>1, <1>5, <1>9 DEF Adds, UserRules, Once
    <3>5. Fits(cs, k, s.given)
      BY <1>5, <1>9, <2>2, ProtoIs DEF Fits, Once, Ready, Protocols
    <3> QED
      BY <1>6, <3>2, <3>3, <3>4, <3>5
  <2> QED
    BY <2>1, <2>2
<1>10. CASE c.kind = "port"
  <2> DEFINE r2 == [r EXCEPT !.dst_port = c.word]
  <2>1. t = Take(s, 2, {"port"}, r2)
    BY <1>2, <1>10 DEF TakeClause
  <2>2. r2 \in UserRules
    BY <1>1, SetFields
  <2>3. Adds(cs, k, r, r2, {"port"})
    BY <1>1, <1>5, <1>10 DEF Adds, UserRules, Once, PortWord
  <2>4. Fits(cs, k, s.given)
    BY <1>5, <1>10 DEF Fits, Once, Ready
  <2> QED
    BY <1>6, <2>1, <2>2, <2>3, <2>4
<1> QED
  BY <1>8, <1>9, <1>10

\* `port` after an address without its own is the next clause.
LEMMA NextPort ==
  ASSUME NEW cs, NEW ts, NEW off, NEW k, NEW s, Ready(cs, ts, off, k, s),
         cs[k + 1].kind \in {"from", "to"}, cs[k + 1].port = None
  PROVE  LET follows == k + 1 < Len(cs) /\ cs[k + 2].kind = "port"
         IN  /\ TakesPort(ts, s.at) <=> follows
             /\ follows => /\ off[k + 2] \in Nat /\ s.at + 4 = off[k + 2] + 1
                           /\ s.at + 3 <= Len(ts) /\ ts[s.at + 3] = cs[k + 2].word
                           /\ cs[k + 2] \in Phrases /\ cs[k + 2].word \in Token
<1>1. /\ cs \in Seq(Phrases) /\ Len(cs) \in Nat /\ k \in Nat /\ k + 1 \in 1..Len(cs)
      /\ off[k + 1] \in Nat /\ s.at \in Nat /\ Len(ts) \in Nat /\ off[k + 1] <= Len(ts)
  BY ReadyAt
<1>2. Laid(cs, ts, off) /\ off[Len(cs)] = Len(ts) /\ \A i \in 0..Len(cs) : off[i] \in Nat
  BY <1>1, LaidType DEF Ready
<1>3. off[k + 1] = s.at + 1
  BY ReadyWords
<1>4. CASE k + 1 = Len(cs)
  <2>1. Len(ts) = s.at + 1
    BY <1>2, <1>3, <1>4
  <2>2. ~TakesPort(ts, s.at)
    BY <1>1, <2>1 DEF TakesPort
  <2> QED
    BY <1>1, <1>4, <2>2
<1>5. CASE k + 1 < Len(cs)
  <2> DEFINE m == k + 2
             d == cs[m]
             at == off[m - 1] + 1
  <2>1. m \in 1..Len(cs) /\ m - 1 = k + 1
    BY <1>1, <1>5
  <2>2. at = s.at + 2
    BY <1>1, <1>3, <2>1
  <2>3. off[m] \in Nat /\ off[m] <= Len(ts)
    <3>1. off[m] \in Nat
      BY <1>2, <2>1
    <3>2. CASE m = Len(cs)
      BY <1>2, <3>1, <3>2
    <3>3. CASE m < Len(cs)
      <4>1. m \in 0..Len(cs) /\ Len(cs) \in 0..Len(cs)
        BY <1>1, <2>1
      <4>2. off[m] < off[Len(cs)]
        BY <1>1, <1>2, <3>3, <4>1, OffGrows
      <4> QED
        BY <1>1, <1>2, <3>1, <4>2
    <3> QED
      BY <1>1, <2>1, <3>1, <3>2, <3>3
  <2> HIDE DEF m
  <2>4. /\ d \in Phrases
        /\ d.kind \in {"dir", "word"} => off[m] = at /\ ts[at] = d.word
        /\ d.kind \notin {"dir", "word"} =>
             off[m] >= at + 1 /\ ts[at] = d.kind /\ ts[at + 1] = d.word
        /\ d.kind \in {"on", "port", "proto"} => off[m] = at + 1
        /\ off[m] >= at
    BY <1>1, <1>2, <2>1, LaidAt
  <2> HIDE DEF at, d
  <2>5. d.kind = "dir" => d.word \in {"in", "out"}
    BY <2>4, VocabularyAssumption
  <2>6. d.kind = "word" => d.word \notin Keywords
    BY <2>4, VocabularyAssumption
  <2>7. ts[at] = "port" <=> d.kind = "port"
    BY <2>4, <2>5, <2>6 DEF Keywords
  <2>8. TakesPort(ts, s.at) <=> d.kind = "port"
    <3>1. s.at + 2 <= Len(ts)
      BY <1>1, <2>2, <2>3, <2>4
    <3> QED
      BY <2>2, <2>7, <3>1 DEF TakesPort
  <2>9. ASSUME d.kind = "port"
        PROVE  /\ s.at + 4 = off[m] + 1 /\ s.at + 3 <= Len(ts) /\ ts[s.at + 3] = d.word
               /\ d.word \in Token
    <3>1. off[m] = at + 1 /\ ts[at + 1] = d.word
      BY <2>4, <2>9
    <3>2. at + 1 = s.at + 3
      BY <1>1, <2>2
    <3>3. s.at + 4 = off[m] + 1 /\ s.at + 3 <= Len(ts)
      BY <1>1, <2>3, <3>1, <3>2
    <3>4. d.word \in Token
      BY <2>4, VocabularyAssumption DEF Token
    <3> QED
      BY <3>1, <3>2, <3>3, <3>4
  <2> QED
    BY <1>5, <2>3, <2>4, <2>8, <2>9 DEF m, d
<1> QED
  BY <1>1, <1>4, <1>5

\* A `from` or `to`, with its port.
LEMMA AddressClause ==
  ASSUME NEW cs, NEW ts, NEW off, NEW k, NEW s, Ready(cs, ts, off, k, s),
         cs[k + 1].kind \in {"from", "to"}
  PROVE  Onward(cs, off, TakeClause(ts, s))
<1> DEFINE c == cs[k + 1]
           r == s.rule
           t == TakeClause(ts, s)
           addr == Addr(c.word)
           own == ts[s.at + 3]
<1>1. /\ cs \in Seq(Phrases) /\ Len(cs) \in Nat /\ k \in Nat /\ k + 1 \in 1..Len(cs)
      /\ c \in Phrases /\ c.word \in Token /\ s \in ParseStates /\ r \in UserRules
      /\ Kept(cs, k, s.given) /\ ~AfterFrom(cs, k + 1)
      /\ off[k] \in Nat /\ s.at \in Nat /\ Len(ts) \in Nat /\ off[k + 1] <= Len(ts)
  BY ReadyAt
<1>2. /\ k < Len(cs) /\ Known(cs, off, k, s) /\ ts[s.at] = c.kind /\ ts[s.at + 1] = c.word
      /\ c.kind \notin s.given
  BY DEF Ready
<1>3. addr \in Token /\ c.port \in Token
  BY <1>1, VocabularyAssumption DEF Addr, Token
<1>4. (k + 2) - 1 = k + 1 /\ (k + 1) + 1 = k + 2
  BY <1>1
<1>5. ASSUME NEW n \in {2, 4}, NEW more, NEW r2 \in UserRules, t = Take(s, n, more, r2),
             Fits(cs, k, s.given), Adds(cs, k, r, r2, more),
             s.at + n = off[k + 1] + 1, k + 1 < Len(cs) => ~AfterFrom(cs, k + 2)
      PROVE  Onward(cs, off, t)
  <2>1. n \in Nat
    OBVIOUS
  <2>2. Known(cs, off, k + 1, t)
    BY <1>1, <1>2, <1>5, <2>1, Advance
  <2>3. k + 1 \in 0..Len(cs)
    BY <1>1
  <2> QED
    BY <2>2, <2>3 DEF Onward
<1>6. ASSUME t = Refuse(s), ~Grammatical(cs) PROVE Onward(cs, off, t)
  BY <1>1, <1>6, RefuseIs DEF Onward
<1>7. /\ [r EXCEPT !.src = addr] \in UserRules /\ [r EXCEPT !.dst = addr] \in UserRules
      /\ \A p \in Token : /\ [r EXCEPT !.src = addr, !.src_port = p] \in UserRules
                          /\ [r EXCEPT !.dst = addr, !.dst_port = p] \in UserRules
  BY <1>1, <1>3, SetFields
<1>8. /\ c.kind = "from" => ~IsDst(cs, k + 1) /\ (IsSrc(cs, k + 1) <=> c.port # None)
      /\ c.kind = "to" => ~IsSrc(cs, k + 1) /\ (IsDst(cs, k + 1) <=> c.port # None)
  BY DEF IsSrc, IsDst
<1>9. c.kind = "from" \/ c.port = None \/ "port" \notin s.given => Fits(cs, k, s.given)
  BY <1>2, <1>8 DEF Fits, Once
<1> HIDE DEF addr
<1>10. /\ c.kind = "from" /\ ~TakesPort(ts, s.at) => t = Take(s, 2, {"from"}, [r EXCEPT !.src = addr])
       /\ c.kind = "to" /\ ~TakesPort(ts, s.at) => t = Take(s, 2, {"to"}, [r EXCEPT !.dst = addr])
       /\ c.kind = "from" /\ TakesPort(ts, s.at) /\ s.at + 3 <= Len(ts) =>
            t = Take(s, 4, {"from"}, [r EXCEPT !.src = addr, !.src_port = own])
       /\ c.kind = "to" /\ TakesPort(ts, s.at) /\ s.at + 3 <= Len(ts) /\ "port" \notin s.given =>
            t = Take(s, 4, {"to", "port"}, [r EXCEPT !.dst = addr, !.dst_port = own])
       /\ c.kind = "to" /\ TakesPort(ts, s.at) /\ "port" \in s.given => t = Refuse(s)
  BY <1>2 DEF TakeClause, addr, Addr
<1> HIDE DEF t
<1>11. CASE c.port # None
  <2>1. off[k + 1] = s.at + 3 /\ ts[s.at + 2] = "port" /\ own = c.port
    BY <1>11, ReadyWords
  <2>2. TakesPort(ts, s.at) /\ s.at + 3 <= Len(ts) /\ s.at + 4 = off[k + 1] + 1
    BY <1>1, <2>1 DEF TakesPort
  <2>3. ~AfterFrom(cs, k + 2)
    BY <1>4, <1>11 DEF AfterFrom
  <2>4. CASE c.kind = "from"
    <3> DEFINE r2 == [r EXCEPT !.src = addr, !.src_port = c.port]
    <3>1. t = Take(s, 4, {"from"}, r2)
      BY <1>10, <2>1, <2>2, <2>4
    <3>2. r2 \in UserRules
      BY <1>3, <1>7
    <3>3. Adds(cs, k, r, r2, {"from"})
      BY <1>1, <1>8, <1>11, <2>4 DEF Adds, UserRules, Once, PortWord, addr
    <3> HIDE DEF r2
    <3> QED
      BY <1>5, <1>9, <2>2, <2>3, <2>4, <3>1, <3>2, <3>3 DEF t
  <2>5. CASE c.kind = "to" /\ "port" \notin s.given
    <3> DEFINE r2 == [r EXCEPT !.dst = addr, !.dst_port = c.port]
    <3>1. t = Take(s, 4, {"to", "port"}, r2)
      BY <1>10, <2>1, <2>2, <2>5
    <3>2. r2 \in UserRules
      BY <1>3, <1>7
    <3>3. Adds(cs, k, r, r2, {"to", "port"})
      BY <1>1, <1>8, <1>11, <2>5 DEF Adds, UserRules, Once, PortWord, addr
    <3> HIDE DEF r2
    <3> QED
      BY <1>5, <1>9, <2>2, <2>3, <2>5, <3>1, <3>2, <3>3 DEF t
  <2>6. CASE c.kind = "to" /\ "port" \in s.given
    <3>1. t = Refuse(s)
      BY <1>10, <2>2, <2>6
    <3>2. IsDst(cs, k + 1)
      BY <1>8, <1>11, <2>6
    <3>3. ~Grammatical(cs)
      BY <1>1, <2>6, <3>2, Illegal
    <3> QED
      BY <1>6, <3>1, <3>3 DEF t
  <2> QED
    BY <2>4, <2>5, <2>6
<1>12. CASE c.port = None /\ ~TakesPort(ts, s.at)
  <2>1. s.at + 2 = off[k + 1] + 1
    <3>1. off[k + 1] = s.at + 1
      BY <1>12, ReadyWords
    <3> QED
      BY <1>1, <3>1
  <2>2. k + 1 < Len(cs) => ~AfterFrom(cs, k + 2)
    BY <1>12, NextPort DEF AfterFrom
  <2>3. CASE c.kind = "from"
    <3> DEFINE r2 == [r EXCEPT !.src = addr]
    <3>1. t = Take(s, 2, {"from"}, r2)
      BY <1>10, <1>12, <2>3
    <3>2. r2 \in UserRules
      BY <1>7
    <3>3. Adds(cs, k, r, r2, {"from"})
      BY <1>1, <1>8, <1>12, <2>3 DEF Adds, UserRules, Once, PortWord, addr
    <3> HIDE DEF r2
    <3> QED
      BY <1>5, <1>9, <2>1, <2>2, <2>3, <3>1, <3>2, <3>3 DEF t
  <2>4. CASE c.kind = "to"
    <3> DEFINE r2 == [r EXCEPT !.dst = addr]
    <3>1. t = Take(s, 2, {"to"}, r2)
      BY <1>10, <1>12, <2>4
    <3>2. r2 \in UserRules
      BY <1>7
    <3>3. Adds(cs, k, r, r2, {"to"})
      BY <1>1, <1>8, <1>12, <2>4 DEF Adds, UserRules, Once, PortWord, addr
    <3> HIDE DEF r2
    <3> QED
      BY <1>5, <1>9, <1>12, <2>1, <2>2, <3>1, <3>2, <3>3 DEF t
  <2> QED
    BY <2>3, <2>4
<1>13. CASE c.port = None /\ TakesPort(ts, s.at)
  <2> DEFINE d == cs[k + 2]
  <2>1. /\ k + 1 < Len(cs) /\ d.kind = "port" /\ off[k + 2] \in Nat /\ s.at + 4 = off[k + 2] + 1
        /\ s.at + 3 <= Len(ts) /\ own = d.word /\ d \in Phrases /\ d.word \in Token
    BY <1>13, NextPort
  <2>2. k + 2 \in 0..Len(cs) /\ k + 2 \in (k + 1)..Len(cs)
    BY <1>1, <2>1
  <2>3. AfterFrom(cs, k + 2) <=> c.kind = "from"
    BY <1>1, <1>4, <1>13, <2>1 DEF AfterFrom
  <2>4. CASE c.kind = "from"
    <3> DEFINE r1 == [r EXCEPT !.src = addr]
               r2 == [r EXCEPT !.src = addr, !.src_port = d.word]
    <3>1. t = Take(s, 4, {"from"} \cup {}, r2)
      <4>1. {"from"} \cup {} = {"from"}
        OBVIOUS
      <4> QED
        BY <1>10, <1>13, <2>1, <2>4, <4>1
    <3>2. r2 \in UserRules
      BY <1>7, <2>1
    <3>3. Adds(cs, k, r, r1, {"from"})
      BY <1>1, <1>8, <1>13, <2>4 DEF Adds, UserRules, Once, PortWord, addr
    <3>4. ~IsDst(cs, k + 2) /\ IsSrc(cs, k + 2)
      BY <2>1, <2>3, <2>4 DEF IsDst, IsSrc
    <3>5. Adds(cs, k + 1, r1, r2, {})
      BY <1>1, <1>4, <2>1, <3>4 DEF Adds, UserRules, Once, PortWord
    <3>6. Fits(cs, k + 1, s.given \cup {"from"})
      BY <1>4, <2>1, <3>4 DEF Fits, Once
    <3>7. Fits(cs, k, s.given)
      BY <1>9, <2>4
    <3> HIDE DEF r1, r2
    <3>8. Known(cs, off, k + 2, t)
      BY <1>1, <1>2, <2>1, <3>1, <3>2, <3>3, <3>5, <3>6, <3>7, AdvanceTwo
    <3> QED
      BY <2>2, <3>8 DEF Onward, t
  <2>5. CASE c.kind = "to" /\ "port" \notin s.given
    <3> DEFINE r1 == [r EXCEPT !.dst = addr]
               r2 == [r EXCEPT !.dst = addr, !.dst_port = d.word]
    <3>1. t = Take(s, 4, {"to"} \cup {"port"}, r2)
      <4>1. {"to"} \cup {"port"} = {"to", "port"}
        OBVIOUS
      <4> QED
        BY <1>10, <1>13, <2>1, <2>5, <4>1
    <3>2. r2 \in UserRules
      BY <1>7, <2>1
    <3>3. Adds(cs, k, r, r1, {"to"})
      BY <1>1, <1>8, <1>13, <2>5 DEF Adds, UserRules, Once, PortWord, addr
    <3>4. IsDst(cs, k + 2) /\ ~IsSrc(cs, k + 2)
      BY <2>1, <2>3, <2>5 DEF IsDst, IsSrc
    <3>5. Adds(cs, k + 1, r1, r2, {"port"})
      BY <1>1, <1>4, <2>1, <3>4 DEF Adds, UserRules, Once, PortWord
    <3>6. Fits(cs, k + 1, s.given \cup {"to"})
      BY <1>4, <2>1, <2>5 DEF Fits, Once
    <3>7. Fits(cs, k, s.given)
      BY <1>9, <1>13
    <3> HIDE DEF r1, r2
    <3>8. Known(cs, off, k + 2, t)
      BY <1>1, <1>2, <2>1, <3>1, <3>2, <3>3, <3>5, <3>6, <3>7, AdvanceTwo
    <3> QED
      BY <2>2, <3>8 DEF Onward, t
  <2>6. CASE c.kind = "to" /\ "port" \in s.given
    <3>1. t = Refuse(s)
      BY <1>10, <1>13, <2>6
    <3>2. IsDst(cs, k + 2)
      BY <2>1, <2>3, <2>6 DEF IsDst
    <3>3. ~Grammatical(cs)
      BY <1>1, <2>2, <2>6, <3>2, Illegal
    <3> QED
      BY <1>6, <3>1, <3>3 DEF t
  <2> QED
    BY <2>4, <2>5, <2>6
<1> QED
  BY <1>11, <1>12, <1>13

\* A pass over a clause.
LEMMA PassStep ==
  ASSUME NEW cs \in Seq(Phrases), NEW ts, NEW off, Laid(cs, ts, off),
         NEW k \in Nat, k < Len(cs), NEW s, Known(cs, off, k, s), k = 0 => cs[1].kind # "dir"
  PROVE  Onward(cs, off, ClauseStep(ts, s))
<1> DEFINE c == cs[k + 1]
           m == k + 1
           t == ClauseStep(ts, s)
<1>1. Len(cs) \in Nat /\ m \in 1..Len(cs) /\ m - 1 = k /\ c \in Phrases
  OBVIOUS
<1>2. /\ s \in ParseStates /\ s.ok /\ s.at = off[k] + 1 /\ Kept(cs, k, s.given)
      /\ ~AfterFrom(cs, m)
  BY DEF Known
<1>3. /\ Len(ts) \in Nat /\ off[Len(cs)] = Len(ts) /\ off[k] \in Nat /\ off[m] \in Nat
  <2>1. k \in 0..Len(cs) /\ m \in 0..Len(cs)
    BY <1>1
  <2> QED
    BY <2>1, LaidType
<1>4. off[m] <= Len(ts)
  <2>1. CASE m = Len(cs)
    BY <1>3, <2>1
  <2>2. CASE m < Len(cs)
    <3>1. m \in 0..Len(cs) /\ Len(cs) \in 0..Len(cs)
      BY <1>1
    <3>2. off[m] < off[Len(cs)]
      BY <2>2, <3>1, OffGrows
    <3> QED
      BY <1>3, <3>2
  <2> QED
    BY <1>1, <2>1, <2>2
<1> HIDE DEF m
<1>5. LET at == off[m - 1] + 1
      IN  /\ cs[m].kind \in {"dir", "word"} => off[m] = at /\ ts[at] = cs[m].word
          /\ cs[m].kind \notin {"dir", "word"} =>
               off[m] >= at + 1 /\ ts[at] = cs[m].kind /\ ts[at + 1] = cs[m].word
          /\ off[m] >= at
  BY <1>1, LaidAt
<1>6. /\ c.kind \in {"dir", "word"} => ts[s.at] = c.word
      /\ c.kind \notin {"dir", "word"} =>
           s.at < Len(ts) /\ ts[s.at] = c.kind /\ ts[s.at + 1] = c.word
      /\ s.at \in Nat /\ s.at <= Len(ts)
  BY <1>1, <1>2, <1>3, <1>4, <1>5 DEF m
<1>7. Refuse(s) \in ParseStates /\ ~Refuse(s).ok
  BY <1>2, RefuseIs
<1>8. m \in (k + 1)..Len(cs)
  BY <1>1 DEF m
<1>9. CASE c.kind \in {"dir", "word"}
  <2>1. c.word \notin {"on", "from", "to", "port", "proto"}
    BY <1>1, <1>9, VocabularyAssumption DEF Keywords
  <2>2. TakeClause(ts, s) = Refuse(s)
    BY <1>6, <1>9, <2>1 DEF TakeClause
  <2>3. t = Refuse(s)
    BY <1>2, <1>3, <1>6, <2>2 DEF ClauseStep
  <2>4. cs[m].kind = "word" \/ (cs[m].kind = "dir" /\ m # 1)
    BY <1>9 DEF m
  <2>5. ~Grammatical(cs)
    BY <1>2, <1>8, <2>4, Illegal
  <2> QED
    BY <1>7, <2>3, <2>5 DEF Onward
<1>10. CASE c.kind \notin {"dir", "word"} /\ c.kind \in s.given
  <2>1. t = Refuse(s)
    BY <1>2, <1>3, <1>6, <1>10 DEF ClauseStep
  <2>2. (cs[m].kind \in Once /\ cs[m].kind \in s.given) \/ (IsDst(cs, m) /\ "port" \in s.given)
    BY <1>2, <1>10 DEF Kept, IsDst, m
  <2>3. ~Grammatical(cs)
    BY <1>2, <1>8, <2>2, Illegal
  <2> QED
    BY <1>7, <2>1, <2>3 DEF Onward
<1>11. CASE c.kind \notin {"dir", "word"} /\ c.kind \notin s.given
  <2>1. t = TakeClause(ts, s)
    BY <1>2, <1>3, <1>6, <1>11 DEF ClauseStep
  <2>2. Ready(cs, ts, off, k, s)
    BY <1>6, <1>11 DEF Ready
  <2>3. c.kind \in {"on", "port", "proto"} \/ c.kind \in {"from", "to"}
    BY <1>1, <1>11, VocabularyAssumption
  <2> QED
    BY <2>1, <2>2, <2>3, SimpleClause, AddressClause
<1> QED
  BY <1>9, <1>10, <1>11

\* The whole loop, from a state in which the first k clauses are known (none, or
\* the direction): it ends with all of them taken or refuses a rule that is not
\* grammatical.
LEMMA LoopEnds ==
  ASSUME NEW cs \in Seq(Phrases), NEW ts, NEW off, Laid(cs, ts, off), NEW rule \in UserRules,
         NEW k \in 0..Len(cs), k = 0 => cs[1].kind # "dir",
         Known(cs, off, k, ParseStart(rule, off[k] + 1))
  PROVE  LET end == Clauses(rule, ts, off[k] + 1)[Len(ts)]
         IN  /\ end.ok <=> Grammatical(cs)
             /\ end.ok => end.rule \in UserRules /\ Said(cs, Len(cs), end.rule)
<1> DEFINE N == Len(ts)
           n == Len(cs)
           at == off[k] + 1
           pass == Clauses(rule, ts, at)
           Good(i) == Onward(cs, off, pass[i]) /\ (pass[i].ok => pass[i].at >= at)
           D == {i \in Nat : i <= N => Good(i)}
<1>1. /\ N \in Nat /\ n \in Nat /\ ts \in Seq(Token) /\ off[n] = N /\ off[0] = 0
      /\ \A j \in 0..n : off[j] \in Nat
  BY LaidType
<1>2. at \in Nat \ {0}
  BY <1>1
<1> HIDE DEF at
<1>3. /\ pass[0] = ParseStart(rule, at)
      /\ \A i \in 0..N : pass[i] \in ParseStates
      /\ \A i \in 1..N : pass[i] = ClauseStep(ts, pass[i - 1])
      /\ pass[N].ok => pass[N].at > N
  BY <1>1, <1>2, ClausesDef
<1> HIDE DEF pass, N, n
<1>4. 0 \in D
  <2>1. Known(cs, off, k, pass[0])
    BY <1>3 DEF at
  <2>2. Onward(cs, off, pass[0])
    BY <2>1 DEF Onward, n
  <2>3. pass[0].at >= at
    BY <1>2, <1>3 DEF ParseStart
  <2> QED
    BY <2>2, <2>3
<1>5. ASSUME NEW i \in Nat, i \in D PROVE i + 1 \in D
  <2> SUFFICES ASSUME i + 1 <= N PROVE Good(i + 1)
    OBVIOUS
  <2> DEFINE s == pass[i]
             t == pass[i + 1]
  <2>1. Onward(cs, off, s) /\ (s.ok => s.at >= at)
    BY <1>1, <1>5
  <2>2. t = ClauseStep(ts, s) /\ s \in ParseStates
    <3>1. i + 1 \in 1..N /\ (i + 1) - 1 = i /\ i \in 0..N
      BY <1>1
    <3> QED
      BY <1>3, <3>1
  <2> HIDE DEF s, t
  <2>3. t.ok => t.at >= at
    <3>1. t \in ParseStates /\ (t.ok => s.ok /\ ((s.at > Len(ts) /\ t = s) \/ t.at >= s.at + 2))
      BY <1>1, <2>2, ClauseStepType
    <3>2. s.at \in Nat /\ t.at \in Nat
      BY <2>2, <3>1 DEF ParseStates
    <3> QED
      BY <1>2, <2>1, <3>1, <3>2
  <2>4. CASE ~s.ok
    <3>1. t = s
      BY <2>2, <2>4 DEF ClauseStep
    <3> QED
      BY <2>1, <2>3, <3>1 DEF t
  <2>5. ASSUME NEW m \in 0..n, Known(cs, off, m, s) PROVE Onward(cs, off, t)
    <3>1. CASE m = n
      <4>1. s.at = N + 1
        BY <1>1, <2>5, <3>1 DEF Known
      <4>2. s.at > Len(ts)
        BY <1>1, <4>1 DEF N
      <4>3. t = s
        BY <2>2, <4>2 DEF ClauseStep
      <4> QED
        BY <2>1, <4>3
    <3>2. CASE m < n
      <4>1. m = 0 => cs[1].kind # "dir"
        <5> SUFFICES ASSUME m = 0, cs[1].kind = "dir" PROVE FALSE
          OBVIOUS
        <5>1. s.ok /\ s.at = 1
          BY <1>1, <2>5 DEF Known
        <5>2. k \in 0..Len(cs) /\ 0 \in 0..Len(cs) /\ 0 < k
          BY <1>1 DEF n
        <5>3. off[0] < off[k]
          BY <5>2, OffGrows
        <5> QED
          BY <1>1, <2>1, <5>1, <5>2, <5>3 DEF at, n
      <4>2. m \in Nat /\ m < Len(cs)
        BY <1>1, <3>2 DEF n
      <4> QED
        BY <2>2, <2>5, <4>1, <4>2, PassStep
    <3> QED
      BY <1>1, <3>1, <3>2
  <2>6. Onward(cs, off, t)
    BY <2>1, <2>4, <2>5, <2>2 DEF Onward, n, ClauseStep
  <2> QED
    BY <2>3, <2>6 DEF t
<1>6. N \in D
  <2> HIDE DEF D
  <2> QED
    BY <1>1, <1>4, <1>5, SetInduction
<1> DEFINE end == pass[N]
<1>7. Onward(cs, off, end) /\ (end.ok => end.at > N)
  BY <1>1, <1>3, <1>6
<1> HIDE DEF end, D
<1>8. ASSUME NEW m \in 0..n, Known(cs, off, m, end)
      PROVE  Grammatical(cs) /\ end.ok /\ end.rule \in UserRules /\ Said(cs, Len(cs), end.rule)
  <2>1. end.ok /\ end.at = off[m] + 1 /\ end \in ParseStates
    BY <1>8 DEF Known
  <2>2. m = n
    <3> SUFFICES ASSUME m < n PROVE FALSE
      BY <1>1
    <3>1. m \in 0..Len(cs) /\ n \in 0..Len(cs)
      BY <1>1 DEF n
    <3>2. off[m] < off[n]
      BY <3>1, OffGrows
    <3> QED
      BY <1>1, <1>7, <2>1, <3>1, <3>2
  <2>3. Legal(cs, Len(cs)) /\ Said(cs, Len(cs), end.rule)
    BY <1>8, <2>2 DEF Known, n
  <2> QED
    BY <2>1, <2>3, LegalIsGrammatical DEF ParseStates
<1>9. CASE ~end.ok /\ ~Grammatical(cs)
  BY <1>9 DEF end, pass, N, at
<1> QED
  BY <1>7, <1>8, <1>9 DEF Onward, end, pass, N, at, n

\* Nothing is given twice, and nothing said, by no clause at all.
LEMMA NoClauses ==
  ASSUME NEW cs \in Seq(Phrases)
  PROVE  (\A kind : Of(cs, kind, 0) = {}) /\ Dst(cs, 0) = {} /\ Src(cs, 0) = {}
<1>1. \A j \in DOMAIN cs : j \in Nat /\ ~(j <= 0)
  OBVIOUS
<1> QED
  BY <1>1 DEF Of, Dst, Src, OfKind, DstPorts, SrcPorts

\* The rule without any clause.
LEMMA BlankIs ==
  ASSUME NEW dir \in Token
  PROVE  LET r == [BlankRule("deny") EXCEPT !.direction = dir]
         IN  /\ BlankRule("deny") \in UserRules /\ r \in UserRules /\ r.direction = dir
             /\ BlankRule("deny").direction = "in"
             /\ \A b \in {r, BlankRule("deny")} :
                  /\ b.iface = None /\ b.proto = None /\ b.src = None /\ b.dst = None
                  /\ b.src_port = None /\ b.dst_port = None
<1>1. {"in", "deny", None} \subseteq Token
  BY DEF Token, Keywords
<1> QED
  BY <1>1 DEF BlankRule, UserRules

\* The state in which the loop starts.
LEMMA StartKnown ==
  ASSUME NEW cs \in Seq(Phrases), cs # <<>>, NEW off, off[0] \in Nat, off[1] \in Nat
  PROVE  /\ Known(cs, off, 0, ParseStart(BlankRule("deny"), off[0] + 1))
         /\ cs[1].kind = "dir" =>
              Known(cs, off, 1, ParseStart([BlankRule("deny") EXCEPT !.direction = cs[1].word],
                                           off[1] + 1))
<1> DEFINE blank == BlankRule("deny")
           r == [blank EXCEPT !.direction = cs[1].word]
<1>1. 0 \in Nat /\ 1 \in Nat /\ 0 < Len(cs) /\ 0 + 1 = 1 /\ Len(cs) \in Nat /\ cs[1] \in Phrases
  OBVIOUS
<1>2. (\A kind : Of(cs, kind, 0) = {}) /\ Dst(cs, 0) = {} /\ Src(cs, 0) = {}
  BY NoClauses
<1>3. cs[1].word \in Token
  BY <1>1, VocabularyAssumption DEF Token
<1>4. /\ blank \in UserRules /\ r \in UserRules /\ r.direction = cs[1].word
      /\ blank.direction = "in"
      /\ \A b \in {r, blank} :
           /\ b.iface = None /\ b.proto = None /\ b.src = None /\ b.dst = None
           /\ b.src_port = None /\ b.dst_port = None
  BY <1>3, BlankIs
<1> HIDE DEF blank, r
<1>5. ASSUME NEW b \in UserRules, NEW at \in Nat \ {0}
      PROVE  LET s == ParseStart(b, at)
             IN  s \in ParseStates /\ s.ok /\ s.at = at /\ s.given = {} /\ s.rule = b
  BY DEF ParseStart, ParseStates
<1>6. Known(cs, off, 0, ParseStart(blank, off[0] + 1))
  <2>1. Legal(cs, 0)
    BY <1>2 DEF Legal, AtMostOne, Once
  <2>2. Kept(cs, 0, {})
    BY <1>2 DEF Kept
  <2>3. Said(cs, 0, blank)
    BY <1>2, <1>4 DEF Said
  <2>4. ~AfterFrom(cs, 0 + 1)
    BY DEF AfterFrom
  <2>5. off[0] + 1 \in Nat \ {0}
    OBVIOUS
  <2> QED
    BY <1>4, <1>5, <2>1, <2>2, <2>3, <2>4, <2>5 DEF Known
<1>7. ASSUME cs[1].kind = "dir" PROVE Known(cs, off, 1, ParseStart(r, off[1] + 1))
  <2>1. ~IsDst(cs, 1) /\ ~IsSrc(cs, 1)
    BY <1>7 DEF IsDst, IsSrc
  <2>2. /\ \A kind : Of(cs, kind, 1) = IF "dir" = kind THEN {1} ELSE {}
        /\ Dst(cs, 1) = {} /\ Src(cs, 1) = {}
    <3>1. /\ \A kind : Of(cs, kind, 0 + 1) = IF cs[0 + 1].kind = kind THEN Of(cs, kind, 0) \cup {0 + 1}
                                             ELSE Of(cs, kind, 0)
          /\ Dst(cs, 0 + 1) = IF IsDst(cs, 0 + 1) THEN Dst(cs, 0) \cup {0 + 1} ELSE Dst(cs, 0)
          /\ Src(cs, 0 + 1) = IF IsSrc(cs, 0 + 1) THEN Src(cs, 0) \cup {0 + 1} ELSE Src(cs, 0)
      BY <1>1, OneMore
    <3> QED
      BY <1>1, <1>2, <1>7, <2>1, <3>1
  <2>3. Legal(cs, 1)
    BY <2>2 DEF Legal, AtMostOne, Once
  <2>4. Kept(cs, 1, {})
    BY <2>2 DEF Kept, Once
  <2>5. Said(cs, 1, r)
    BY <1>4, <2>2 DEF Said
  <2>6. ~AfterFrom(cs, 1 + 1)
    BY <1>7 DEF AfterFrom
  <2>7. off[1] + 1 \in Nat \ {0}
    OBVIOUS
  <2> QED
    BY <1>4, <1>5, <2>3, <2>4, <2>5, <2>6, <2>7 DEF Known
<1> QED
  BY <1>6, <1>7 DEF blank, r

\* The first word of the text, and no rule of one word that is not taken for a
\* shorthand by design is one.
LEMMA FirstWord ==
  ASSUME NEW cs \in Seq(Phrases), cs # <<>>, NEW ts, NEW off, Laid(cs, ts, off),
         ~(Len(cs) = 1 /\ cs[1].kind = "word" /\ cs[1].word \in DOMAIN LongForm)
  PROVE  /\ ts # <<>> /\ Len(ts) \in Nat \ {0} /\ off[1] \in Nat
         /\ ~(Len(ts) = 1 /\ IsShorthand(ts[1]))
         /\ ts[1] \in {"in", "out"} <=> cs[1].kind = "dir"
         /\ cs[1].kind = "dir" => off[1] = 1 /\ ts[1] = cs[1].word
<1>1. /\ Len(cs) \in Nat \ {0} /\ off[0] = 0 /\ off[Len(cs)] = Len(ts) /\ Len(ts) \in Nat
      /\ ts \in Seq(Token) /\ 1 \in 1..Len(cs) /\ 1 - 1 = 0 /\ cs[1] \in Phrases
      /\ 1 \in 0..Len(cs) /\ 0 \in 0..Len(cs) /\ Len(cs) \in 0..Len(cs)
      /\ off[1] \in Nat
  BY LaidType
<1>2. \A k \in 1..Len(cs) :
        LET c == cs[k]
            at == off[k - 1] + 1
        IN  /\ c.kind \in {"dir", "word"} => off[k] = at /\ ts[at] = c.word
            /\ c.kind \notin {"dir", "word"} => off[k] >= at + 1 /\ ts[at] = c.kind
  BY LaidAt
<1>3. /\ cs[1].kind \in {"dir", "word"} => off[1] = 1 /\ ts[1] = cs[1].word
      /\ cs[1].kind \notin {"dir", "word"} => off[1] >= 2 /\ ts[1] = cs[1].kind
  BY <1>1, <1>2
<1>4. off[0] < off[Len(cs)]
  BY <1>1, OffGrows
<1>5. ts # <<>> /\ Len(ts) # 0
  BY <1>1, <1>4
<1>6. 1 < Len(cs) => off[1] < off[Len(cs)]
  BY <1>1, OffGrows
<1>7. /\ cs[1].kind = "dir" => cs[1].word \in {"in", "out"}
      /\ cs[1].kind = "word" =>
           cs[1].word \notin Keywords /\ (IsShorthand(cs[1].word) => cs[1].word \in DOMAIN LongForm)
      /\ cs[1].kind \in {"dir", "on", "from", "to", "port", "proto", "word"}
      /\ ~IsShorthand("in") /\ ~IsShorthand("out")
  BY <1>1, VocabularyAssumption DEF Keywords
<1>8. ts[1] \in {"in", "out"} <=> cs[1].kind = "dir"
  BY <1>3, <1>7 DEF Keywords
<1>9. ASSUME Len(ts) = 1, IsShorthand(ts[1]) PROVE FALSE
  <2>1. Len(cs) = 1 /\ cs[1].kind \in {"dir", "word"}
    BY <1>1, <1>3, <1>4, <1>6, <1>9
  <2> QED
    BY <1>3, <1>7, <1>9, <2>1
<1> QED
  BY <1>1, <1>3, <1>5, <1>8, <1>9

\* What parse_rule_spec makes of the text of a rule: it takes exactly the
\* grammatical ones, as a rule that says what the clauses say.
LEMMA ReadText ==
  ASSUME NEW cs \in Seq(Phrases), cs # <<>>,
         ~(Len(cs) = 1 /\ cs[1].kind = "word" /\ cs[1].word \in DOMAIN LongForm)
  PROVE  LET r == Read(Text(cs))
         IN  /\ r.ok <=> Grammatical(cs)
             /\ r.ok => r.value[1] \in UserRules /\ Said(cs, Len(cs), r.value[1])
<1> DEFINE ts == Text(cs)
           blank == BlankRule("deny")
           full == parse_full_grammar("deny", ts)
<1>1. PICK off : Laid(cs, ts, off)
  BY TextLaid
<1> HIDE DEF ts
<1>2. /\ ts # <<>> /\ Len(ts) \in Nat \ {0} /\ off[1] \in Nat
      /\ ~(Len(ts) = 1 /\ IsShorthand(ts[1]))
      /\ ts[1] \in {"in", "out"} <=> cs[1].kind = "dir"
      /\ cs[1].kind = "dir" => off[1] = 1 /\ ts[1] = cs[1].word
  BY <1>1, FirstWord
<1>3. /\ off[0] = 0 /\ Len(cs) \in Nat \ {0} /\ 0 \in 0..Len(cs) /\ 1 \in 0..Len(cs)
      /\ cs[1] \in Phrases
  BY <1>1, LaidType
<1>4. cs[1].word \in Token
  BY <1>3, VocabularyAssumption DEF Token
<1>5. /\ Known(cs, off, 0, ParseStart(blank, off[0] + 1))
      /\ cs[1].kind = "dir" =>
           Known(cs, off, 1, ParseStart([blank EXCEPT !.direction = cs[1].word], off[1] + 1))
  BY <1>2, <1>3, StartKnown
<1>6. blank \in UserRules /\ [blank EXCEPT !.direction = cs[1].word] \in UserRules
  BY <1>4, BlankIs
<1> DEFINE Ends(end) == /\ end.ok <=> Grammatical(cs)
                        /\ end.ok => end.rule \in UserRules /\ Said(cs, Len(cs), end.rule)
           end == (IF ts[1] \notin {"in", "out"} THEN Clauses(blank, ts, 1)
                   ELSE Clauses([blank EXCEPT !.direction = ts[1]], ts, 2))[Len(ts)]
<1>7. full = IF end.ok THEN Ok(end.rule) ELSE Err
  BY DEF parse_full_grammar
<1>8. Ends(end)
  <2> HIDE DEF blank
  <2>1. CASE cs[1].kind = "dir"
    <3> DEFINE r == [blank EXCEPT !.direction = cs[1].word]
    <3>1. r \in UserRules /\ Known(cs, off, 1, ParseStart(r, off[1] + 1))
      BY <1>5, <1>6, <2>1
    <3>2. off[1] + 1 = 2 /\ end = Clauses(r, ts, 2)[Len(ts)]
      BY <1>2, <2>1
    <3> HIDE DEF r
    <3>3. Ends(Clauses(r, ts, off[1] + 1)[Len(ts)])
      BY <1>1, <1>3, <3>1, LoopEnds
    <3> HIDE DEF end, Ends
    <3> QED
      BY <3>2, <3>3
  <2>2. CASE cs[1].kind # "dir"
    <3>1. off[0] + 1 = 1 /\ end = Clauses(blank, ts, 1)[Len(ts)]
      BY <1>2, <1>3, <2>2
    <3>2. Ends(Clauses(blank, ts, off[0] + 1)[Len(ts)])
      BY <1>1, <1>3, <1>5, <1>6, <2>2, LoopEnds
    <3> HIDE DEF end, Ends
    <3> QED
      BY <3>1, <3>2
  <2> QED
    BY <2>1, <2>2
<1> HIDE DEF end, full
<1>9. (full.ok <=> end.ok) /\ (end.ok => full.value = end.rule)
  BY <1>7 DEF Ok, Err
<1>10. Read(ts) = IF full.ok THEN Ok(<<full.value>>) ELSE Err
  BY <1>2 DEF Read, parse_rule_spec, full
<1>11. (Read(ts).ok <=> full.ok) /\ (full.ok => Read(ts).value[1] = full.value)
  BY <1>10 DEF Ok, Err
<1> QED
  BY <1>8, <1>9, <1>11 DEF ts

-----------------------------------------------------------------------------
(* A rule that breaks off: the same text without its last word, which is   *)
(* in the middle of a clause.                                              *)

\* How far a clause that is taken reaches.
LEMMA TakeClauseAt ==
  ASSUME NEW ts, NEW s \in ParseStates
  PROVE  LET t == TakeClause(ts, s)
         IN  t.ok =>
               /\ ts[s.at] \in {"on", "from", "to", "port", "proto"}
               /\ ts[s.at] \in {"on", "port", "proto"} => t.at = s.at + 2
               /\ ts[s.at] \in {"from", "to"} =>
                    IF TakesPort(ts, s.at) THEN s.at + 3 <= Len(ts) /\ t.at = s.at + 4
                    ELSE t.at = s.at + 2
<1> DEFINE t == TakeClause(ts, s)
           clause == ts[s.at]
           port == TakesPort(ts, s.at)
           whole == s.at + 3 <= Len(ts)
<1>1. \A n, given, r : Take(s, n, given, r).at = s.at + n
  BY DEF Take, ParseStates
<1>2. ~Refuse(s).ok
  BY RefuseIs
<1>3. \/ clause = "on" /\ \E given, r : t = Take(s, 2, given, r)
      \/ clause = "from" /\ ~port /\ \E given, r : t = Take(s, 2, given, r)
      \/ clause = "from" /\ port /\ whole /\ \E given, r : t = Take(s, 4, given, r)
      \/ clause = "to" /\ ~port /\ \E given, r : t = Take(s, 2, given, r)
      \/ clause = "to" /\ port /\ whole /\ \E given, r : t = Take(s, 4, given, r)
      \/ clause = "port" /\ \E given, r : t = Take(s, 2, given, r)
      \/ clause = "proto" /\ \E given, r : t = Take(s, 2, given, r)
      \/ t = Refuse(s)
  BY DEF TakeClause
<1> HIDE DEF t, clause, port, whole
<1> QED
  BY <1>1, <1>2, <1>3 DEF t, clause, port, whole

\* `cut` is the text ts of the rule without its last word.
CutOff(cs, ts, off, cut) ==
  /\ cs \in Seq(Phrases) /\ cs # <<>> /\ cs[Len(cs)].kind \notin {"dir", "word"}
  /\ Laid(cs, ts, off)
  /\ cut \in Seq(Token) /\ Len(cut) = Len(ts) - 1
  /\ \A j \in 1..Len(cut) : cut[j] = ts[j]

\* Where the clauses are in what is left.
LEMMA CutAt ==
  ASSUME NEW cs, NEW ts, NEW off, NEW cut, CutOff(cs, ts, off, cut), NEW k \in 1..Len(cs)
  PROVE  LET c == cs[k]
             at == off[k - 1] + 1
         IN  /\ Len(cs) \in Nat /\ k \in Nat /\ Len(cut) \in Nat
             /\ c \in Phrases /\ off[k - 1] \in Nat /\ off[k] \in Nat
             /\ k < Len(cs) => off[k] < Len(cut)
             /\ k = Len(cs) => off[k] = Len(cut) + 1
             /\ at <= Len(cut)
             /\ c.kind \in {"dir", "word"} =>
                  off[k] = at /\ cut[at] = c.word /\ c.word \notin Keywords \ {"in", "out"}
             /\ c.kind \notin {"dir", "word"} => cut[at] = c.kind
             /\ c.kind \in {"on", "port", "proto"} => off[k] = at + 1
             /\ c.kind \in {"from", "to"} /\ c.port = None => off[k] = at + 1
             /\ c.kind \in {"from", "to"} /\ c.port # None =>
                  off[k] = at + 3 /\ cut[at + 2] = "port"
<1> DEFINE n == Len(cs)
           N == Len(ts)
           c == cs[k]
           at == off[k - 1] + 1
<1>1. /\ cs \in Seq(Phrases) /\ n \in Nat /\ k \in Nat /\ N \in Nat /\ k - 1 \in 0..n /\ k \in 0..n
      /\ off[n] = N /\ off[k] \in Nat /\ off[k - 1] \in Nat /\ Laid(cs, ts, off)
      /\ n - 1 \in 0..n /\ off[n - 1] \in Nat /\ n \in 1..n
  BY LaidType DEF CutOff
<1>2. Len(cut) \in Nat /\ Len(cut) = N - 1 /\ \A j \in 1..Len(cut) : cut[j] = ts[j]
  BY <1>1 DEF CutOff
<1>3. \A j \in 1..n :
        LET d == cs[j]
            p == off[j - 1] + 1
        IN  /\ d \in Phrases
            /\ d.kind \in {"dir", "word"} => off[j] = p /\ ts[p] = d.word
            /\ d.kind \notin {"dir", "word"} => off[j] >= p + 1 /\ ts[p] = d.kind
            /\ d.kind \in {"on", "port", "proto"} => off[j] = p + 1
            /\ d.kind \in {"from", "to"} /\ d.port = None => off[j] = p + 1
            /\ d.kind \in {"from", "to"} /\ d.port # None => off[j] = p + 3 /\ ts[p + 2] = "port"
            /\ off[j] >= p
  BY <1>1, LaidAt
<1>4. cs[n].kind \notin {"dir", "word"}
  BY DEF CutOff
<1>5. off[n - 1] + 2 <= N
  <2>1. off[n] >= (off[n - 1] + 1) + 1
    <3> HIDE DEF n
    <3> QED
      BY <1>1, <1>3, <1>4
  <2> QED
    BY <1>1, <2>1
<1>6. ASSUME k < n PROVE off[k] < Len(cut)
  <2>1. CASE k = n - 1
    BY <1>1, <1>2, <1>5, <2>1
  <2>2. CASE k < n - 1
    <3>1. off[k] < off[n - 1]
      BY <1>1, <2>2, OffGrows
    <3> QED
      BY <1>1, <1>2, <1>5, <3>1
  <2> QED
    BY <1>1, <1>6, <2>1, <2>2
<1>7. k = n => off[k] = Len(cut) + 1
  BY <1>1, <1>2
<1>8. /\ c \in Phrases
      /\ c.kind \in {"dir", "word"} => off[k] = at /\ ts[at] = c.word
      /\ c.kind \notin {"dir", "word"} => off[k] >= at + 1 /\ ts[at] = c.kind
      /\ c.kind \in {"on", "port", "proto"} => off[k] = at + 1
      /\ c.kind \in {"from", "to"} /\ c.port = None => off[k] = at + 1
      /\ c.kind \in {"from", "to"} /\ c.port # None => off[k] = at + 3 /\ ts[at + 2] = "port"
      /\ off[k] >= at
  BY <1>3
<1>9. at <= Len(cut) /\ (k = n => c.kind \notin {"dir", "word"})
  BY <1>1, <1>2, <1>4, <1>5, <1>6, <1>8
<1>10. c.kind \in {"dir", "word"} => c.word \notin Keywords \ {"in", "out"}
  BY <1>8, VocabularyAssumption DEF Keywords
<1>11. cut[at] = ts[at]
  BY <1>1, <1>2, <1>9
<1>12. off[k] = at + 3 => cut[at + 2] = ts[at + 2]
  <2> SUFFICES ASSUME off[k] = at + 3 PROVE at + 2 \in 1..Len(cut)
    BY <1>2
  <2> QED
    BY <1>1, <1>2, <1>6, <1>7
<1> HIDE DEF at, c
<1> QED
  BY <1>1, <1>2, <1>6, <1>7, <1>8, <1>9, <1>10, <1>11, <1>12 DEF at, c

\* A pass leaves the loop at the beginning of a clause, the last at the latest,
\* or refuses.
LEMMA CutStep ==
  ASSUME NEW cs, NEW ts, NEW off, NEW cut, CutOff(cs, ts, off, cut),
         NEW k \in 1..Len(cs), NEW s \in ParseStates, s.ok, s.at = off[k - 1] + 1,
         ClauseStep(cut, s).ok
  PROVE  \E j \in 1..Len(cs) : ClauseStep(cut, s).at = off[j - 1] + 1
<1> DEFINE t == ClauseStep(cut, s)
           n == Len(cs)
           c == cs[k]
<1>1. /\ n \in Nat /\ k \in Nat /\ k <= n /\ Len(cut) \in Nat
      /\ c \in Phrases /\ off[k - 1] \in Nat /\ off[k] \in Nat
      /\ k < n => off[k] < Len(cut)
      /\ k = n => off[k] = Len(cut) + 1
      /\ s.at <= Len(cut)
      /\ c.kind \in {"dir", "word"} =>
           off[k] = s.at /\ cut[s.at] = c.word /\ c.word \notin Keywords \ {"in", "out"}
      /\ c.kind \notin {"dir", "word"} => cut[s.at] = c.kind
      /\ c.kind \in {"on", "port", "proto"} => off[k] = s.at + 1
      /\ c.kind \in {"from", "to"} /\ c.port = None => off[k] = s.at + 1
      /\ c.kind \in {"from", "to"} /\ c.port # None => off[k] = s.at + 3 /\ cut[s.at + 2] = "port"
  BY CutAt
<1> HIDE DEF c
<1>2. s.at \in Nat
  BY DEF ParseStates
<1>3. ~Refuse(s).ok
  BY RefuseIs
<1>4. t = TakeClause(cut, s) /\ s.at # Len(cut)
  BY <1>1, <1>2, <1>3 DEF ClauseStep
<1> HIDE DEF t, n
<1>5. TakeClause(cut, s).ok
  BY <1>4 DEF t
<1>6. /\ cut[s.at] \in {"on", "from", "to", "port", "proto"}
      /\ cut[s.at] \in {"on", "port", "proto"} => t.at = s.at + 2
      /\ cut[s.at] \in {"from", "to"} =>
           IF TakesPort(cut, s.at) THEN s.at + 3 <= Len(cut) /\ t.at = s.at + 4
           ELSE t.at = s.at + 2
  BY <1>4, <1>5, TakeClauseAt
<1>7. c.kind = cut[s.at]
  BY <1>1, <1>6 DEF Keywords
<1>8. ASSUME k < n, t.at = off[k] + 1 PROVE \E j \in 1..n : t.at = off[j - 1] + 1
  <2>1. k + 1 \in 1..n /\ (k + 1) - 1 = k
    BY <1>1, <1>8
  <2> QED
    BY <1>8, <2>1
<1>9. CASE c.kind \in {"on", "port", "proto"}
  <2>1. k # n
    BY <1>1, <1>2, <1>4, <1>9
  <2> QED
    BY <1>1, <1>2, <1>6, <1>7, <1>8, <1>9, <2>1 DEF t, n
<1>10. CASE c.kind \in {"from", "to"} /\ c.port # None
  <2>1. s.at + 2 <= Len(cut)
    BY <1>1, <1>2, <1>10
  <2>2. TakesPort(cut, s.at)
    BY <1>1, <1>10, <2>1 DEF TakesPort
  <2>3. s.at + 3 <= Len(cut) /\ t.at = s.at + 4
    BY <1>6, <1>7, <1>10, <2>2
  <2>4. k # n
    BY <1>1, <1>2, <1>10, <2>3
  <2> QED
    BY <1>1, <1>2, <1>8, <1>10, <2>3, <2>4 DEF t, n
<1>11. CASE c.kind \in {"from", "to"} /\ c.port = None
  <2>1. k # n
    BY <1>1, <1>2, <1>4, <1>11
  <2>2. CASE ~TakesPort(cut, s.at)
    BY <1>1, <1>2, <1>6, <1>7, <1>8, <1>11, <2>1, <2>2 DEF t, n
  <2>3. CASE TakesPort(cut, s.at)
    <3> DEFINE m == k + 1
               d == cs[m]
    <3>1. m \in 1..Len(cs) /\ m - 1 = k
      BY <1>1, <2>1 DEF n
    <3>2. off[k] + 1 = s.at + 2 /\ cut[s.at + 2] = "port" /\ s.at + 3 <= Len(cut) /\ t.at = s.at + 4
      <4>1. cut[s.at + 2] = "port"
        BY <2>3 DEF TakesPort
      <4>2. s.at + 3 <= Len(cut) /\ t.at = s.at + 4
        BY <1>6, <1>7, <1>11, <2>3
      <4>3. off[k] = s.at + 1
        BY <1>1, <1>11
      <4> QED
        BY <1>1, <1>2, <4>1, <4>2, <4>3
    <3> HIDE DEF m
    <3>3. LET at == off[m - 1] + 1
          IN  /\ d \in Phrases /\ off[m] \in Nat
              /\ m < Len(cs) => off[m] < Len(cut)
              /\ m = Len(cs) => off[m] = Len(cut) + 1
              /\ d.kind \in {"dir", "word"} =>
                   cut[at] = d.word /\ d.word \notin Keywords \ {"in", "out"}
              /\ d.kind \notin {"dir", "word"} => cut[at] = d.kind
              /\ d.kind \in {"on", "port", "proto"} => off[m] = at + 1
      BY <3>1, CutAt
    <3> HIDE DEF d
    <3>4. d.kind = "port"
      BY <3>1, <3>2, <3>3 DEF Keywords
    <3>5. off[m] = s.at + 3
      <4>1. off[m] = (off[m - 1] + 1) + 1
        BY <3>3, <3>4
      <4>2. off[m] = (off[k] + 1) + 1
        BY <3>1, <4>1
      <4>3. off[m] = (s.at + 2) + 1
        BY <3>2, <4>2
      <4> QED
        BY <1>2, <4>3
    <3>6. m # Len(cs)
      BY <1>1, <1>2, <3>2, <3>3, <3>5
    <3>7. m + 1 \in 1..Len(cs) /\ (m + 1) - 1 = m
      BY <1>1, <3>1, <3>6 DEF n
    <3>8. t.at = off[(m + 1) - 1] + 1
      BY <1>2, <3>2, <3>5, <3>7
    <3> QED
      BY <3>7, <3>8 DEF t
  <2> QED
    BY <2>2, <2>3
<1> QED
  BY <1>6, <1>7, <1>9, <1>10, <1>11

\* So the loop never comes to the end of the words: it refuses them.
LEMMA CutLoop ==
  ASSUME NEW cs, NEW ts, NEW off, NEW cut, CutOff(cs, ts, off, cut),
         NEW rule \in UserRules, NEW k \in 1..Len(cs)
  PROVE  ~Clauses(rule, cut, off[k - 1] + 1)[Len(cut)].ok
<1> DEFINE N == Len(cut)
           at == off[k - 1] + 1
           pass == Clauses(rule, cut, at)
           Good(i) == pass[i].ok => \E j \in 1..Len(cs) : pass[i].at = off[j - 1] + 1
           D == {i \in Nat : i <= N => Good(i)}
<1>1. cut \in Seq(Token) /\ N \in Nat
  BY DEF CutOff
<1>2. \A j \in 1..Len(cs) : off[j - 1] \in Nat /\ off[j - 1] + 1 <= N
  BY CutAt
<1>3. at \in Nat \ {0}
  BY <1>2
<1> HIDE DEF at
<1>4. /\ pass[0] = ParseStart(rule, at)
      /\ \A i \in 0..N : pass[i] \in ParseStates
      /\ \A i \in 1..N : pass[i] = ClauseStep(cut, pass[i - 1])
      /\ pass[N].ok => pass[N].at > N
  BY <1>1, <1>3, ClausesDef
<1> HIDE DEF pass, N
<1>5. 0 \in D
  BY <1>4 DEF ParseStart, at
<1>6. ASSUME NEW i \in Nat, i \in D PROVE i + 1 \in D
  <2> SUFFICES ASSUME i + 1 <= N, pass[i + 1].ok
               PROVE  \E j \in 1..Len(cs) : pass[i + 1].at = off[j - 1] + 1
    OBVIOUS
  <2> DEFINE s == pass[i]
             t == pass[i + 1]
  <2>1. s.ok => \E j \in 1..Len(cs) : s.at = off[j - 1] + 1
    BY <1>1, <1>6
  <2>2. t = ClauseStep(cut, s) /\ s \in ParseStates
    <3>1. i + 1 \in 1..N /\ (i + 1) - 1 = i /\ i \in 0..N
      BY <1>1
    <3> QED
      BY <1>4, <3>1
  <2>3. t.ok
    OBVIOUS
  <2> HIDE DEF s, t
  <2>4. s.ok
    BY <1>1, <2>2, <2>3, ClauseStepType
  <2>5. PICK j \in 1..Len(cs) : s.at = off[j - 1] + 1
    BY <2>1, <2>4
  <2>6. \E m \in 1..Len(cs) : t.at = off[m - 1] + 1
    BY <2>2, <2>3, <2>4, <2>5, CutStep
  <2> QED
    BY <2>6 DEF t
<1>7. N \in D
  <2> HIDE DEF D
  <2> QED
    BY <1>1, <1>5, <1>6, SetInduction
<1>8. ASSUME pass[N].ok PROVE FALSE
  <2>1. PICK j \in 1..Len(cs) : pass[N].at = off[j - 1] + 1
    BY <1>1, <1>7, <1>8
  <2> QED
    BY <1>1, <1>2, <1>4, <1>8, <2>1
<1> QED
  BY <1>8 DEF pass, N, at

\* What parse_rule_spec makes of a text that breaks off in the middle of a clause.
LEMMA ReadCut ==
  ASSUME NEW cs \in Seq(Phrases), cs # <<>>, Last(cs).kind \notin {"dir", "word"}
  PROVE  ~Read(Front(Text(cs))).ok
<1> DEFINE ts == Text(cs)
           cut == Front(ts)
           n == Len(cs)
           blank == BlankRule("deny")
           full == parse_full_grammar("deny", cut)
<1>1. PICK off : Laid(cs, ts, off)
  BY TextLaid
<1> HIDE DEF ts
<1>2. n \in Nat \ {0} /\ n \in 1..n /\ 1 \in 1..n /\ cs[n].kind \notin {"dir", "word"}
  BY DEF Last
<1>3. ts \in Seq(Token) /\ off[0] = 0 /\ off[n] = Len(ts) /\ Len(ts) \in Nat
  BY <1>1, LaidType
<1>4. Len(ts) # 0
  <2>1. 0 \in 0..Len(cs) /\ n \in 0..Len(cs) /\ 0 < n
    BY <1>2
  <2>2. off[0] < off[n]
    BY <1>1, <2>1, OffGrows
  <2> QED
    BY <1>3, <2>2
<1>5. cut \in Seq(Token) /\ Len(cut) = Len(ts) - 1 /\ \A j \in 1..Len(cut) : cut[j] = ts[j]
  <2> DEFINE m == Len(ts) - 1
  <2>1. m \in Nat /\ m <= Len(ts)
    BY <1>3, <1>4
  <2>2. cut = SubSeq(ts, 1, m)
    BY DEF Front
  <2> HIDE DEF m, cut
  <2>3. cut \in Seq(Token) /\ Len(cut) = m /\ \A j \in 1..m : cut[j] = ts[j]
    BY <1>3, <2>1, <2>2
  <2> QED
    BY <2>3 DEF m
<1> HIDE DEF cut
<1>6. CutOff(cs, ts, off, cut)
  BY <1>1, <1>2, <1>5 DEF CutOff
<1> DEFINE c == cs[1]
<1>7. /\ Len(cut) \in Nat /\ c \in Phrases /\ off[1] \in Nat
      /\ 1 < n => off[1] < Len(cut)
      /\ 1 = n => off[1] = Len(cut) + 1
      /\ 1 <= Len(cut)
      /\ c.kind \in {"dir", "word"} =>
           off[1] = 1 /\ cut[1] = c.word /\ c.word \notin Keywords \ {"in", "out"}
      /\ c.kind \notin {"dir", "word"} => cut[1] = c.kind
  <2>1. \A k \in 1..Len(cs) :
          LET d == cs[k]
              at == off[k - 1] + 1
          IN  /\ Len(cut) \in Nat /\ d \in Phrases /\ off[k] \in Nat
              /\ k < Len(cs) => off[k] < Len(cut)
              /\ k = Len(cs) => off[k] = Len(cut) + 1
              /\ at <= Len(cut)
              /\ d.kind \in {"dir", "word"} =>
                   off[k] = at /\ cut[at] = d.word /\ d.word \notin Keywords \ {"in", "out"}
              /\ d.kind \notin {"dir", "word"} => cut[at] = d.kind
    BY <1>6, CutAt
  <2>2. 1 - 1 = 0 /\ off[0] + 1 = 1
    BY <1>3
  <2> QED
    BY <1>2, <2>1, <2>2
<1> HIDE DEF c
<1>8. /\ c.kind = "dir" => c.word \in {"in", "out"}
      /\ c.kind = "word" => c.word \notin Keywords
      /\ c.kind \in {"dir", "on", "from", "to", "port", "proto", "word"}
      /\ \A w \in Keywords : ~IsShorthand(w)
      /\ c.word \in Token
  BY <1>7, VocabularyAssumption DEF Token
<1>9. cut[1] \in {"in", "out"} <=> c.kind = "dir"
  BY <1>7, <1>8 DEF Keywords
<1>10. cut # <<>> /\ ~(Len(cut) = 1 /\ IsShorthand(cut[1]))
  <2>1. cut # <<>>
    BY <1>7
  <2>2. ASSUME Len(cut) = 1 PROVE ~IsShorthand(cut[1])
    <3>1. c.kind \notin {"dir", "word"}
      BY <1>2, <1>7, <2>2 DEF c
    <3>2. cut[1] \in Keywords
      BY <1>7, <1>8, <3>1 DEF Keywords
    <3> QED
      BY <1>8, <3>2
  <2> QED
    BY <2>1, <2>2
<1> DEFINE end == (IF cut[1] \notin {"in", "out"} THEN Clauses(blank, cut, 1)
                   ELSE Clauses([blank EXCEPT !.direction = cut[1]], cut, 2))[Len(cut)]
<1>11. full = IF end.ok THEN Ok(end.rule) ELSE Err
  BY DEF parse_full_grammar
<1>12. blank \in UserRules /\ [blank EXCEPT !.direction = c.word] \in UserRules
  BY <1>8, BlankIs
<1>13. \A rule \in UserRules, k \in 1..Len(cs) : ~Clauses(rule, cut, off[k - 1] + 1)[Len(cut)].ok
  BY <1>6, CutLoop
<1>14. ~end.ok
  <2> HIDE DEF blank
  <2>1. CASE c.kind = "dir"
    <3> DEFINE r == [blank EXCEPT !.direction = c.word]
    <3>1. n # 1
      BY <1>2, <2>1 DEF c
    <3>2. 2 \in 1..Len(cs) /\ 2 - 1 = 1 /\ off[1] + 1 = 2
      <4>1. off[1] = 1
        BY <1>7, <2>1
      <4>2. 2 \in 1..n
        <5> HIDE DEF n
        <5> QED
          BY <1>2, <3>1
      <4> QED
        BY <4>1, <4>2
    <3>3. end = Clauses(r, cut, 2)[Len(cut)]
      BY <1>7, <1>9, <2>1
    <3>4. ~Clauses(r, cut, 2)[Len(cut)].ok
      <4> HIDE DEF r
      <4>1. r \in UserRules
        BY <1>12 DEF r
      <4>2. ~Clauses(r, cut, off[2 - 1] + 1)[Len(cut)].ok
        BY <1>13, <3>2, <4>1
      <4> QED
        BY <3>2, <4>2
    <3> HIDE DEF end
    <3> QED
      BY <3>3, <3>4
  <2>2. CASE c.kind # "dir"
    <3>1. 1 \in 1..Len(cs) /\ 1 - 1 = 0 /\ off[0] + 1 = 1
      BY <1>2, <1>3
    <3>2. end = Clauses(blank, cut, 1)[Len(cut)]
      BY <1>9, <2>2
    <3>3. ~Clauses(blank, cut, 1)[Len(cut)].ok
      BY <1>12, <1>13, <3>1
    <3> HIDE DEF end
    <3> QED
      BY <3>2, <3>3
  <2> QED
    BY <2>1, <2>2
<1> HIDE DEF end, full
<1>15. ~full.ok
  BY <1>11, <1>14 DEF Err
<1>16. Read(cut) = Err
  BY <1>10, <1>15 DEF Read, parse_rule_spec, full
<1> QED
  BY <1>16 DEF Err, cut, ts

\* For every vocabulary, and rules of any length: the grammar takes the rules in
\* which the direction comes first, nothing is given twice and every word is
\* known, and no other; and none that breaks off in the middle of a clause.
THEOREM TakesWholeRules == Spec => []GrammarTakesWholeRules
<1>1. TypedOK => GrammarTakesWholeRules
  <2> SUFFICES ASSUME TypedOK, typed # <<>>,
                      ~(Len(typed) = 1 /\ typed[1].kind = "word" /\ typed[1].word \in DOMAIN LongForm)
               PROVE  /\ Read(Text(typed)).ok <=> Grammatical(typed)
                      /\ Last(typed).kind \notin {"dir", "word"} => ~Read(Front(Text(typed))).ok
    BY DEF GrammarTakesWholeRules
  <2>1. typed \in Seq(Phrases)
    BY DEF TypedOK
  <2> QED
    BY <2>1, ReadText, ReadCut
<1> QED
  BY <1>1, TypedIsPhrases, PTL

-----------------------------------------------------------------------------
(* From the rule that the loop has put together to the packets it matches. *)

\* What a rule that says all clauses says.
SaysAll(cs, u) ==
  /\ u.direction = IF OfKind(cs, "dir") = {} THEN "in" ELSE cs[1].word
  /\ IF OfKind(cs, "on") = {} THEN u.iface = None
     ELSE \A j \in OfKind(cs, "on") : u.iface = cs[j].word
  /\ IF OfKind(cs, "proto") = {} THEN u.proto = None
     ELSE \A j \in OfKind(cs, "proto") : u.proto = Protocol(cs[j].word)
  /\ IF OfKind(cs, "from") = {} THEN u.src = None
     ELSE \A j \in OfKind(cs, "from") : u.src = Addr(cs[j].word)
  /\ IF OfKind(cs, "to") = {} THEN u.dst = None
     ELSE \A j \in OfKind(cs, "to") : u.dst = Addr(cs[j].word)
  /\ IF SrcPorts(cs) = {} THEN u.src_port = None
     ELSE \A j \in SrcPorts(cs) : u.src_port = PortWord(cs[j])
  /\ IF DstPorts(cs) = {} THEN u.dst_port = None
     ELSE \A j \in DstPorts(cs) : u.dst_port = PortWord(cs[j])

\* With every clause taken, the rule says them all.
LEMMA SaidAll ==
  ASSUME NEW cs \in Seq(Phrases), NEW u, Said(cs, Len(cs), u)
  PROVE  SaysAll(cs, u)
<1>1. \A j \in DOMAIN cs : j <= Len(cs)
  OBVIOUS
<1>2. \A kind : Of(cs, kind, Len(cs)) = OfKind(cs, kind)
  BY <1>1 DEF Of, OfKind
<1>3. Dst(cs, Len(cs)) = DstPorts(cs) /\ Src(cs, Len(cs)) = SrcPorts(cs)
  BY <1>1 DEF Dst, Src, DstPorts, SrcPorts, OfKind
<1> QED
  BY <1>2, <1>3 DEF Said, SaysAll

\* Clauses and their words.
LEMMA ClauseWords ==
  ASSUME NEW cs \in Seq(Phrases)
  PROVE  /\ \A k \in DOMAIN cs : cs[k] \in Phrases /\ cs[k].word # None
         /\ \A kind : OfKind(cs, kind) \subseteq DOMAIN cs
         /\ \A k \in SrcPorts(cs) \cup DstPorts(cs) : k \in DOMAIN cs /\ PortWord(cs[k]) # None
<1>1. \A k \in DOMAIN cs : cs[k] \in Phrases
  OBVIOUS
<1>2. \A k \in DOMAIN cs : cs[k].word # None
  BY <1>1, VocabularyAssumption
<1>3. \A kind : OfKind(cs, kind) \subseteq DOMAIN cs
  BY DEF OfKind
<1>4. ASSUME NEW k \in SrcPorts(cs) \cup DstPorts(cs)
      PROVE  k \in DOMAIN cs /\ PortWord(cs[k]) # None
  BY <1>2 DEF SrcPorts, DstPorts, OfKind, PortWord
<1> QED
  BY <1>1, <1>2, <1>3, <1>4

\* The addresses and ports that build_wire_rule sees are those of the clauses.
LEMMA GivenWords ==
  ASSUME NEW cs \in Seq(Phrases), NEW u, SaysAll(cs, u)
  PROVE  /\ GivenAddrs(u) =
              {cs[k].word : k \in OfKind(cs, "from") \cup OfKind(cs, "to")} \ {"any"}
         /\ GivenPorts(u) = {PortWord(cs[k]) : k \in SrcPorts(cs) \cup DstPorts(cs)}
         /\ u.proto = "icmp" <=> \E k \in OfKind(cs, "proto") : Protocol(cs[k].word) = "icmp"
<1>1. \A k \in OfKind(cs, "from") \cup OfKind(cs, "to") : cs[k].word # None
  BY ClauseWords
<1>2. \A k \in SrcPorts(cs) \cup DstPorts(cs) : PortWord(cs[k]) # None
  BY ClauseWords
<1>3. \A w : (w = u.src /\ w # None) <=> (\E k \in OfKind(cs, "from") : w = cs[k].word /\ w # "any")
  BY <1>1 DEF SaysAll, Addr
<1>4. \A w : (w = u.dst /\ w # None) <=> (\E k \in OfKind(cs, "to") : w = cs[k].word /\ w # "any")
  BY <1>1 DEF SaysAll, Addr
<1>5. \A w : (w = u.src_port /\ w # None) <=> (\E k \in SrcPorts(cs) : w = PortWord(cs[k]))
  BY <1>2 DEF SaysAll
<1>6. \A w : (w = u.dst_port /\ w # None) <=> (\E k \in DstPorts(cs) : w = PortWord(cs[k]))
  BY <1>2 DEF SaysAll
<1>7. u.proto = "icmp" <=> \E k \in OfKind(cs, "proto") : Protocol(cs[k].word) = "icmp"
  BY DEF SaysAll, None
<1>8. GivenAddrs(u) = {cs[k].word : k \in OfKind(cs, "from") \cup OfKind(cs, "to")} \ {"any"}
  BY <1>3, <1>4 DEF GivenAddrs
<1>9. GivenPorts(u) = {PortWord(cs[k]) : k \in SrcPorts(cs) \cup DstPorts(cs)}
  BY <1>5, <1>6 DEF GivenPorts
<1> QED
  BY <1>7, <1>8, <1>9

\* build_wire_rule refuses a rule exactly when its clauses cannot be satisfied.
LEMMA BuiltOk ==
  ASSUME NEW cs \in Seq(Phrases), NEW u, SaysAll(cs, u)
  PROVE  Built(u).ok <=> Satisfiable(cs)
<1> DEFINE addrs == {cs[k].word : k \in OfKind(cs, "from") \cup OfKind(cs, "to")} \ {"any"}
           ports == {PortWord(cs[k]) : k \in SrcPorts(cs) \cup DstPorts(cs)}
<1>1. /\ GivenAddrs(u) = addrs /\ GivenPorts(u) = ports
      /\ u.proto = "icmp" <=> \E k \in OfKind(cs, "proto") : Protocol(cs[k].word) = "icmp"
  BY GivenWords
<1>2. Satisfiable(cs) <=>
        /\ \A a \in addrs :
             a \in DOMAIN AddrText /\ AddrText[a].prefix <= AddrBits(AddrText[a].family)
        /\ \A a, b \in addrs : AddrText[a].family = AddrText[b].family
        /\ \A w \in ports :
             w \in DOMAIN PortText /\ 1 <= Head(PortText[w]) /\ Head(PortText[w]) <= Last(PortText[w])
        /\ ports = {} \/ \A k \in OfKind(cs, "proto") : Protocol(cs[k].word) # "icmp"
  BY DEF Satisfiable
<1> HIDE DEF addrs, ports
<1>3. Built(u).ok <=> /\ u.proto = "icmp" => ports = {}
                      /\ \A w \in addrs : parse_cidr(w).ok
                      /\ \A v, w \in addrs : AddrText[v].family = AddrText[w].family
                      /\ \A w \in ports : parse_port_range(w).ok
  BY <1>1, WireRuleOf DEF Built
<1>4. \A w \in addrs : parse_cidr(w).ok <=>
        w \in DOMAIN AddrText /\ AddrText[w].prefix <= AddrBits(AddrText[w].family)
  BY CidrOf
<1>5. \A w \in ports : parse_port_range(w).ok <=>
        w \in DOMAIN PortText /\ 1 <= Head(PortText[w]) /\ Head(PortText[w]) <= Last(PortText[w])
  BY PortsOf
<1> QED
  BY <1>1, <1>2, <1>3, <1>4, <1>5

\* What parse_packet makes of a plain frame: the id of an ICMP message is in both
\* port slots, and ICMPv6 is a protocol of its own.
LEMMA PlainParsed ==
  ASSUME NEW f \in FrameType, Plain(f)
  PROVE  LET p == parse_packet(f)
         IN  /\ p.family = f.net /\ p.src = f.src /\ p.dst = f.dst
             /\ Transport(f) \in {"tcp", "udp", "icmp", "other"}
             /\ Transport(f) \in {"tcp", "udp"} =>
                  p.proto = Transport(f) /\ p.sport = f.sport /\ p.dport = f.dport
             /\ Transport(f) = "icmp" =>
                  /\ p.proto = IF f.net = "v4" THEN "icmp" ELSE "icmpv6"
                  /\ p.sport = f.sport /\ p.dport = f.sport
             /\ Transport(f) = "other" => p.proto = "any" /\ p.sport = 0 /\ p.dport = 0
<1>1. /\ f.net \in {"v4", "v6"} /\ f.tags <= 2 /\ f.exts = <<>> /\ Len(f.exts) = 0
      /\ Readable(f, 1) /\ Readable(f, 2) /\ Readable(f, 3)
      /\ f.ihl \in 5..15 /\ ~f.fragment
  BY FrameFields DEF Plain, Readable
<1>2. parse_packet(f) = IF f.net = "v4" THEN parse_v4(f) ELSE parse_v6(f)
  BY <1>1, ParseIp
<1>3. parse_v4(f) = parse_l4(f, f.proto, 3)
  BY <1>1 DEF parse_v4
<1>4. parse_v6(f) = parse_l4(f, f.proto, 3)
  <2>1. walk_v6_ext(f).res = "l4"
    BY <1>1, BareWalk
  <2>2. parse_v6(f) = parse_l4(f, f.proto, 3 + Len(f.exts))
    BY <1>1, <2>1 DEF parse_v6
  <2> QED
    BY <1>1, <2>2
<1> DEFINE p == parse_l4(f, f.proto, 3)
           n == normalize_proto(f.proto, f.net)
<1>5. parse_packet(f) = p
  BY <1>2, <1>3, <1>4
<1>6. /\ p.family = f.net /\ p.proto = n /\ p.src = f.src /\ p.dst = f.dst
      /\ n = "any" => p.sport = 0 /\ p.dport = 0
      /\ n \in {"tcp", "udp"} => p.sport = f.sport /\ p.dport = f.dport
      /\ n \in {"icmp", "icmpv6"} => p.sport = f.sport /\ p.dport = f.sport
  BY <1>1, L4Fields
<1>7. /\ Transport(f) \in {"tcp", "udp", "icmp", "other"}
      /\ Transport(f) \in {"tcp", "udp"} => n = Transport(f)
      /\ Transport(f) = "icmp" => n = IF f.net = "v4" THEN "icmp" ELSE "icmpv6"
      /\ Transport(f) = "other" => n = "any"
  BY <1>1 DEF normalize_proto, Transport
<1> HIDE DEF p, n
<1> QED
  BY <1>5, <1>6, <1>7

\* A network field of the wire rule holds the clause's word, or /0 for `any`.
LEMMA NetMatches ==
  ASSUME NEW word, word # None, NEW cidr, NEW family \in {"v4", "v6"}, NEW addr \in Addresses(family),
         Addr(word) = None => cidr.prefix = 0,
         Addr(word) # None => parse_cidr(Addr(word)).ok /\ cidr = parse_cidr(Addr(word)).value
  PROVE  cidr_contains(cidr, addr, family) <=> NetSeen(word, family, addr)
<1>1. CASE word = "any"
  <2>1. cidr.prefix = 0
    BY <1>1 DEF Addr
  <2> QED
    BY <1>1, <2>1 DEF cidr_contains, NetSeen, InNet
<1>2. CASE word # "any"
  <2>1. Addr(word) = word
    BY <1>2 DEF Addr
  <2> QED
    BY <1>2, <2>1, ContainsIsInNet
<1> QED
  BY <1>1, <1>2

\* What a port clause comes to in the data path: an ICMP id is taken for a port.
PortSeen(word, f, port) ==
  PortIn(word, f, port) \/ (Transport(f) = "icmp" /\ InRange(word, f.sport))

\* What a `proto` clause comes to: `icmp` is not ICMPv6.
ProtoSeen(word, f) ==
  Protocol(word) \in {"any", Transport(f)} /\ ~(Protocol(word) = "icmp" /\ f.net = "v6")

\* A port range of the wire rule, which never has 0 as its end, is the clause's.
LEMMA PortMatches ==
  ASSUME NEW word, parse_port_range(word).ok, NEW f, NEW port \in Nat, NEW seen, f.sport \in Nat,
         Transport(f) \in {"tcp", "udp", "icmp", "other"},
         Transport(f) \in {"tcp", "udp"} => seen = port,
         Transport(f) = "icmp" => seen = f.sport,
         Transport(f) = "other" => seen = 0
  PROVE  InPorts(seen, parse_port_range(word).value) <=> PortSeen(word, f, port)
<1> DEFINE lo == Head(PortText[word])
           hi == Last(PortText[word])
           r == parse_port_range(word).value
<1>1. lo \in Nat /\ hi \in Nat /\ 1 <= lo /\ lo <= hi /\ r[1] = lo /\ r[2] = hi
  BY PortsOf
<1>2. PortSeen(word, f, port) <=>
        \/ Transport(f) \in {"tcp", "udp"} /\ lo <= port /\ port <= hi
        \/ Transport(f) = "icmp" /\ lo <= f.sport /\ f.sport <= hi
  BY DEF PortSeen, PortIn, InRange
<1> HIDE DEF lo, hi, r
<1>3. InPorts(seen, r) <=> lo <= seen /\ seen <= hi
  BY <1>1 DEF InPorts
<1> QED
  BY <1>1, <1>2, <1>3 DEF r

\* All clauses hold: those of each field do.
LEMMA HoldsByField ==
  ASSUME NEW cs \in Seq(Phrases), Grammatical(cs), NEW f, NEW d, NEW ifx
  PROVE  Means(cs, f, d, ifx) <=>
           /\ d = IF OfKind(cs, "dir") = {} THEN "in" ELSE cs[1].word
           /\ \A k \in OfKind(cs, "on") : ifx = Ifindex[cs[k].word]
           /\ \A k \in OfKind(cs, "proto") : Protocol(cs[k].word) \in {"any", Transport(f)}
           /\ \A k \in OfKind(cs, "from") : InNet(cs[k].word, f.net, f.src)
           /\ \A k \in OfKind(cs, "to") : InNet(cs[k].word, f.net, f.dst)
           /\ \A k \in SrcPorts(cs) : PortIn(PortWord(cs[k]), f, f.sport)
           /\ \A k \in DstPorts(cs) : PortIn(PortWord(cs[k]), f, f.dport)
<1> DEFINE HDir(k) == cs[k].kind = "dir" => d = cs[k].word
           HOn(k) == cs[k].kind = "on" => ifx = Ifindex[cs[k].word]
           HProto(k) == cs[k].kind = "proto" => Protocol(cs[k].word) \in {"any", Transport(f)}
           HFrom(k) == cs[k].kind = "from" => InNet(cs[k].word, f.net, f.src)
           HTo(k) == cs[k].kind = "to" => InNet(cs[k].word, f.net, f.dst)
           HSrc(k) == k \in SrcPorts(cs) => PortIn(PortWord(cs[k]), f, f.sport)
           HDst(k) == k \in DstPorts(cs) => PortIn(PortWord(cs[k]), f, f.dport)
<1>1. ASSUME NEW k \in DOMAIN cs
      PROVE  Holds(cs, k, f, d, ifx) <=>
               HDir(k) /\ HOn(k) /\ HProto(k) /\ HFrom(k) /\ HTo(k) /\ HSrc(k) /\ HDst(k)
  <2> DEFINE c == cs[k]
  <2>1. c \in Phrases
    OBVIOUS
  <2>2. c.kind \in {"dir", "on", "from", "to", "port", "proto"}
    BY <2>1, VocabularyAssumption DEF Grammatical, OfKind
  <2>3. /\ k \in SrcPorts(cs) <=> \/ c.kind = "port" /\ AfterFrom(cs, k)
                                  \/ c.kind = "from" /\ c.port # None
        /\ k \in DstPorts(cs) <=> \/ c.kind = "port" /\ ~AfterFrom(cs, k)
                                  \/ c.kind = "to" /\ c.port # None
    BY DEF SrcPorts, DstPorts, OfKind
  <2>4. PortWord(c) = IF c.kind = "port" THEN c.word ELSE c.port
    BY DEF PortWord
  <2> DEFINE after == AfterFrom(cs, k)
             src == k \in SrcPorts(cs)
             dst == k \in DstPorts(cs)
  <2>5. CASE c.kind = "dir"
    BY <2>3, <2>5 DEF Holds
  <2>6. CASE c.kind = "on"
    BY <2>3, <2>6 DEF Holds
  <2>7. CASE c.kind = "proto"
    BY <2>3, <2>7 DEF Holds
  <2>8. CASE c.kind = "from"
    BY <2>3, <2>4, <2>8 DEF Holds
  <2>9. CASE c.kind = "to"
    BY <2>3, <2>4, <2>9 DEF Holds
  <2>10. CASE c.kind = "port"
    BY <2>3, <2>4, <2>10 DEF Holds
  <2> QED
    BY <2>2, <2>5, <2>6, <2>7, <2>8, <2>9, <2>10
<1>2. /\ (\A k \in DOMAIN cs : HOn(k)) <=> \A k \in OfKind(cs, "on") : ifx = Ifindex[cs[k].word]
      /\ (\A k \in DOMAIN cs : HProto(k)) <=>
           \A k \in OfKind(cs, "proto") : Protocol(cs[k].word) \in {"any", Transport(f)}
      /\ (\A k \in DOMAIN cs : HFrom(k)) <=>
           \A k \in OfKind(cs, "from") : InNet(cs[k].word, f.net, f.src)
      /\ (\A k \in DOMAIN cs : HTo(k)) <=>
           \A k \in OfKind(cs, "to") : InNet(cs[k].word, f.net, f.dst)
  BY DEF OfKind
<1>3. \A k \in SrcPorts(cs) \cup DstPorts(cs) : k \in DOMAIN cs
  BY ClauseWords
<1>4. ((\A k \in DOMAIN cs : HDir(k)) /\ (OfKind(cs, "dir") = {} => d = "in")) <=>
        d = IF OfKind(cs, "dir") = {} THEN "in" ELSE cs[1].word
  <2>1. OfKind(cs, "dir") \subseteq {1}
    BY DEF Grammatical
  <2>2. (\A k \in DOMAIN cs : HDir(k)) <=> \A k \in OfKind(cs, "dir") : d = cs[k].word
    BY DEF OfKind
  <2> QED
    BY <2>1, <2>2
<1>5. /\ (\A k \in DOMAIN cs : HSrc(k)) <=>
           \A k \in SrcPorts(cs) : PortIn(PortWord(cs[k]), f, f.sport)
      /\ (\A k \in DOMAIN cs : HDst(k)) <=>
           \A k \in DstPorts(cs) : PortIn(PortWord(cs[k]), f, f.dport)
  BY <1>3
<1>6. (\A k \in DOMAIN cs : Holds(cs, k, f, d, ifx)) <=>
        /\ \A k \in DOMAIN cs : HDir(k)
        /\ \A k \in DOMAIN cs : HOn(k)
        /\ \A k \in DOMAIN cs : HProto(k)
        /\ \A k \in DOMAIN cs : HFrom(k)
        /\ \A k \in DOMAIN cs : HTo(k)
        /\ \A k \in DOMAIN cs : HSrc(k)
        /\ \A k \in DOMAIN cs : HDst(k)
  <2> HIDE DEF HDir, HOn, HProto, HFrom, HTo, HSrc, HDst
  <2> QED
    BY <1>1
<1> HIDE DEF HDir, HOn, HProto, HFrom, HTo, HSrc, HDst
<1> QED
  BY <1>2, <1>4, <1>5, <1>6 DEF Means

\* What the clauses of each field come to in the data path.
FieldsSeen(cs, f, d, ifx) ==
  /\ d = IF OfKind(cs, "dir") = {} THEN "in" ELSE cs[1].word
  /\ \A k \in OfKind(cs, "on") : ifx = Ifindex[cs[k].word]
  /\ \A k \in OfKind(cs, "proto") : ProtoSeen(cs[k].word, f)
  /\ \A k \in OfKind(cs, "from") : NetSeen(cs[k].word, f.net, f.src)
  /\ \A k \in OfKind(cs, "to") : NetSeen(cs[k].word, f.net, f.dst)
  /\ \A k \in SrcPorts(cs) : PortSeen(PortWord(cs[k]), f, f.sport)
  /\ \A k \in DstPorts(cs) : PortSeen(PortWord(cs[k]), f, f.dport)

\* The wire rule compares what the clauses say, field by field.
LEMMA WireMatches ==
  ASSUME NEW cs \in Seq(Phrases), Grammatical(cs), NEW u, SaysAll(cs, u), Built(u).ok,
         NEW f \in FrameType, Plain(f), NEW d, NEW ifx
  PROVE  RuleMatches(Built(u).value, d, ifx, parse_packet(f)) <=> FieldsSeen(cs, f, d, ifx)
<1> DEFINE ifindex == IF u.iface = None THEN 0 ELSE Ifindex[u.iface]
           v == Built(u).value
           p == parse_packet(f)
<1>1. /\ \A w \in GivenAddrs(u) : parse_cidr(w).ok
      /\ \A w \in GivenPorts(u) : parse_port_range(w).ok
      /\ v.direction = u.direction
      /\ v.proto = proto_byte(u.proto) /\ v.ifindex = ifindex
      /\ u.src # None => v.src = parse_cidr(u.src).value
      /\ u.dst # None => v.dst = parse_cidr(u.dst).value
      /\ u.src_port # None => v.src_port = parse_port_range(u.src_port).value
      /\ u.dst_port # None => v.dst_port = parse_port_range(u.dst_port).value
      /\ u.src = None => v.src.prefix = 0
      /\ u.dst = None => v.dst.prefix = 0
      /\ u.src_port = None => v.src_port = AnyPort
      /\ u.dst_port = None => v.dst_port = AnyPort
  BY WireRuleOf DEF Built
<1>2. /\ u.src # None => parse_cidr(u.src).ok
      /\ u.dst # None => parse_cidr(u.dst).ok
      /\ u.src_port # None => parse_port_range(u.src_port).ok
      /\ u.dst_port # None => parse_port_range(u.dst_port).ok
  BY <1>1 DEF GivenAddrs, GivenPorts
<1>3. /\ p.family = f.net /\ p.src = f.src /\ p.dst = f.dst
      /\ Transport(f) \in {"tcp", "udp", "icmp", "other"}
      /\ Transport(f) \in {"tcp", "udp"} =>
           p.proto = Transport(f) /\ p.sport = f.sport /\ p.dport = f.dport
      /\ Transport(f) = "icmp" =>
           /\ p.proto = IF f.net = "v4" THEN "icmp" ELSE "icmpv6"
           /\ p.sport = f.sport /\ p.dport = f.sport
      /\ Transport(f) = "other" => p.proto = "any" /\ p.sport = 0 /\ p.dport = 0
  BY PlainParsed
<1>4. /\ f.net \in {"v4", "v6"} /\ f.src \in Addresses(f.net) /\ f.dst \in Addresses(f.net)
      /\ f.sport \in Nat /\ f.dport \in Nat
  BY DEF Plain, FrameType
<1>5. /\ \A k \in DOMAIN cs : cs[k] \in Phrases /\ cs[k].word # None
      /\ \A kind : OfKind(cs, kind) \subseteq DOMAIN cs
      /\ \A k \in SrcPorts(cs) \cup DstPorts(cs) : k \in DOMAIN cs /\ PortWord(cs[k]) # None
  BY ClauseWords
<1>6. RuleMatches(v, d, ifx, p) <=>
        /\ v.direction = d /\ v.ifindex \in {0, ifx} /\ v.proto \in {"any", p.proto}
        /\ InPorts(p.dport, v.dst_port) /\ InPorts(p.sport, v.src_port)
        /\ cidr_contains(v.src, f.src, f.net) /\ cidr_contains(v.dst, f.dst, f.net)
  BY <1>3 DEF RuleMatches
<1> HIDE DEF v, p
<1>7. v.direction = d <=> d = IF OfKind(cs, "dir") = {} THEN "in" ELSE cs[1].word
  BY <1>1 DEF SaysAll
<1>8. v.ifindex \in {0, ifx} <=> \A k \in OfKind(cs, "on") : ifx = Ifindex[cs[k].word]
  <2>1. CASE OfKind(cs, "on") = {}
    <3>1. v.ifindex = 0
      BY <1>1, <2>1 DEF SaysAll
    <3> QED
      BY <2>1, <3>1
  <2>2. CASE OfKind(cs, "on") # {}
    <3>1. \A k \in OfKind(cs, "on") : u.iface = cs[k].word /\ cs[k].word # None
      BY <1>5, <2>2 DEF SaysAll
    <3>2. \A k \in OfKind(cs, "on") : cs[k].word \in DOMAIN Ifindex
      BY DEF Grammatical
    <3>3. \A k \in OfKind(cs, "on") : v.ifindex = Ifindex[cs[k].word] /\ v.ifindex # 0
      BY <1>1, <3>1, <3>2, VocabularyAssumption
    <3> QED
      BY <2>2, <3>3
  <2> QED
    BY <2>1, <2>2
<1>9. v.proto \in {"any", p.proto} <=>
        \A k \in OfKind(cs, "proto") : ProtoSeen(cs[k].word, f)
  <2>1. CASE OfKind(cs, "proto") = {}
    <3>1. v.proto = "any"
      BY <1>1, <2>1 DEF SaysAll, proto_byte
    <3> QED
      BY <2>1, <3>1
  <2>2. CASE OfKind(cs, "proto") # {}
    <3>1. \A k \in OfKind(cs, "proto") :
            u.proto = Protocol(cs[k].word) /\ Protocol(cs[k].word) \in {"tcp", "udp", "icmp", "any"}
      BY <2>2 DEF SaysAll, Grammatical
    <3>2. \A k \in OfKind(cs, "proto") : v.proto = Protocol(cs[k].word)
      BY <1>1, <3>1 DEF proto_byte, None
    <3>3. \A k \in OfKind(cs, "proto") :
            Protocol(cs[k].word) \in {"any", p.proto} <=> ProtoSeen(cs[k].word, f)
      BY <1>3, <1>4, <3>1 DEF ProtoSeen
    <3> QED
      BY <2>2, <3>2, <3>3
  <2> QED
    BY <2>1, <2>2
<1>10. cidr_contains(v.src, f.src, f.net) <=>
         \A k \in OfKind(cs, "from") : NetSeen(cs[k].word, f.net, f.src)
  <2>1. CASE OfKind(cs, "from") = {}
    <3>1. v.src.prefix = 0
      BY <1>1, <2>1 DEF SaysAll
    <3> QED
      BY <2>1, <3>1 DEF cidr_contains
  <2>2. CASE OfKind(cs, "from") # {}
    <3>1. ASSUME NEW k \in OfKind(cs, "from")
          PROVE  cidr_contains(v.src, f.src, f.net) <=> NetSeen(cs[k].word, f.net, f.src)
      <4>1. u.src = Addr(cs[k].word) /\ cs[k].word # None
        BY <1>5, <2>2 DEF SaysAll
      <4> QED
        BY <1>1, <1>2, <1>4, <4>1, NetMatches
    <3> QED
      BY <2>2, <3>1
  <2> QED
    BY <2>1, <2>2
<1>11. cidr_contains(v.dst, f.dst, f.net) <=>
         \A k \in OfKind(cs, "to") : NetSeen(cs[k].word, f.net, f.dst)
  <2>1. CASE OfKind(cs, "to") = {}
    <3>1. v.dst.prefix = 0
      BY <1>1, <2>1 DEF SaysAll
    <3> QED
      BY <2>1, <3>1 DEF cidr_contains
  <2>2. CASE OfKind(cs, "to") # {}
    <3>1. ASSUME NEW k \in OfKind(cs, "to")
          PROVE  cidr_contains(v.dst, f.dst, f.net) <=> NetSeen(cs[k].word, f.net, f.dst)
      <4>1. u.dst = Addr(cs[k].word) /\ cs[k].word # None
        BY <1>5, <2>2 DEF SaysAll
      <4> QED
        BY <1>1, <1>2, <1>4, <4>1, NetMatches
    <3> QED
      BY <2>2, <3>1
  <2> QED
    BY <2>1, <2>2
<1>12. InPorts(p.sport, v.src_port) <=>
         \A k \in SrcPorts(cs) : PortSeen(PortWord(cs[k]), f, f.sport)
  <2>1. CASE SrcPorts(cs) = {}
    <3>1. v.src_port = AnyPort
      BY <1>1, <2>1 DEF SaysAll
    <3> QED
      BY <2>1, <3>1 DEF InPorts, AnyPort
  <2>2. CASE SrcPorts(cs) # {}
    <3>1. ASSUME NEW k \in SrcPorts(cs)
          PROVE  InPorts(p.sport, v.src_port) <=> PortSeen(PortWord(cs[k]), f, f.sport)
      <4> DEFINE word == PortWord(cs[k])
      <4>1. u.src_port = word /\ word # None
        BY <1>5, <2>2 DEF SaysAll
      <4> HIDE DEF word
      <4>2. parse_port_range(word).ok /\ v.src_port = parse_port_range(word).value
        BY <1>1, <1>2, <4>1
      <4>3. InPorts(p.sport, parse_port_range(word).value) <=> PortSeen(word, f, f.sport)
        BY <1>3, <1>4, <4>2, PortMatches
      <4> QED
        BY <4>2, <4>3 DEF word
    <3> QED
      BY <2>2, <3>1
  <2> QED
    BY <2>1, <2>2
<1>13. InPorts(p.dport, v.dst_port) <=>
         \A k \in DstPorts(cs) : PortSeen(PortWord(cs[k]), f, f.dport)
  <2>1. CASE DstPorts(cs) = {}
    <3>1. v.dst_port = AnyPort
      BY <1>1, <2>1 DEF SaysAll
    <3> QED
      BY <2>1, <3>1 DEF InPorts, AnyPort
  <2>2. CASE DstPorts(cs) # {}
    <3>1. ASSUME NEW k \in DstPorts(cs)
          PROVE  InPorts(p.dport, v.dst_port) <=> PortSeen(PortWord(cs[k]), f, f.dport)
      <4> DEFINE word == PortWord(cs[k])
      <4>1. u.dst_port = word /\ word # None
        BY <1>5, <2>2 DEF SaysAll
      <4> HIDE DEF word
      <4>2. parse_port_range(word).ok /\ v.dst_port = parse_port_range(word).value
        BY <1>1, <1>2, <4>1
      <4>3. InPorts(p.dport, parse_port_range(word).value) <=> PortSeen(word, f, f.dport)
        BY <1>3, <1>4, <4>2, PortMatches
      <4> QED
        BY <4>2, <4>3 DEF word
    <3> QED
      BY <2>2, <3>1
  <2> QED
    BY <2>1, <2>2
<1>14. RuleMatches(v, d, ifx, p) <=> FieldsSeen(cs, f, d, ifx)
  BY <1>6, <1>7, <1>8, <1>9, <1>10, <1>11, <1>12, <1>13 DEF FieldsSeen
<1> QED
  BY <1>14 DEF v, p

\* What matches is what the words say, but for the named exceptions.
LEMMA WireMeans ==
  ASSUME NEW cs \in Seq(Phrases), Grammatical(cs), NEW u, SaysAll(cs, u), Built(u).ok,
         NEW f \in FrameType, Plain(f), NEW d, NEW ifx
  PROVE  LET matches == RuleMatches(Built(u).value, d, ifx, parse_packet(f))
             means == Means(cs, f, d, ifx)
         IN  IF MissesIcmpv6(cs, f) THEN ~matches
             ELSE /\ means => matches
                  /\ matches => means \/ ZeroOfOtherFamily(cs, f) \/ IdTakenForPort(cs, f)
<1> DEFINE matches == RuleMatches(Built(u).value, d, ifx, parse_packet(f))
           means == Means(cs, f, d, ifx)
           Common == /\ d = IF OfKind(cs, "dir") = {} THEN "in" ELSE cs[1].word
                     /\ \A k \in OfKind(cs, "on") : ifx = Ifindex[cs[k].word]
           From == OfKind(cs, "from")
           To == OfKind(cs, "to")
           Sports == SrcPorts(cs)
           Dports == DstPorts(cs)
           Protos == OfKind(cs, "proto")
<1>1. matches <=>
        /\ Common
        /\ \A k \in Protos : ProtoSeen(cs[k].word, f)
        /\ \A k \in From : NetSeen(cs[k].word, f.net, f.src)
        /\ \A k \in To : NetSeen(cs[k].word, f.net, f.dst)
        /\ \A k \in Sports : PortSeen(PortWord(cs[k]), f, f.sport)
        /\ \A k \in Dports : PortSeen(PortWord(cs[k]), f, f.dport)
  <2>1. matches <=> FieldsSeen(cs, f, d, ifx)
    BY WireMatches
  <2> HIDE DEF matches
  <2> QED
    BY <2>1 DEF FieldsSeen
<1>2. means <=>
        /\ Common
        /\ \A k \in Protos : Protocol(cs[k].word) \in {"any", Transport(f)}
        /\ \A k \in From : InNet(cs[k].word, f.net, f.src)
        /\ \A k \in To : InNet(cs[k].word, f.net, f.dst)
        /\ \A k \in Sports : PortIn(PortWord(cs[k]), f, f.sport)
        /\ \A k \in Dports : PortIn(PortWord(cs[k]), f, f.dport)
  BY HoldsByField
<1> HIDE DEF matches, means, Common, From, To, Sports, Dports, Protos
<1>3. ASSUME MissesIcmpv6(cs, f) PROVE ~matches
  <2>1. \E k \in Protos : ~ProtoSeen(cs[k].word, f)
    BY <1>3 DEF MissesIcmpv6, ProtoSeen, Protos
  <2> QED
    BY <1>1, <2>1
<1>4. ASSUME ~MissesIcmpv6(cs, f), means PROVE matches
  <2>1. \A k \in Protos : ProtoSeen(cs[k].word, f)
    BY <1>2, <1>4 DEF MissesIcmpv6, ProtoSeen, Protos
  <2> QED
    BY <1>1, <1>2, <1>4, <2>1 DEF NetSeen, PortSeen
<1>5. ASSUME matches, ~ZeroOfOtherFamily(cs, f), ~IdTakenForPort(cs, f) PROVE means
  <2>1. \A k \in Protos : Protocol(cs[k].word) \in {"any", Transport(f)}
    BY <1>1, <1>5 DEF ProtoSeen
  <2>2. \A k \in From \cup To : cs[k].word # "any" /\ AddrText[cs[k].word].prefix = 0
                             => AddrText[cs[k].word].family = f.net
    BY <1>5 DEF ZeroOfOtherFamily, From, To
  <2>3. /\ \A k \in From : InNet(cs[k].word, f.net, f.src)
        /\ \A k \in To : InNet(cs[k].word, f.net, f.dst)
    BY <1>1, <1>5, <2>2 DEF NetSeen, InNet
  <2>4. CASE Transport(f) # "icmp"
    <3>1. /\ \A k \in Sports : PortIn(PortWord(cs[k]), f, f.sport)
          /\ \A k \in Dports : PortIn(PortWord(cs[k]), f, f.dport)
      BY <1>1, <1>5, <2>4 DEF PortSeen
    <3> QED
      BY <1>1, <1>2, <1>5, <2>1, <2>3, <3>1
  <2>5. CASE Transport(f) = "icmp"
    <3>1. \A k \in Sports \cup Dports : InRange(PortWord(cs[k]), f.sport)
      BY <1>1, <1>5, <2>5 DEF PortSeen, PortIn
    <3>2. Sports \cup Dports = {}
      BY <1>5, <2>5, <3>1 DEF IdTakenForPort, Sports, Dports
    <3> QED
      BY <1>1, <1>2, <1>5, <2>1, <2>3, <3>2
  <2> QED
    BY <2>4, <2>5
<1> QED
  BY <1>3, <1>4, <1>5 DEF matches, means

\* For every vocabulary, every table of addresses and ports, both families and
\* every protocol: a rule that the parser takes becomes a wire rule exactly when
\* its clauses can be satisfied.  That matches every packet of which they all
\* hold, except that `proto icmp` never matches ICMPv6, and no other packet,
\* except for a /0 of the other family and for ICMP ids in the range of a port.
THEOREM MeansItsWords == Spec => []RuleMeansItsWords
<1>1. TypedOK => RuleMeansItsWords
  <2> DEFINE u == Read(Text(typed)).value[1]
             b == Built(u)
             Meets(f, d, ifx) ==
               LET matches == RuleMatches(b.value, d, ifx, parse_packet(f))
                   means == Means(typed, f, d, ifx)
               IN  IF MissesIcmpv6(typed, f) THEN ~matches
                   ELSE /\ means => matches
                        /\ matches => means \/ ZeroOfOtherFamily(typed, f) \/ IdTakenForPort(typed, f)
  <2> SUFFICES ASSUME TypedOK, typed # <<>>, Grammatical(typed)
               PROVE  /\ b.ok <=> Satisfiable(typed)
                      /\ b.ok => \A f \in Probes, d \in {"in", "out"}, ifx \in Range(Ifindex) :
                           Meets(f, d, ifx)
    BY DEF RuleMeansItsWords
  <2>1. typed \in Seq(Phrases) /\ 1 \in DOMAIN typed
    BY DEF TypedOK
  <2>2. typed[1].kind # "word"
    BY <2>1 DEF Grammatical, OfKind
  <2>3. Said(typed, Len(typed), u)
    BY <2>1, <2>2, ReadText
  <2> HIDE DEF u
  <2>4. SaysAll(typed, u)
    BY <2>1, <2>3, SaidAll
  <2>5. b.ok <=> Satisfiable(typed)
    BY <2>1, <2>4, BuiltOk
  <2>6. ASSUME b.ok, NEW f \in Probes, NEW d \in {"in", "out"}, NEW ifx \in Range(Ifindex)
        PROVE  Meets(f, d, ifx)
    <3>1. f \in FrameType /\ Plain(f)
      BY FramesAssumption
    <3> QED
      BY <2>1, <2>4, <2>6, <3>1, WireMeans
  <2> QED
    BY <2>5, <2>6
<1> QED
  BY <1>1, TypedIsPhrases, PTL

-----------------------------------------------------------------------------
(* Shorthands. *)

\* `port p` on its own, or with `proto q`, as the loop reads it.
LEMMA LongLoop ==
  ASSUME NEW p \in Token, NEW q \in Token, NEW ts \in Seq(Token), ts[1] = "port", ts[2] = p,
         \/ Len(ts) = 2
         \/ Len(ts) = 4 /\ ts[3] = "proto" /\ ts[4] = q /\ parse_proto(q).ok
  PROVE  LET end == Clauses(BlankRule("deny"), ts, 1)[Len(ts)]
         IN  /\ end.ok
             /\ Len(ts) = 2 => end.rule = rule_with_port("deny", p, None)
             /\ Len(ts) = 4 => end.rule = rule_with_port("deny", p, parse_proto(q).value)
<1> DEFINE blank == BlankRule("deny")
           N == Len(ts)
           pass == Clauses(blank, ts, 1)
           r == [blank EXCEPT !.dst_port = p]
           r2 == [r EXCEPT !.proto = parse_proto(q).value]
           s == ParseStart(blank, 1)
<1>1. N \in {2, 4} /\ 1 \in Nat \ {0} /\ "in" \in Token
  BY DEF Token, Keywords
<1>2. blank \in UserRules
  BY <1>1, BlankIs
<1> HIDE DEF blank
<1>3. /\ pass[0] = s
      /\ \A i \in 1..N : pass[i] = ClauseStep(ts, pass[i - 1])
  BY <1>1, <1>2, ClausesDef
<1> HIDE DEF pass
<1>4. r \in UserRules /\ (parse_proto(q).ok => r2 \in UserRules)
  <2>1. r \in UserRules
    BY <1>2, SetFields
  <2> HIDE DEF r
  <2> QED
    BY <2>1, SetFields, ProtoIs
<1>5. s \in ParseStates /\ s.ok /\ s.at = 1 /\ s.given = {} /\ s.rule = blank
  BY <1>2 DEF ParseStart, ParseStates
<1> HIDE DEF s
<1>6. {"port"} \subseteq Token /\ {"proto"} \subseteq Token /\ 2 \in Nat
  BY DEF Token, Keywords
<1> DEFINE t == Take(s, 2, {"port"}, r)
<1>7. ClauseStep(ts, s) = t
  <2>1. TakeClause(ts, s) = t
    BY <1>5 DEF TakeClause
  <2> QED
    BY <1>1, <1>5, <2>1 DEF ClauseStep
<1> HIDE DEF r
<1>8. Taken(t, s, 2, {"port"}, r)
  BY <1>4, <1>5, <1>6, TakeIs
<1> HIDE DEF t
<1>9. t \in ParseStates /\ t.ok /\ t.at = 3 /\ t.given = {"port"} /\ t.rule = r
  <2>1. t \in ParseStates /\ t.at = s.at + 2 /\ t.rule = r /\ t.ok = s.ok
    BY <1>8 DEF Taken
  <2>2. t.given = s.given \cup {"port"}
    BY <1>8 DEF Taken
  <2> QED
    BY <1>5, <2>1, <2>2
<1>10. pass[1] = t
  BY <1>1, <1>3, <1>7
<1>11. CASE N = 2
  <2>1. ClauseStep(ts, t) = t
    BY <1>9, <1>11 DEF ClauseStep
  <2>2. pass[2] = t
    BY <1>3, <1>10, <1>11, <2>1
  <2>3. r = rule_with_port("deny", p, None)
    <3> DEFINE x == [direction |-> "in", action |-> "deny", iface |-> None, proto |-> None,
                     src |-> None, dst |-> None, src_port |-> None, dst_port |-> p]
    <3>1. r = x
      BY DEF r, blank, BlankRule
    <3>2. rule_with_port("deny", p, None) = [r EXCEPT !.proto = None]
      BY DEF r, blank, rule_with_port, BlankRule
    <3>3. [x EXCEPT !.proto = None] = x
      OBVIOUS
    <3> HIDE DEF x
    <3> QED
      BY <3>1, <3>2, <3>3
  <2> QED
    BY <1>9, <1>11, <2>2, <2>3 DEF pass, blank
<1>12. CASE N = 4
  <2> DEFINE z == Take(t, 2, {"proto"}, r2)
  <2>1. ts[3] = "proto" /\ ts[4] = q /\ parse_proto(q).ok
    BY <1>12
  <2>2. ClauseStep(ts, t) = z
    <3>1. TakeClause(ts, t) = z
      BY <1>9, <2>1 DEF TakeClause
    <3> QED
      BY <1>9, <1>12, <2>1, <3>1 DEF ClauseStep
  <2> HIDE DEF r2
  <2>3. Taken(z, t, 2, {"proto"}, r2)
    BY <1>4, <1>6, <1>9, <2>1, TakeIs
  <2> HIDE DEF z
  <2>4. z.ok /\ z.at = 5 /\ z.rule = r2
    <3>1. z.at = t.at + 2 /\ z.rule = r2 /\ z.ok = t.ok
      BY <2>3 DEF Taken
    <3> QED
      BY <1>9, <3>1
  <2>5. ClauseStep(ts, z) = z
    BY <1>12, <2>4 DEF ClauseStep
  <2>6. pass[2] = z
    BY <1>3, <1>10, <1>12, <2>2
  <2>7. pass[3] = z
    BY <1>3, <1>12, <2>5, <2>6
  <2>8. pass[4] = z
    BY <1>3, <1>12, <2>5, <2>7
  <2>9. r2 = rule_with_port("deny", p, parse_proto(q).value)
    BY DEF r2, r, blank, rule_with_port, BlankRule
  <2> QED
    BY <1>12, <2>4, <2>8, <2>9 DEF pass, blank
<1> QED
  BY <1>1, <1>11, <1>12

\* To build_wire_rule no protocol and `any` are the same.
LEMMA BuiltAny ==
  ASSUME NEW p
  PROVE  Built(rule_with_port("deny", p, "any")) = Built(rule_with_port("deny", p, None))
<1> DEFINE u == rule_with_port("deny", p, "any")
           v == rule_with_port("deny", p, None)
<1>1. /\ u.direction = v.direction /\ u.action = v.action /\ u.iface = v.iface
      /\ u.src = v.src /\ u.dst = v.dst /\ u.src_port = v.src_port /\ u.dst_port = v.dst_port
      /\ proto_byte(u.proto) = proto_byte(v.proto) /\ u.proto # "icmp" /\ v.proto # "icmp"
  BY DEF rule_with_port, BlankRule, proto_byte, None
<1> HIDE DEF u, v
<1>2. \A i : build_wire_rule(u, i) = build_wire_rule(v, i)
  BY <1>1 DEF build_wire_rule
<1> QED
  BY <1>1, <1>2 DEF Built, u, v

\* A rule typed out is the one that its shorthand becomes.
LEMMA ReadLong ==
  ASSUME NEW p \in STRING, NEW q \in Protocols
  PROVE  LET r == Read(LongRule(p, q))
         IN  /\ r.ok /\ Built(r.value[1]) = Built(rule_with_port("deny", p, q))
             /\ q = "any" => Built(r.value[1]) = Built(rule_with_port("deny", p, None))
<1> DEFINE ts == LongRule(p, q)
           blank == BlankRule("deny")
           end == Clauses(blank, ts, 1)[Len(ts)]
           full == parse_full_grammar("deny", ts)
<1>1. p \in Token /\ q \in Token /\ "port" \in Token /\ "proto" \in Token
  BY DEF Token, Protocols, Keywords
<1>2. /\ ts \in Seq(Token) /\ ts[1] = "port" /\ ts[2] = p
      /\ q = "any" => Len(ts) = 2
      /\ q # "any" => Len(ts) = 4 /\ ts[3] = "proto" /\ ts[4] = q
  BY <1>1, Tuples DEF LongRule
<1>3. parse_proto(q).ok /\ parse_proto(q).value = q
  <2>1. Protocol(q) = q
    BY LongFormAssumption DEF Protocols, Protocol
  <2> QED
    BY <2>1, ProtoIs DEF Protocols
<1> HIDE DEF ts
<1>4. /\ end.ok
      /\ Len(ts) = 2 => end.rule = rule_with_port("deny", p, None)
      /\ Len(ts) = 4 => end.rule = rule_with_port("deny", p, parse_proto(q).value)
  BY <1>1, <1>2, <1>3, LongLoop
<1>5. end.rule = rule_with_port("deny", p, IF q = "any" THEN None ELSE q)
  <2> HIDE DEF end
  <2> QED
    BY <1>2, <1>3, <1>4
<1> HIDE DEF blank
<1>6. full = Ok(end.rule)
  BY <1>2, <1>4 DEF parse_full_grammar, blank
<1> HIDE DEF end
<1>7. full.ok /\ full.value = end.rule
  BY <1>6 DEF Ok
<1> HIDE DEF full
<1>8. ts # <<>> /\ Len(ts) # 1
  BY <1>2
<1>9. Read(ts) = Ok(<<full.value>>)
  BY <1>7, <1>8 DEF Read, parse_rule_spec, full
<1>10. Read(ts).ok /\ Read(ts).value[1] = end.rule
  BY <1>7, <1>9 DEF Ok
<1> QED
  BY <1>5, <1>10, BuiltAny DEF ts

\* Rules that are read as the long ones.
Meets(r, long) ==
  /\ r.ok <=> long # <<>>
  /\ r.ok => [k \in DOMAIN r.value |-> Built(r.value[k])]
               = [k \in DOMAIN long |-> Built(Read(long[k]).value[1])]

\* One rule per port, with protocol q.
LEMMA EachPort ==
  ASSUME NEW ports \in Seq(STRING), NEW q \in Protocols, NEW z, z = q \/ (q = "any" /\ z = None),
         NEW r, r.ok <=> ports # <<>>,
         r.ok => DOMAIN r.value = DOMAIN ports
                 /\ \A k \in DOMAIN ports : r.value[k] = rule_with_port("deny", ports[k], z)
  PROVE  Meets(r, LongRules(ports, q))
<1> DEFINE long == LongRules(ports, q)
<1>1. DOMAIN long = DOMAIN ports /\ \A k \in DOMAIN ports : long[k] = LongRule(ports[k], q)
  BY DEF LongRules, Protocols
<1>2. long # <<>> <=> ports # <<>>
  <2>1. CASE ports = <<>>
    BY <2>1 DEF LongRules, Protocols
  <2>2. CASE ports # <<>>
    <3>1. 1 \in DOMAIN long
      BY <1>1, <2>2
    <3> HIDE DEF long
    <3> QED
      BY <2>2, <3>1
  <2> QED
    BY <2>1, <2>2
<1> HIDE DEF long
<1>3. ASSUME NEW k \in DOMAIN ports
      PROVE  Built(rule_with_port("deny", ports[k], z)) = Built(Read(LongRule(ports[k], q)).value[1])
  <2>1. ports[k] \in STRING
    OBVIOUS
  <2> QED
    BY <2>1, ReadLong
<1>4. ASSUME r.ok
      PROVE  [k \in DOMAIN r.value |-> Built(r.value[k])]
               = [k \in DOMAIN long |-> Built(Read(long[k]).value[1])]
  <2>1. DOMAIN r.value = DOMAIN long
    BY <1>1, <1>4
  <2>2. \A k \in DOMAIN long : Built(r.value[k]) = Built(Read(long[k]).value[1])
    BY <1>1, <1>3, <1>4
  <2> QED
    BY <2>1, <2>2
<1> QED
  BY <1>2, <1>4 DEF Meets, long

\* A refusal meets no rule at all.
LEMMA Refused ==
  ASSUME NEW r, ~r.ok
  PROVE  Meets(r, <<>>)
  BY DEF Meets

\* A single word that is a port, port/proto or a profile.
LEMMA ShorthandMeets ==
  ASSUME NEW w \in STRING, IsShorthand(w)
  PROVE  Meets(parse_shorthand(w, "deny"), Spelled(w))
<1> DEFINE r == parse_shorthand(w, "deny")
           slash == w \in DOMAIN SplitSlash /\ IsU16(SplitSlash[w][1])
           One(p, z) == Ok(<<rule_with_port("deny", p, z)>>)
<1>1. ASSUME NEW p \in STRING, NEW q \in Protocols, NEW z, z = q \/ (q = "any" /\ z = None)
      PROVE  Meets(One(p, z), LongRules(<<p>>, q))
  <2> DEFINE ports == <<p>>
             o == One(p, z)
  <2>1. ports \in Seq(STRING) /\ ports # <<>> /\ DOMAIN ports = 1..1 /\ ports[1] = p
    <3>1. ports \in Seq(STRING) /\ Len(ports) = 1 /\ ports[1] = p
      BY Tuples
    <3> HIDE DEF ports
    <3> QED
      BY <3>1
  <2>2. o.ok /\ DOMAIN o.value = 1..1 /\ o.value[1] = rule_with_port("deny", p, z)
    <3>1. o.ok /\ o.value = <<rule_with_port("deny", p, z)>>
      BY DEF Ok
    <3> QED
      BY <3>1
  <2> HIDE DEF ports, o
  <2>3. \A k \in DOMAIN ports : o.value[k] = rule_with_port("deny", ports[k], z)
    BY <2>1, <2>2
  <2>4. (o.ok <=> ports # <<>>) /\ DOMAIN o.value = DOMAIN ports
    BY <2>1, <2>2
  <2>5. Meets(o, LongRules(ports, q))
    BY <1>1, <2>1, <2>3, <2>4, EachPort
  <2> QED
    BY <2>5 DEF ports, o
<1>2. CASE IsU16(w)
  <2>1. r = One(w, None) /\ Spelled(w) = LongRules(<<w>>, "any")
    BY <1>2 DEF parse_shorthand, Spelled
  <2>2. "any" \in Protocols
    BY DEF Protocols
  <2> HIDE DEF One
  <2> QED
    BY <1>1, <2>1, <2>2
<1>3. CASE ~IsU16(w) /\ slash
  <2> DEFINE p == SplitSlash[w][1]
             raw == SplitSlash[w][2]
  <2>1. p \in STRING
    BY <1>3, LongFormAssumption
  <2>2. /\ r = IF parse_proto(raw).ok THEN One(p, parse_proto(raw).value) ELSE Err
        /\ Spelled(w) = LongRules(<<p>>, Protocol(raw))
    BY <1>3 DEF parse_shorthand, Spelled
  <2>3. /\ parse_proto(raw).ok <=> Protocol(raw) \in Protocols
        /\ parse_proto(raw).ok => parse_proto(raw).value = Protocol(raw)
    BY ProtoIs DEF Protocols
  <2> HIDE DEF p, raw, One, r
  <2>4. CASE parse_proto(raw).ok
    BY <1>1, <2>1, <2>2, <2>3, <2>4 DEF r
  <2>5. CASE ~parse_proto(raw).ok
    <3>1. Spelled(w) = <<>>
      BY <2>2, <2>3, <2>5 DEF LongRules, Protocols
    <3>2. ~r.ok
      BY <2>2, <2>5 DEF Err
    <3> QED
      BY <3>1, <3>2, Refused DEF r
  <2> QED
    BY <2>4, <2>5
<1>4. CASE ~IsU16(w) /\ ~slash
  <2> DEFINE app == Apps[w]
             raw == app.proto
             proto == IF raw \in {"", "any"} THEN Ok(None) ELSE parse_proto(raw)
             q == IF raw = "" THEN "any" ELSE Protocol(raw)
             ports == app.ports
  <2>1. w \in DOMAIN Apps /\ ports \in Seq(STRING)
    BY <1>4, LongFormAssumption DEF IsShorthand
  <2>2. /\ r = IF Profile(w).ok THEN expand_profile("deny", Profile(w).value) ELSE Err
        /\ Spelled(w) = IF app.parses THEN LongRules(ports, q) ELSE <<>>
    BY <1>4, <2>1 DEF parse_shorthand, Spelled
  <2>3. (Profile(w).ok <=> app.parses) /\ (app.parses => Profile(w).value = app)
    BY DEF Profile, Ok, Err
  <2>4. expand_profile("deny", app) =
          IF ~proto.ok \/ ports = <<>> THEN Err
          ELSE Ok([k \in DOMAIN ports |-> rule_with_port("deny", ports[k], proto.value)])
    BY DEF expand_profile
  <2>5. /\ proto.ok <=> q \in Protocols
        /\ proto.ok => proto.value = q \/ (q = "any" /\ proto.value = None)
    <3>1. CASE raw = ""
      BY <3>1 DEF Ok, Protocols
    <3>2. CASE raw = "any"
      <4>1. Protocol(raw) = "any"
        BY <3>2, LongFormAssumption DEF Protocol
      <4>2. q = "any" /\ proto = Ok(None)
        BY <3>2, <4>1
      <4> HIDE DEF q, proto
      <4> QED
        BY <4>2 DEF Ok, Protocols
    <3>3. CASE raw \notin {"", "any"}
      <4>1. q = Protocol(raw) /\ proto = parse_proto(raw)
        BY <3>3
      <4> HIDE DEF q, proto, raw
      <4>2. /\ parse_proto(raw).ok <=> Protocol(raw) \in Protocols
            /\ parse_proto(raw).ok => parse_proto(raw).value = Protocol(raw)
        BY ProtoIs DEF Protocols
      <4> QED
        BY <4>1, <4>2
    <3> QED
      BY <3>1, <3>2, <3>3
  <2> HIDE DEF app, proto, q, ports, r
  <2>6. CASE ~app.parses
    <3>1. Spelled(w) = <<>> /\ ~r.ok
      BY <2>2, <2>3, <2>6 DEF Err
    <3> QED
      BY <3>1, Refused DEF r
  <2>7. CASE app.parses /\ ~proto.ok
    <3>1. Spelled(w) = <<>>
      BY <2>2, <2>5, <2>7 DEF LongRules, Protocols
    <3>2. ~r.ok
      BY <2>2, <2>3, <2>4, <2>7 DEF Err
    <3> QED
      BY <3>1, <3>2, Refused DEF r
  <2>8. CASE app.parses /\ proto.ok
    <3>1. /\ r.ok <=> ports # <<>>
          /\ r.ok => DOMAIN r.value = DOMAIN ports
                     /\ \A k \in DOMAIN ports : r.value[k] = rule_with_port("deny", ports[k], proto.value)
      BY <2>2, <2>3, <2>4, <2>8 DEF Ok, Err
    <3>2. q \in Protocols /\ (proto.value = q \/ (q = "any" /\ proto.value = None))
      BY <2>5, <2>8
    <3>3. Meets(r, LongRules(ports, q))
      BY <2>1, <3>1, <3>2, EachPort
    <3> QED
      BY <2>2, <2>8, <3>3 DEF r
  <2> QED
    BY <2>6, <2>7, <2>8
<1> QED
  BY <1>2, <1>3, <1>4

\* A single word that is none of them is refused: a clause has two words.
LEMMA LoneWord ==
  ASSUME NEW ts \in Seq(Token), Len(ts) = 1, ts[1] \notin Keywords, ~IsShorthand(ts[1])
  PROVE  ~Read(ts).ok
<1> DEFINE blank == BlankRule("deny")
           s == ParseStart(blank, 1)
           end == Clauses(blank, ts, 1)[Len(ts)]
           full == parse_full_grammar("deny", ts)
<1>1. "in" \in Token
  BY DEF Token, Keywords
<1>2. blank \in UserRules
  BY <1>1, BlankIs
<1> HIDE DEF blank
<1>3. /\ Clauses(blank, ts, 1)[0] = s
      /\ \A i \in 1..Len(ts) : Clauses(blank, ts, 1)[i] = ClauseStep(ts, Clauses(blank, ts, 1)[i - 1])
  <2>1. 1 \in Nat \ {0}
    OBVIOUS
  <2> QED
    BY <1>2, <2>1, ClausesDef
<1>4. s \in ParseStates /\ s.ok /\ s.at = 1
  BY <1>2 DEF ParseStart, ParseStates
<1> HIDE DEF s
<1>5. end = ClauseStep(ts, s)
  BY <1>3
<1>6. ClauseStep(ts, s) = Refuse(s)
  BY <1>4 DEF ClauseStep
<1>7. ~end.ok
  BY <1>4, <1>5, <1>6, RefuseIs
<1>8. full = IF end.ok THEN Ok(end.rule) ELSE Err
  BY DEF parse_full_grammar, blank, Keywords
<1> HIDE DEF end, full
<1>9. ~full.ok
  BY <1>7, <1>8 DEF Err
<1>10. Read(ts) = Err
  BY <1>9 DEF Read, parse_rule_spec, full
<1> QED
  BY <1>10 DEF Err

\* For every set of profiles and every table of ports: a shorthand becomes the
\* wire rules of its long form, all of them and in order, or is refused when it
\* has none.
THEOREM ShorthandMeans == Spec => []ShorthandMeansItsLongForm
<1>1. TypedOK => ShorthandMeansItsLongForm
  <2> SUFFICES ASSUME TypedOK, Len(typed) = 1, typed[1].kind = "word",
                      typed[1].word \in DOMAIN LongForm
               PROVE  Meets(Read(Text(typed)), LongForm[typed[1].word])
    BY DEF ShorthandMeansItsLongForm, Meets
  <2> DEFINE ts == Text(typed)
             w == typed[1].word
  <2>1. typed \in Seq(Phrases) /\ typed # <<>> /\ 1 \in 1..Len(typed) /\ typed[1] \in Phrases
    <3>1. typed \in Seq(Phrases) /\ 1 \in 1..Len(typed)
      BY DEF TypedOK
    <3> QED
      BY <3>1
  <2>2. PICK off : Laid(typed, ts, off)
    BY <2>1, TextLaid
  <2> HIDE DEF ts
  <2>3. ts \in Seq(Token) /\ off[0] = 0 /\ off[1] = Len(ts)
    BY <2>1, <2>2, LaidType
  <2>4. off[1] = 1 /\ ts[1] = w
    <3>1. \A k \in 1..Len(typed) :
            typed[k].kind \in {"dir", "word"} =>
              off[k] = off[k - 1] + 1 /\ ts[off[k - 1] + 1] = typed[k].word
      BY <2>1, <2>2, LaidAt
    <3>2. 1 - 1 = 0 /\ off[0] + 1 = 1
      BY <2>3
    <3> QED
      BY <2>1, <3>1, <3>2
  <2>5. w \notin Keywords
    BY <2>1, VocabularyAssumption
  <2>6. w \in STRING /\ LongForm[w] = Spelled(w)
    BY LongFormAssumption
  <2> HIDE DEF w
  <2>7. CASE IsShorthand(w)
    <3>1. Len(ts) = 1
      BY <2>3, <2>4
    <3>2. ts # <<>>
      BY <2>3, <3>1
    <3>3. Read(ts) = parse_shorthand(w, "deny")
      BY <2>4, <2>7, <3>1, <3>2 DEF Read, parse_rule_spec
    <3> QED
      BY <2>6, <2>7, <3>3, ShorthandMeets DEF ts, w
  <2>8. CASE ~IsShorthand(w)
    <3>1. ~Read(ts).ok
      BY <2>3, <2>4, <2>5, <2>8, LoneWord
    <3>2. Spelled(w) = <<>>
      BY <2>8 DEF IsShorthand, Spelled
    <3> QED
      BY <2>6, <3>1, <3>2, Refused DEF ts, w
  <2> QED
    BY <2>7, <2>8
<1> QED
  BY <1>1, TypedIsPhrases, PTL
=============================================================================
