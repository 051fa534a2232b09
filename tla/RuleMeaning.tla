----------------------------- MODULE RuleMeaning -----------------------------
(***************************************************************************)
(* What a rule typed at the command line means to a packet.  A user types  *)
(* a rule clause by clause; a frame gains VLAN tags and extension headers  *)
(* one by one.  The properties compare parser.rs, wire.rs and the parsing  *)
(* and matching of the data path with definitions of what they are for.    *)
(***************************************************************************)
EXTENDS RuleParser, SequencesExt

CONSTANTS
  Phrases,      \* the clauses a user may type: [kind, word, port]
  LongForm,     \* shorthand |-> the full rules it stands for, <<>> for none
  Ifindex,      \* interface name |-> its ifindex
  Frames,       \* frames as they are sent, without tags or extension headers
  Probes,       \* the frames that every typed rule is tried on
  ExtLengths,   \* the extension headers that a frame may gain
  MaxPhrases,   \* bound on the clauses of a rule
  MaxExts,      \* bound on the extension headers of a frame
  AllTags       \* bound on the VLAN tags of a frame

Keywords == {"in", "out", "on", "from", "to", "port", "proto"}

\* No keyword is also a port or the name of a profile, and no word is `none`,
\* which stands for Option::None.
ASSUME VocabularyAssumption ==
  /\ Phrases \subseteq [kind : {"dir", "on", "from", "to", "port", "proto", "word"},
                        word : STRING \ {None}, port : STRING]
  /\ \A c \in Phrases :
       /\ c.kind \notin {"from", "to"} => c.port = None
       /\ c.kind = "dir" => c.word \in {"in", "out"}
       /\ c.kind = "on" => (c.word \in InvalidNames <=> c.word \notin DOMAIN Ifindex)
       /\ c.kind = "word" =>
            c.word \notin Keywords /\ (IsShorthand(c.word) => c.word \in DOMAIN LongForm)
  /\ \A w \in Keywords : ~IsShorthand(w)
  /\ \A w \in DOMAIN Ifindex : Ifindex[w] \in Nat \ {0}
  /\ MaxPhrases \in Nat

FrameType ==
  [link : {"ethernet", "raw"}, tags : Nat, net : {"v4", "v6", "arp"}, ihl : Nat,
   fragment : BOOLEAN, exts : Seq(Nat \cup {-1}), proto : STRING, src : Nat \X Nat,
   dst : Nat \X Nat, sport : Nat, dport : Nat, icmp_type : STRING, cut : Nat]

\* A complete frame without tags, extension headers or fragments.
Plain(f) ==
  /\ f.tags = 0 /\ f.exts = <<>> /\ ~f.fragment /\ f.ihl \in 5..15 /\ f.cut >= 3
  /\ f.net \in {"v4", "v6"}
  /\ f.src \in Addresses(f.net) /\ f.dst \in Addresses(f.net)

ASSUME FramesAssumption ==
  /\ Frames \subseteq FrameType /\ \A f \in Frames : f.exts = <<>>
  /\ Probes \subseteq FrameType /\ \A f \in Probes : Plain(f)
  /\ ExtLengths \subseteq Nat \cup {-1}
  /\ MaxExts \in Nat /\ AllTags \in Nat

VARIABLES
  typed,   \* the clauses of the rule typed so far
  sent     \* the frame on the wire, as a sequence of at most one

vars == <<typed, sent>>

\* The command line of a clause and of a rule.
Words(c) ==
  CASE c.kind \in {"dir", "word"} -> <<c.word>>
    [] c.kind \in {"from", "to"} /\ c.port # None -> <<c.kind, c.word, "port", c.port>>
    [] OTHER -> <<c.kind, c.word>>
Text(cs) == FlattenSeq([k \in DOMAIN cs |-> Words(cs[k])])

Read(tokens) == parse_rule_spec("deny", tokens)

\* The wire rule as sync_rules builds it, with every interface up.
Built(rule) ==
  build_wire_rule(rule, IF rule.iface = None THEN 0 ELSE Ifindex[rule.iface])

Init ==
  /\ typed = <<>>
  /\ sent \in {<<>>} \cup {<<f>> : f \in Frames}

\* A rule that the parser has refused is not continued.
Type(c) ==
  /\ sent = <<>>
  /\ Len(typed) < MaxPhrases
  /\ typed = <<>> \/ Read(Text(typed)).ok
  /\ typed' = Append(typed, c)
  /\ UNCHANGED sent

AddTag(f) ==
  /\ f.link = "ethernet" /\ f.tags < AllTags
  /\ sent' = <<[f EXCEPT !.tags = @ + 1]>>
  /\ UNCHANGED typed

AddExt(f, len) ==
  /\ f.net = "v6" /\ Len(f.exts) < MaxExts
  /\ sent' = <<[f EXCEPT !.exts = Append(@, len)]>>
  /\ UNCHANGED typed

\* The frame ends one header earlier.
Truncate(f) ==
  /\ f.cut > 0
  /\ sent' = <<[f EXCEPT !.cut = @ - 1]>>
  /\ UNCHANGED typed

Next ==
  \/ \E c \in Phrases : Type(c)
  \/ \E k \in DOMAIN sent :
       \/ AddTag(sent[k])
       \/ \E len \in ExtLengths : AddExt(sent[k], len)
       \/ Truncate(sent[k])

Spec == Init /\ [][Next]_vars

-----------------------------------------------------------------------------
(* What the words of a rule say, independently of the parser. *)

\* A bare `port` right after the address of `from` is the source's.
AfterFrom(cs, k) ==
  k > 1 /\ cs[k].kind = "port" /\ cs[k - 1].kind = "from" /\ cs[k - 1].port = None

OfKind(cs, kind) == {k \in DOMAIN cs : cs[k].kind = kind}
DstPorts(cs) ==
  {k \in OfKind(cs, "port") : ~AfterFrom(cs, k)} \cup
  {k \in OfKind(cs, "to") : cs[k].port # None}
SrcPorts(cs) ==
  {k \in OfKind(cs, "port") : AfterFrom(cs, k)} \cup
  {k \in OfKind(cs, "from") : cs[k].port # None}
PortWord(c) == IF c.kind = "port" THEN c.word ELSE c.port

AtMostOne(S) == \A x, y \in S : x = y
Protocol(word) == IF word \in DOMAIN LowerCase THEN LowerCase[word] ELSE word

Grammatical(cs) ==
  /\ OfKind(cs, "dir") \subseteq {1} /\ OfKind(cs, "word") = {}
  /\ \A kind \in {"on", "from", "to", "proto"} : AtMostOne(OfKind(cs, kind))
  /\ AtMostOne(DstPorts(cs))
  /\ \A k \in OfKind(cs, "on") : cs[k].word \in DOMAIN Ifindex
  /\ \A k \in OfKind(cs, "proto") : Protocol(cs[k].word) \in {"tcp", "udp", "icmp", "any"}

\* The addresses and ports exist, and a packet can have all of them.
Satisfiable(cs) ==
  LET addrs == {cs[k].word : k \in OfKind(cs, "from") \cup OfKind(cs, "to")} \ {"any"}
      ports == {PortWord(cs[k]) : k \in SrcPorts(cs) \cup DstPorts(cs)}
  IN  /\ \A a \in addrs :
           a \in DOMAIN AddrText /\ AddrText[a].prefix <= AddrBits(AddrText[a].family)
      /\ \A a, b \in addrs : AddrText[a].family = AddrText[b].family
      /\ \A w \in ports :
           w \in DOMAIN PortText /\ 1 <= Head(PortText[w]) /\ Head(PortText[w]) <= Last(PortText[w])
      /\ ports = {} \/ \A k \in OfKind(cs, "proto") : Protocol(cs[k].word) # "icmp"

\* The rules that a port, a port/proto or a profile is short for, typed out: one
\* per port, none if the protocol is unknown or the profile cannot be read.
LongRule(port, proto) ==
  IF proto = "any" THEN <<"port", port>> ELSE <<"port", port, "proto", proto>>
LongRules(ports, proto) ==
  IF proto \in {"tcp", "udp", "icmp", "any"} THEN [k \in DOMAIN ports |-> LongRule(ports[k], proto)]
  ELSE <<>>
Spelled(word) ==
  IF IsU16(word) THEN LongRules(<<word>>, "any")
  ELSE IF word \in DOMAIN SplitSlash /\ IsU16(SplitSlash[word][1])
  THEN LongRules(<<SplitSlash[word][1]>>, Protocol(SplitSlash[word][2]))
  ELSE IF word \in DOMAIN Apps /\ Apps[word].parses
  THEN LongRules(Apps[word].ports,
                 IF Apps[word].proto = "" THEN "any" ELSE Protocol(Apps[word].proto))
  ELSE <<>>

\* The table of long forms is that; what is in lower case stays as it is.
ASSUME LongFormAssumption ==
  /\ \A w \in DOMAIN LongForm : w \in STRING /\ LongForm[w] = Spelled(w)
  /\ \A w \in DOMAIN SplitSlash : SplitSlash[w][1] \in STRING
  /\ \A w \in DOMAIN Apps : Apps[w].ports \in Seq(STRING)
  /\ {"tcp", "udp", "icmp", "any"} \cap DOMAIN LowerCase = {}

\* An address as one number of AddrBits(family) bits.
Number(family, addr) == IF family = "v4" THEN addr[1] ELSE addr[1] * Pow2[V6_WORD] + addr[2]

\* An address locks the rule to its family (rule-grammar.md:70-71); the leading
\* bits agree.
InNet(word, family, addr) ==
  \/ word = "any"
  \/ LET net == AddrText[word]
         host == IF net.prefix = NoPrefix THEN 0 ELSE AddrBits(net.family) - net.prefix
     IN  /\ net.family = family
         /\ \/ net.prefix = 0
            \/ Number(family, addr) \div Pow2[host] = Number(family, net.addr) \div Pow2[host]

\* The protocol as the grammar names it: a rule is of either family until an
\* address says which (rule-grammar.md:66-68), so ICMP is ICMPv6 too.
Transport(f) ==
  CASE f.proto \in {"tcp", "udp"} -> f.proto
    [] <<f.net, f.proto>> \in {<<"v4", "icmp">>, <<"v6", "icmpv6">>} -> "icmp"
    [] OTHER -> "other"

InRange(word, n) == Head(PortText[word]) <= n /\ n <= Last(PortText[word])
PortIn(word, f, port) == Transport(f) \in {"tcp", "udp"} /\ InRange(word, port)

\* Clause k of the rule holds of frame f, seen in direction d on interface ifx.
Holds(cs, k, f, d, ifx) ==
  LET c == cs[k]
  IN  CASE c.kind = "dir" -> d = c.word
        [] c.kind = "on" -> ifx = Ifindex[c.word]
        [] c.kind = "from" -> InNet(c.word, f.net, f.src) /\ (c.port # None => PortIn(c.port, f, f.sport))
        [] c.kind = "to" -> InNet(c.word, f.net, f.dst) /\ (c.port # None => PortIn(c.port, f, f.dport))
        [] c.kind = "port" -> PortIn(c.word, f, IF AfterFrom(cs, k) THEN f.sport ELSE f.dport)
        [] c.kind = "proto" -> Protocol(c.word) \in {"any", Transport(f)}

Means(cs, f, d, ifx) ==
  /\ \A k \in DOMAIN cs : Holds(cs, k, f, d, ifx)
  /\ OfKind(cs, "dir") = {} => d = "in"

(* Where the data path does not do what the words say. *)

\* `proto icmp` is IPPROTO_ICMP whatever the family (proto_byte; what would
\* choose, icmp_proto_for_family, is not called), and ICMPv6 is another number.
MissesIcmpv6(cs, f) ==
  /\ Transport(f) = "icmp" /\ f.net = "v6"
  /\ \E k \in OfKind(cs, "proto") : Protocol(cs[k].word) = "icmp"

\* cidr_contains takes a typed /0 for the wildcard that stands for no address.
ZeroOfOtherFamily(cs, f) ==
  \E k \in OfKind(cs, "from") \cup OfKind(cs, "to") :
    cs[k].word # "any" /\ AddrText[cs[k].word].prefix = 0 /\ AddrText[cs[k].word].family # f.net

\* parse_icmp puts the id where walk_rules looks for ports.
IdTakenForPort(cs, f) ==
  LET ports == SrcPorts(cs) \cup DstPorts(cs)
  IN  Transport(f) = "icmp" /\ ports # {} /\ \A k \in ports : InRange(PortWord(cs[k]), f.sport)

-----------------------------------------------------------------------------
(* What a frame is, however it is wrapped. *)

\* Number of bytes of the first n extension headers.
ExtBytes(f) ==
  LET bytes[n \in 0..Len(f.exts)] ==
        IF n = 0 THEN 0 ELSE bytes[n - 1] + ExtLength(f.exts[n])
  IN  bytes

\* The headers before the one that ends the walk: a later fragment's, or the
\* transport header.
Before(f) ==
  IF \E k \in DOMAIN f.exts : f.exts[k] = -1
  THEN CHOOSE n \in 0..Len(f.exts) :
         f.exts[n + 1] = -1 /\ \A k \in 1..n : f.exts[k] # -1
  ELSE Len(f.exts)

\* A non-initial fragment, of either family.
LaterFragment(f) == (f.net = "v4" /\ f.fragment) \/ Before(f) < Len(f.exts)

Bare(f) == [f EXCEPT !.tags = 0, !.exts = <<>>]
Reply(f) ==
  LET back == [Bare(f) EXCEPT !.src = f.dst, !.dst = f.src]
  IN  IF f.proto \in {"tcp", "udp"}
      THEN [back EXCEPT !.sport = f.dport, !.dport = f.sport] ELSE back

\* What becomes of a frame before any rule is looked at.
Outcome(f) ==
  LET p == parse_packet(f)
  IN  CASE p.res = "none" -> "passed"
        [] p.res = "err" -> "dropped"
        [] OTHER -> IF is_ndp(p) THEN "exempt" ELSE "ruled"

-----------------------------------------------------------------------------
(* Properties. *)

\* Every rule that the parser and build_wire_rule accept is one that the data
\* path can hold: a prefix no longer than the address, and a port range that is
\* either AnyPort or does not reach 0, which would mean any port.
TypeOK ==
  /\ typed \in Seq(Phrases) /\ Len(typed) <= MaxPhrases
  /\ sent = <<>> \/ (Len(sent) = 1 /\ sent \in Seq(FrameType) /\ Len(sent[1].exts) <= MaxExts)
  /\ Read(Text(typed)).ok => \A k \in DOMAIN Read(Text(typed)).value :
       LET b == Built(Read(Text(typed)).value[k])
       IN  b.ok => /\ \A c \in {b.value.src, b.value.dst} : c.prefix \in 0..AddrBits(c.family)
                   /\ \A r \in {b.value.src_port, b.value.dst_port} :
                        r = AnyPort \/ (r[1] >= 1 /\ r[1] <= r[2])

\* parse_full_grammar accepts exactly the clause sequences in which the direction
\* comes first, no clause and no destination port is given twice and every word
\* is known, whatever the order of the clauses, and none that breaks off in the
\* middle of a clause.
GrammarTakesWholeRules ==
  (typed # <<>> /\ ~(Len(typed) = 1 /\ typed[1].kind = "word" /\ typed[1].word \in DOMAIN LongForm)) =>
    /\ Read(Text(typed)).ok <=> Grammatical(typed)
    /\ Last(typed).kind \notin {"dir", "word"} => ~Read(Front(Text(typed))).ok

\* A rule matches the packets of which all its clauses hold, and no others but
\* for two cases: a /0 of the other family and an ICMP id in the range of a port.
\* In a third, `proto icmp` and an ICMPv6 packet, it never matches.  This goes
\* through the whole chain: the words as parse_rule_spec reads them, the wire
\* rule of build_wire_rule, the frame as parse_packet sees it and the
\* comparisons of walk_rules; build_wire_rule refuses a rule exactly when its
\* clauses cannot be satisfied.
RuleMeansItsWords ==
  (typed # <<>> /\ Grammatical(typed)) =>
    LET b == Built(Read(Text(typed)).value[1])
    IN  /\ b.ok <=> Satisfiable(typed)
        /\ b.ok => \A f \in Probes, d \in {"in", "out"}, ifx \in Range(Ifindex) :
             LET matches == RuleMatches(b.value, d, ifx, parse_packet(f))
                 means == Means(typed, f, d, ifx)
             IN  IF MissesIcmpv6(typed, f) THEN ~matches
                 ELSE /\ means => matches
                      /\ matches => means \/ ZeroOfOtherFamily(typed, f) \/ IdTakenForPort(typed, f)

\* A shorthand or an application profile stands for the full rules it
\* abbreviates, all of them and in order; one without any (no port in the
\* profile, an unknown protocol, a file that does not parse) is refused.
ShorthandMeansItsLongForm ==
  (Len(typed) = 1 /\ typed[1].kind = "word" /\ typed[1].word \in DOMAIN LongForm) =>
    LET r == Read(Text(typed))
        long == LongForm[typed[1].word]
    IN  /\ r.ok <=> long # <<>>
        /\ r.ok => [k \in DOMAIN r.value |-> Built(r.value[k])]
                     = [k \in DOMAIN long |-> Built(Read(long[k]).value[1])]

\* Up to two VLAN tags change nothing about what a frame is taken for, so a tag
\* cannot carry an IP packet past the rules as "not IP", and only a complete
\* neighbour-discovery message is let through without a look at them.
TagsHideNothing ==
  \A k \in DOMAIN sent :
    LET f == sent[k]
    IN  f.net \in {"v4", "v6"} /\ f.tags <= 2 =>
          /\ parse_packet(f) = parse_packet([f EXCEPT !.tags = 0])
          /\ Outcome(f) # "passed"
          /\ Outcome(f) = "exempt" =>
               f.net = "v6" /\ f.proto = "icmpv6" /\ f.icmp_type = "ndp" /\ ~LaterFragment(f)

\* The extension headers that walk_v6_ext knows never change what rules a packet
\* is compared with: either the walk finds the same transport header as in the
\* bare packet, or the packet is dropped.  (Any other header, such as AH, ends
\* the walk as a protocol without ports, as introduction.md:55-56 says.)  Which of the two is exact: at most MAX_V6_EXT_HDRS - 1
\* headers of together at most MAX_V6_EXT_BYTES are walked.  Of a later fragment
\* the protocol stays known and the ports are not made up from its payload.
ExtHeadersHideNothing ==
  \A k \in DOMAIN sent :
    LET f == sent[k]
        n == Before(f)
        walked == n < MAX_V6_EXT_HDRS /\ ExtBytes(f)[n] <= MAX_V6_EXT_BYTES
        p == parse_packet(f)
        bare == parse_packet([f EXCEPT !.exts = <<>>])
    IN  (f.net = "v6" /\ f.tags <= 2 /\ f.cut = 3 + MaxExts) =>
          IF ~walked THEN p = Malformed
          ELSE IF ~LaterFragment(f) THEN p = bare
          ELSE p.sport = 0 /\ p.dport = 0 /\ (n + 1 = Len(f.exts) => p.proto = bare.proto)

\* The reply to a packet has as its reverse key the forward key that the packet
\* left in CONNTRACK, whatever headers the packet was wrapped in: swapped ports
\* for TCP and UDP, the echo id for ICMP in either slot.  The reply is bare here;
\* what wrapping does to a frame is TagsHideNothing and ExtHeadersHideNothing.
RepliesMeetTheirFlow ==
  \A k \in DOMAIN sent :
    LET f == sent[k]
        p == parse_packet(f)
        r == parse_packet([Reply(f) EXCEPT !.cut = 3])
    IN  (p.res = "ok" /\ ~LaterFragment(f)) => reverse_key(r) = forward_key(p)
=============================================================================
