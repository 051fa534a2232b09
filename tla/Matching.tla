------------------------------ MODULE Matching -------------------------------
(***************************************************************************)
(* What the data path sees of a packet (parse_packet and what it calls)    *)
(* and when a rule matches it (the body of walk_rules, cidr_contains).     *)
(*                                                                         *)
(* A frame is its headers: VLAN tags, an IP header, IPv6 extension headers *)
(* and a transport header, of which the first `cut` can be read in full.   *)
(* An address is a pair of words; an IPv4 address uses only the first.     *)
(***************************************************************************)
EXTENDS Integers, Sequences

CONSTANTS
  V4_BITS,           \* width of an IPv4 address (32)
  V6_WORD,           \* width of half an IPv6 address (64)
  MAX_V6_EXT_HDRS,   \* 4
  MAX_V6_EXT_BYTES   \* 64

ASSUME MatchingAssumption ==
  /\ V4_BITS \in Nat \ {0} /\ V6_WORD \in Nat \ {0}
  /\ MAX_V6_EXT_HDRS \in Nat \ {0} /\ MAX_V6_EXT_BYTES \in Nat \ {0}

NotIp == [res |-> "none"]     \* Ok(None): passed without a look at the rules
Malformed == [res |-> "err"]  \* Err(()): dropped
Parsed(f, proto, sport, dport, icmp_type) ==
  [res |-> "ok", family |-> f.net, proto |-> proto, icmp_type |-> icmp_type,
   src |-> f.src, dst |-> f.dst, sport |-> sport, dport |-> dport]

\* Header number k is inside the packet (ptr_at_data); 1 is the link layer's with
\* its first two tags, 2 the IP header.
Readable(f, k) == f.cut >= k

normalize_proto(proto, family) ==
  CASE proto \in {"tcp", "udp"} -> proto
    [] proto = "icmp" /\ family = "v4" -> proto
    [] proto = "icmpv6" /\ family = "v6" -> proto
    [] OTHER -> "any"

\* Mutant: the id of an ICMP message is kept in one port slot only.
parse_icmp_OneSlot(f, proto) == Parsed(f, proto, f.sport, 0, f.icmp_type)

\* The id of an ICMP message, here in sport, goes into both port slots.
parse_icmp(f, proto) == Parsed(f, proto, f.sport, f.sport, f.icmp_type)

parse_l4(f, proto, k) ==
  LET p == normalize_proto(proto, f.net)
  IN  IF p = "any" THEN Parsed(f, "any", 0, 0, "none")
      ELSE IF ~Readable(f, k) THEN Malformed
      ELSE IF p \in {"tcp", "udp"} THEN Parsed(f, p, f.sport, f.dport, "none")
      ELSE parse_icmp(f, p)

\* Only what the IP header says: the rest is not in this fragment.
Fragment(f, proto) == Parsed(f, normalize_proto(proto, f.net), 0, 0, "none")

parse_v4(f) ==
  IF ~Readable(f, 2) \/ f.ihl \notin 5..15 THEN Malformed
  ELSE IF f.fragment THEN Fragment(f, f.proto)
  ELSE parse_l4(f, f.proto, 3)

-----------------------------------------------------------------------------
(* IPv6.  exts are the extension headers that the walk knows, in order;    *)
(* each is a length in bytes, 0 standing for the first-fragment header and *)
(* -1 for that of a later fragment.  After the last comes proto.           *)

NextHeader(f, k) == IF k <= Len(f.exts) THEN "ext" ELSE f.proto
ExtLength(ext) == IF ext = 0 THEN 8 ELSE ext

\* One pass of the loop of walk_v6_ext; w is where the walk has come to.
WalkStep(f, w) ==
  LET k == w.seen + 1
      ext == f.exts[k]
  IN  IF w.res # "go" THEN w
      ELSE IF w.off > MAX_V6_EXT_BYTES THEN [w EXCEPT !.res = "err"]
      ELSE IF k > Len(f.exts) THEN [w EXCEPT !.res = "l4"]
      ELSE IF ~Readable(f, 2 + k) THEN [w EXCEPT !.res = "err"]
      ELSE IF ext = -1 THEN [res |-> "fragment", off |-> w.off, seen |-> k]
      ELSE [res |-> "go", off |-> w.off + ExtLength(ext), seen |-> k]

\* Where the walk is after each pass.
Passes(f) ==
  LET pass[i \in 0..MAX_V6_EXT_HDRS] ==
        IF i = 0 THEN [res |-> "go", off |-> 0, seen |-> 0] ELSE WalkStep(f, pass[i - 1])
  IN  pass

\* Mutant: a chain that is too long is treated as having no transport header.
walk_v6_ext_GivesUp(f) ==
  LET end == Passes(f)[MAX_V6_EXT_HDRS]
  IN  IF end.res = "go" THEN [end EXCEPT !.res = "fragment"] ELSE end

\* MAX_V6_EXT_HDRS passes; the last of them must already find the transport.
walk_v6_ext(f) ==
  LET end == Passes(f)[MAX_V6_EXT_HDRS]
  IN  IF end.res = "go" THEN [end EXCEPT !.res = "err"] ELSE end

parse_v6(f) ==
  LET w == walk_v6_ext(f)
  IN  IF ~Readable(f, 2) \/ w.res = "err" THEN Malformed
      ELSE IF w.res = "fragment" THEN Fragment(f, NextHeader(f, w.seen + 1))
      ELSE parse_l4(f, f.proto, 3 + Len(f.exts))

-----------------------------------------------------------------------------
(* The link layer.  The addresses of an Ethernet header are 12 bytes, then  *)
(* come the tags, of 4 bytes each, and the ethertype of what follows.      *)

IpOffset(f) == IF f.link = "raw" THEN 0 ELSE 14 + 4 * f.tags

\* The two bytes at off, as an ethertype.
ethertype_at(f, off) ==
  CASE off = 12 + 4 * f.tags -> f.net
    [] \E t \in 0..(f.tags - 1) : off = 12 + 4 * t -> "vlan"
    [] OTHER -> "bytes"

\* parse_v4 and parse_v6 at an offset; elsewhere other bytes are taken for the
\* IP header.
Misread == [res |-> "misread"]
parse_ip(f, family, ip_off) ==
  IF ip_off # IpOffset(f) THEN Misread
  ELSE IF family = "v4" THEN parse_v4(f) ELSE parse_v6(f)

\* One of the nested matches: tagged is what the arm of the VLAN tags returns.
MatchType(f, ethertype, ip_off, tagged) ==
  CASE ethertype \in {"v4", "v6"} -> parse_ip(f, ethertype, ip_off)
    [] ethertype = "vlan" -> tagged
    [] OTHER -> NotIp

\* Mutant: the innermost match passes on the offset of the one around it.
parse_packet_SameOffset(f) ==
  IF ~Readable(f, 1) THEN Malformed
  ELSE IF f.link = "raw" THEN MatchType(f, f.net, 0, NotIp)
  ELSE MatchType(f, ethertype_at(f, 12), 14,
         MatchType(f, ethertype_at(f, 16), 18,
           MatchType(f, ethertype_at(f, 20), 18, NotIp)))

\* An interface without a link-layer header has no tags either: the family is
\* read from the IP version.
parse_packet(f) ==
  IF ~Readable(f, 1) THEN Malformed
  ELSE IF f.link = "raw" THEN MatchType(f, f.net, 0, NotIp)
  ELSE MatchType(f, ethertype_at(f, 12), 14,
         MatchType(f, ethertype_at(f, 16), 18,
           MatchType(f, ethertype_at(f, 20), 22, NotIp)))

is_ndp(p) == p.family = "v6" /\ p.proto = "icmpv6" /\ p.icmp_type = "ndp"

\* The keys of try_egress and try_ingress.
forward_key(p) ==
  [proto |-> p.proto, family |-> p.family, src |-> p.src, dst |-> p.dst,
   sport |-> p.sport, dport |-> p.dport]
reverse_key(p) ==
  [proto |-> p.proto, family |-> p.family, src |-> p.dst, dst |-> p.src,
   sport |-> p.dport, dport |-> p.sport]

-----------------------------------------------------------------------------
\* 1 << n.  (The powers of Integers are not known to the provers.)
Pow2[n \in Nat] == IF n = 0 THEN 1 ELSE 2 * Pow2[n - 1]

\* word & (MAX << n), for words of any width.
Masked(word, n) == word - (word % Pow2[n])

cidr_contains_v4(cidr, addr) ==
  LET n == V4_BITS - cidr.prefix
  IN  cidr.prefix <= V4_BITS /\ Masked(cidr.addr[1], n) = Masked(addr[1], n)

\* Mutant: the low word is masked with what the high word would need.
cidr_contains_v6_WrongWord(cidr, addr) ==
  IF cidr.prefix <= V6_WORD
  THEN Masked(cidr.addr[1], V6_WORD - cidr.prefix) = Masked(addr[1], V6_WORD - cidr.prefix)
  ELSE LET n == cidr.prefix - V6_WORD
       IN  cidr.addr[1] = addr[1] /\ Masked(cidr.addr[2], n) = Masked(addr[2], n)

\* Two compares of half an address each.
cidr_contains_v6(cidr, addr) ==
  IF cidr.prefix <= V6_WORD
  THEN LET n == V6_WORD - cidr.prefix
       IN  Masked(cidr.addr[1], n) = Masked(addr[1], n)
  ELSE LET n == 2 * V6_WORD - cidr.prefix
       IN  /\ cidr.prefix <= 2 * V6_WORD
           /\ cidr.addr[1] = addr[1]
           /\ Masked(cidr.addr[2], n) = Masked(addr[2], n)

cidr_contains(cidr, addr, family) ==
  \/ cidr.prefix = 0
  \/ /\ cidr.family = family
     /\ IF family = "v4" THEN cidr_contains_v4(cidr, addr) ELSE cidr_contains_v6(cidr, addr)

InPorts(port, range) == range[2] = 0 \/ (range[1] <= port /\ port <= range[2])

\* The comparisons of walk_rules, for one rule; ifindex 0 is IFACE_ANY.
RuleMatches(rule, direction, ifindex, p) ==
  /\ rule.direction = direction
  /\ rule.ifindex \in {0, ifindex}
  /\ rule.proto \in {"any", p.proto}
  /\ InPorts(p.dport, rule.dst_port) /\ InPorts(p.sport, rule.src_port)
  /\ cidr_contains(rule.src, p.src, p.family)
  /\ cidr_contains(rule.dst, p.dst, p.family)
=============================================================================
