------------------------------ MODULE WireRules ------------------------------
(***************************************************************************)
(* From a user rule, whose fields are the words of the command line or of  *)
(* the rules file, to the wire rule that the data path compares packets    *)
(* with (crates/moatd/src/wire.rs).  The words are model values of kind    *)
(* string; the tables AddrText and PortText say what the standard library  *)
(* reads in them.                                                          *)
(***************************************************************************)
EXTENDS Matching

CONSTANTS
  AddrText,   \* word |-> [family, addr, prefix], prefix NoPrefix without a slash
  PortText    \* word |-> <<port>> or, with a dash in it, <<lo, hi>>

None == "none"      \* Option::None
NoPrefix == -1
Err == [ok |-> FALSE]
Ok(value) == [ok |-> TRUE, value |-> value]

AddrBits(family) == IF family = "v4" THEN V4_BITS ELSE 2 * V6_WORD

\* Two words, each within its width.
Addresses(family) ==
  {a \in Nat \X Nat : family = "v6" => a[1] < Pow2[V6_WORD] /\ a[2] < Pow2[V6_WORD]}

ASSUME TextAssumption ==
  /\ \A w \in DOMAIN AddrText :
       /\ AddrText[w] \in [family : {"v4", "v6"}, addr : Nat \X Nat, prefix : Nat \cup {NoPrefix}]
       /\ AddrText[w].addr \in Addresses(AddrText[w].family)
  /\ \A w \in DOMAIN PortText : PortText[w] \in Seq(Nat) /\ Len(PortText[w]) \in {1, 2}

AnyPort == <<0, 0>>

\* Mutant: a prefix longer than the address is let through.
parse_cidr_AnyPrefix(s) ==
  IF s \notin DOMAIN AddrText THEN Err
  ELSE LET a == AddrText[s]
           prefix == IF a.prefix = NoPrefix THEN AddrBits(a.family) ELSE a.prefix
       IN  Ok([family |-> a.family, addr |-> a.addr, prefix |-> prefix])

parse_cidr(s) ==
  IF s \notin DOMAIN AddrText THEN Err
  ELSE LET a == AddrText[s]
           prefix == IF a.prefix = NoPrefix THEN AddrBits(a.family) ELSE a.prefix
       IN  IF prefix > AddrBits(a.family) THEN Err
           ELSE Ok([family |-> a.family, addr |-> a.addr, prefix |-> prefix])

\* A single port is the range from itself to itself; port 0 would mean any.
parse_port_range(s) ==
  IF s \notin DOMAIN PortText THEN Err
  ELSE LET t == PortText[s]
           lo == t[1]
           hi == t[Len(t)]
       IN  IF lo = 0 \/ hi = 0 \/ lo > hi THEN Err ELSE Ok(<<lo, hi>>)

\* An address that the rule does not give: /0 of the rule's family.
any_cidr(family) == [family |-> family, addr |-> <<0, 0>>, prefix |-> 0]

proto_byte(p) == IF p = None THEN "any" ELSE p

build_wire_rule(user, ifindex) ==
  LET Given(word) == word # None
      addrs == {w \in {user.src, user.dst} : Given(w)}
      ports == {w \in {user.src_port, user.dst_port} : Given(w)}
      families == {AddrText[w].family : w \in addrs}
      family == IF families = {} THEN "v4" ELSE CHOOSE f \in families : TRUE
      Cidr(word) == IF Given(word) THEN parse_cidr(word).value ELSE any_cidr(family)
      Ports(word) == IF Given(word) THEN parse_port_range(word).value ELSE AnyPort
  IN  IF \/ user.proto = "icmp" /\ ports # {}
         \/ \E w \in addrs : ~parse_cidr(w).ok
         \/ \E f, g \in families : f # g
         \/ \E w \in ports : ~parse_port_range(w).ok
      THEN Err
      ELSE Ok([direction |-> user.direction, action |-> user.action,
               proto |-> proto_byte(user.proto), ifindex |-> ifindex,
               src |-> Cidr(user.src), dst |-> Cidr(user.dst),
               src_port |-> Ports(user.src_port), dst_port |-> Ports(user.dst_port)])
=============================================================================
