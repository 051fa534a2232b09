---------------------------- MODULE MCRuleMeaning ----------------------------
(***************************************************************************)
(* A small vocabulary: IPv4 addresses of 2 bits, IPv6 addresses of twice 2 *)
(* bits, ports 0 to 3, two interfaces.  Every kind of word occurs in a     *)
(* form that is accepted and in one that is refused.                       *)
(***************************************************************************)
EXTENDS RuleMeaning

MCAddrText ==
  LET A(family, hi, lo, prefix) == [family |-> family, addr |-> <<hi, lo>>, prefix |-> prefix]
  IN  [host4 |-> A("v4", 2, 0, NoPrefix), net4 |-> A("v4", 3, 0, 1), long4 |-> A("v4", 1, 0, 3),
       net6 |-> A("v6", 1, 2, 3), wide6 |-> A("v6", 2, 3, 1), host6 |-> A("v6", 1, 3, NoPrefix),
       all6 |-> A("v6", 0, 0, 0)]

MCPortText ==
  "1" :> <<1>> @@ "2-3" :> <<2, 3>> @@ "3-2" :> <<3, 2>> @@ "0" :> <<0>>

MCLowerCase == "TCP" :> "tcp"
MCSplitSlash ==
  "1/tcp" :> <<"1", "tcp">> @@ "1/xyz" :> <<"1", "xyz">> @@ "2-3/tcp" :> <<"2-3", "tcp">>

MCApps ==
  [web   |-> [parses |-> TRUE, ports |-> <<"1", "2-3">>, proto |-> "TCP"],
   every |-> [parses |-> TRUE, ports |-> <<"1">>, proto |-> "any"],
   bare  |-> [parses |-> TRUE, ports |-> <<>>, proto |-> "tcp"],
   odd   |-> [parses |-> TRUE, ports |-> <<"1">>, proto |-> "xyz"],
   torn  |-> [parses |-> FALSE, ports |-> <<"1">>, proto |-> "tcp"]]

MCLongForm ==
  "1" :> <<<<"port", "1">>>> @@
  "1/tcp" :> <<<<"port", "1", "proto", "tcp">>>> @@
  "1/xyz" :> <<>> @@ "2-3/tcp" :> <<>> @@ "2-3" :> <<>> @@
  "web" :> <<<<"port", "1", "proto", "tcp">>, <<"port", "2-3", "proto", "tcp">>>> @@
  "every" :> <<<<"port", "1">>>> @@
  "bare" :> <<>> @@ "odd" :> <<>> @@ "torn" :> <<>>

MCIfindex == [eth0 |-> 1, tun0 |-> 2]

P(kind, word, port) == [kind |-> kind, word |-> word, port |-> port]
MCPhrases ==
  {P("dir", d, None) : d \in {"in", "out"}} \cup
  {P("on", i, None) : i \in {"eth0", "a/b"}} \cup
  {P("from", a, p) : a \in {"any", "net4", "net6", "wide6"}, p \in {None, "1"}} \cup
  {P("to", a, None) : a \in {"any", "host4", "host6", "all6", "long4", "nowhere"}} \cup
  {P("to", a, "2-3") : a \in {"any", "host6"}} \cup
  {P("port", p, None) : p \in {"1", "2-3", "3-2", "0"}} \cup
  {P("proto", p, None) : p \in {"TCP", "icmp", "any", "xyz"}} \cup
  {P("word", w, None) : w \in DOMAIN MCLongForm \cup {"oops"}}

Frame(link, net, proto, src, dst, sport, dport) ==
  [link |-> link, tags |-> 0, net |-> net, ihl |-> 5, fragment |-> FALSE, exts |-> <<>>,
   proto |-> proto, src |-> src, dst |-> dst, sport |-> sport, dport |-> dport,
   icmp_type |-> "none", cut |-> 3 + 5]

\* A later fragment's header, a first fragment's, and two that fill
\* MAX_V6_EXT_BYTES together.
MCExtLengths == {-1, 0, 32}

\* Sent frames: every protocol on both kinds of link, and the odd ones.
MCFrames ==
  LET plain == {Frame(link, net, proto, <<1, 0>>, <<2, 0>>, 1, 2) :
                  link \in {"ethernet", "raw"}, net \in {"v4", "v6", "arp"},
                  proto \in {"tcp", "icmp", "icmpv6", "other"}}
  IN  plain \cup
      {[f EXCEPT !.ihl = 4] : f \in plain} \cup
      {[f EXCEPT !.fragment = TRUE] : f \in {g \in plain : g.net = "v4"}} \cup
      {[f EXCEPT !.icmp_type = "ndp"] : f \in {g \in plain : g.proto = "icmpv6"}}

\* Every source address, two destinations, ports and ICMP ids inside and outside
\* each range.
MCProbes ==
  {Frame("ethernet", "v4", proto, <<s, 0>>, <<d, 0>>, ports[1], ports[2]) :
     proto \in {"tcp", "udp"}, s \in 1..3, d \in {1, 2}, ports \in {<<1, 3>>, <<2, 1>>}} \cup
  {Frame("ethernet", "v6", "tcp", <<h, l>>, <<1, d>>, 1, 2) : h \in 0..3, l \in 1..3, d \in {1, 3}} \cup
  {Frame("ethernet", a[1], proto, a[2], a[3], id, 0) :
     a \in {<<"v4", <<3, 0>>, <<2, 0>>>>, <<"v6", <<1, 2>>, <<1, 3>>>>},
     proto \in {"icmp", "icmpv6"}, id \in {0, 1, 2}} \cup
  {Frame("ethernet", net, "other", <<1, 0>>, <<1, 0>>, 0, 0) : net \in {"v4", "v6"}}
=============================================================================
