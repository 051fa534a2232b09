----------------------------- MODULE RuleParser ------------------------------
(***************************************************************************)
(* The rule grammar of the command line (crates/moatd/src/parser.rs) and   *)
(* the application profiles it looks up (apps.rs).  Command-line words go  *)
(* in, user rules or an error come out; the words of addresses and ports   *)
(* are only checked by build_wire_rule, in the daemon.                     *)
(***************************************************************************)
EXTENDS WireRules

CONSTANTS
  LowerCase,     \* word |-> to_ascii_lowercase of it, where that differs
  SplitSlash,    \* word |-> <<before, after>> its first slash
  Apps,          \* name of a profile |-> [parses, ports, proto]
  InvalidNames   \* words that valid_iface_name rejects

parse_proto(s) ==
  LET p == IF s \in DOMAIN LowerCase THEN LowerCase[s] ELSE s
  IN  IF p \in {"tcp", "udp", "icmp", "any"} THEN Ok(p) ELSE Err

IsU16(s) == s \in DOMAIN PortText /\ Len(PortText[s]) = 1

BlankRule(action) ==
  [direction |-> "in", action |-> action, iface |-> None, proto |-> None,
   src |-> None, dst |-> None, src_port |-> None, dst_port |-> None]

rule_with_port(action, port, proto) ==
  [BlankRule(action) EXCEPT !.dst_port = port, !.proto = proto]

\* Mutant: a profile becomes one rule, for its first port.
expand_profile_First(action, profile) ==
  LET proto == IF profile.proto \in {"", "any"} THEN Ok(None) ELSE parse_proto(profile.proto)
  IN  IF ~proto.ok \/ profile.ports = <<>> THEN Err
      ELSE Ok(<<rule_with_port(action, profile.ports[1], proto.value)>>)

\* One rule per port of the profile's list.
expand_profile(action, profile) ==
  LET proto == IF profile.proto \in {"", "any"} THEN Ok(None) ELSE parse_proto(profile.proto)
  IN  IF ~proto.ok \/ profile.ports = <<>> THEN Err
      ELSE Ok([k \in DOMAIN profile.ports |->
                 rule_with_port(action, profile.ports[k], proto.value)])

\* apps::load of a name that has a file: its contents, or an error.
Profile(name) == IF Apps[name].parses THEN Ok(Apps[name]) ELSE Err

\* A word on its own that is a port, port/proto or the name of a profile.
IsShorthand(tok) ==
  \/ IsU16(tok)
  \/ tok \in DOMAIN SplitSlash /\ IsU16(SplitSlash[tok][1])
  \/ tok \in DOMAIN Apps

parse_shorthand(tok, action) ==
  IF IsU16(tok) THEN Ok(<<rule_with_port(action, tok, None)>>)
  ELSE IF tok \in DOMAIN SplitSlash /\ IsU16(SplitSlash[tok][1])
  THEN LET proto == parse_proto(SplitSlash[tok][2])
       IN  IF proto.ok THEN Ok(<<rule_with_port(action, SplitSlash[tok][1], proto.value)>>)
           ELSE Err
  ELSE IF Profile(tok).ok THEN expand_profile(action, Profile(tok).value) ELSE Err

-----------------------------------------------------------------------------
(* The loop of parse_full_grammar.  Its state is the rule so far, the      *)
(* clauses given (`port` for a destination port), the number of the next   *)
(* word and whether nothing has been refused yet.                          *)

\* Mutant: the port after `from` is taken for the destination's.
TakesPort_OnlyTo(ts, at) == ts[at] = "to" /\ at + 2 <= Len(ts) /\ ts[at + 2] = "port"

\* The word after the address of a `from` or `to` is `port`: it belongs to it.
TakesPort(ts, at) == at + 2 <= Len(ts) /\ ts[at + 2] = "port"

Refuse(s) == [s EXCEPT !.ok = FALSE]
Take(s, n, given, rule) ==
  [s EXCEPT !.at = @ + n, !.given = @ \cup given, !.rule = rule]

\* The clause that begins with word number s.at, a keyword followed by one word
\* or, with the port of an address, by three.
TakeClause(ts, s) ==
  LET clause == ts[s.at]
      word == ts[s.at + 1]
      addr == IF word = "any" THEN None ELSE word
      port == TakesPort(ts, s.at)
      whole == s.at + 3 <= Len(ts)
  IN  CASE clause = "on" /\ word \notin InvalidNames ->
             Take(s, 2, {"on"}, [s.rule EXCEPT !.iface = word])
        [] clause = "from" /\ ~port ->
             Take(s, 2, {"from"}, [s.rule EXCEPT !.src = addr])
        [] clause = "from" /\ port /\ whole ->
             Take(s, 4, {"from"}, [s.rule EXCEPT !.src = addr, !.src_port = ts[s.at + 3]])
        [] clause = "to" /\ ~port ->
             Take(s, 2, {"to"}, [s.rule EXCEPT !.dst = addr])
        [] clause = "to" /\ port /\ whole /\ "port" \notin s.given ->
             Take(s, 4, {"to", "port"}, [s.rule EXCEPT !.dst = addr, !.dst_port = ts[s.at + 3]])
        [] clause = "port" ->
             Take(s, 2, {"port"}, [s.rule EXCEPT !.dst_port = word])
        [] clause = "proto" /\ parse_proto(word).ok ->
             Take(s, 2, {"proto"}, [s.rule EXCEPT !.proto = parse_proto(word).value])
        [] OTHER -> Refuse(s)

\* One pass; a clause given twice or without its word is refused.
ClauseStep(ts, s) ==
  IF ~s.ok \/ s.at > Len(ts) THEN s
  ELSE IF ts[s.at] \in s.given \/ s.at = Len(ts) THEN Refuse(s)
  ELSE TakeClause(ts, s)

\* The words ts from number `at` on; there are no more passes than words.
Clauses(rule, ts, at) ==
  LET pass[i \in 0..Len(ts)] ==
        IF i = 0 THEN [rule |-> rule, given |-> {}, at |-> at, ok |-> TRUE]
        ELSE ClauseStep(ts, pass[i - 1])
  IN  pass

\* At most one direction, and only in front.
parse_full_grammar(action, tokens) ==
  LET blank == BlankRule(action)
      end == (IF tokens[1] \notin {"in", "out"} THEN Clauses(blank, tokens, 1)
              ELSE Clauses([blank EXCEPT !.direction = tokens[1]], tokens, 2))[Len(tokens)]
  IN  IF end.ok THEN Ok(end.rule) ELSE Err

parse_rule_spec(action, tokens) ==
  IF tokens = <<>> THEN Err
  ELSE IF Len(tokens) = 1 /\ IsShorthand(tokens[1]) THEN parse_shorthand(tokens[1], action)
  ELSE LET r == parse_full_grammar(action, tokens)
       IN  IF r.ok THEN Ok(<<r.value>>) ELSE Err
=============================================================================
