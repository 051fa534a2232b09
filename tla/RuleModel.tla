------------------------------ MODULE RuleModel ------------------------------
(***************************************************************************)
(* The data that moatd's control plane and its eBPF data path share: user  *)
(* rules, the wire rules stored in the RULES map, the on-disk              *)
(* configuration, and first-match evaluation of a packet.                  *)
(*                                                                         *)
(* Protocol, ports and CIDRs are abstracted to the set of packet classes   *)
(* a rule covers; a rule that build_wire_rule rejects (icmp with a port, a *)
(* bad CIDR or port range, mixed address families) has wellformed = FALSE. *)
(***************************************************************************)
EXTENDS Integers, Sequences

CONSTANTS
  RULES_MAX,     \* slots per bank of the RULES map (256 in the code)
  UserRules,     \* the user rules clients may add
  Classes,       \* packet classes a rule's proto, ports and CIDRs tell apart
  Ifaces,        \* interface names rules may carry
  InvalidNames,  \* the names among them that valid_iface_name rejects
  IfIndexes,     \* name |-> the ifindexes that name may have while it is up
  Packets        \* packets presented to the data path

IFACE_ANY == 0
IFACE_ABSENT == -1      \* u32::MAX in the code: no packet carries it
NoIface == "none"       \* UserRule.iface = None

Directions == {"in", "out"}
Actions == {"allow", "deny", "reject"}
Banks == {0, 1}
Slots == 1..RULES_MAX   \* slot n of a bank is index n - 1 of the code

UserRuleType ==
  [direction : Directions, action : Actions, iface : Ifaces \cup {NoIface},
   wellformed : BOOLEAN, covers : SUBSET Classes]

ASSUME RulesMaxAssumption == RULES_MAX \in Nat \ {0}

ASSUME RulesAssumption ==
  /\ UserRules \subseteq UserRuleType
  /\ NoIface \notin Ifaces
  /\ InvalidNames \subseteq Ifaces
  /\ IfIndexes \in [Ifaces -> SUBSET (Nat \ {IFACE_ANY})]

ASSUME PacketsAssumption ==
  Packets \subseteq [direction : Directions, ifindex : Nat \ {IFACE_ANY},
                     class : Classes]

valid_iface_name(name) == name \notin InvalidNames

-----------------------------------------------------------------------------
(* User side: the rules file and the daemon's copy of it. *)

OnDisk ==
  [default_in : Actions, default_out : Actions, logging_enabled : BOOLEAN,
   rules : Seq(UserRules)]

\* OnDisk::default(), also what load returns when there is no file.
DefaultDisk ==
  [default_in |-> "allow", default_out |-> "allow",
   logging_enabled |-> FALSE, rules |-> <<>>]

PolicyOf(c) == [d \in Directions |-> IF d = "in" THEN c.default_in ELSE c.default_out]

\* needs_conntrack of write_config.
NeedsConntrack(c) ==
  \/ c.default_in # "allow"
  \/ \E k \in DOMAIN c.rules :
        c.rules[k].direction = "in" /\ c.rules[k].action # "allow"

\* Only RULES_MAX rules fit a bank: a longer (hand-edited) file is cut off.
LiveCount(c) == IF Len(c.rules) <= RULES_MAX THEN Len(c.rules) ELSE RULES_MAX

-----------------------------------------------------------------------------
(* Kernel side: wire rules and their evaluation. *)

WireRule ==
  [direction : Directions, action : Actions,
   iface_ifindex : Nat \cup {IFACE_ABSENT}, covers : SUBSET Classes]

\* A slot the loader never wrote: all bytes zero, i.e. DIR_IN, ACT_ALLOW,
\* IFACE_ANY, PROTO_ANY and /0 prefixes.  It would match every inbound packet.
EmptySlot ==
  [direction |-> "in", action |-> "allow", iface_ifindex |-> IFACE_ANY,
   covers |-> Classes]

\* What resolve_iface may return.  The link state belongs to the environment,
\* so a named interface may be found under any of its indexes or be absent.
resolve_iface(name) ==
  IF name = NoIface THEN {IFACE_ANY} ELSE IfIndexes[name] \cup {IFACE_ABSENT}

\* build_wire_rule rejects what parse_cidr or parse_port_range cannot parse, and
\* combinations that no packet could match.
Rejected(u) == ~u.wellformed

\* The Ok result of build_wire_rule for a rule that is not rejected.
build_wire_rule(u, ifindex) ==
  [direction |-> u.direction, action |-> u.action,
   iface_ifindex |-> ifindex, covers |-> u.covers]

\* w is a wire rule sync_rules may build from user rule u.
IsWireOf(w, u) ==
  \E x \in resolve_iface(u.iface) : w = build_wire_rule(u, x)

\* t, a rule list with its switches, is a complete translation of c.
Implements(t, c) ==
  /\ t.logging = c.logging_enabled
  /\ t.conntrack = NeedsConntrack(c)
  /\ Len(t.rules) = LiveCount(c)
  /\ \A k \in 1..LiveCount(c) : IsWireOf(t.rules[k], c.rules[k])

\* The comparisons of one iteration of walk_rules.
Matches(w, p) ==
  /\ w.direction = p.direction
  /\ w.iface_ifindex \in {IFACE_ANY, p.ifindex}
  /\ p.class \in w.covers

\* First match wins; otherwise the default policy of the direction.
Verdict(rules, policy, p) ==
  LET hits == {k \in DOMAIN rules : Matches(rules[k], p)}
  IN  IF hits = {} THEN policy[p.direction]
      ELSE rules[CHOOSE k \in hits : \A j \in hits : k <= j].action
=============================================================================
