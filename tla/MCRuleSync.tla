----------------------------- MODULE MCRuleSync -----------------------------
(* Instances of RuleSync for TLC: a bank of two slots, one interface that  *)
(* comes and goes, one rule that cannot be built.                          *)
EXTENDS RuleSync

MCClasses == {"ssh", "web"}
MCIfaces == {"wg0", "a/b"}
MCInvalidNames == {"a/b"}
MCIfIndexes == [i \in MCIfaces |-> IF i = "wg0" THEN {2} ELSE {}]

Rule(d, a, i, ok, c) ==
  [direction |-> d, action |-> a, iface |-> i, wellformed |-> ok, covers |-> c]

AllowSsh == Rule("in", "allow", "none", TRUE, {"ssh"})
DenyWeb == Rule("in", "deny", "wg0", TRUE, {"web"})
DenyOut == Rule("out", "deny", "none", TRUE, {"ssh", "web"})
BadName == Rule("in", "allow", "a/b", TRUE, {"ssh"})
IcmpWithPort == Rule("in", "allow", "none", FALSE, {})

MCGoodRules == {AllowSsh, DenyWeb}
MCAllRules == {AllowSsh, DenyWeb, BadName, IcmpWithPort}

MCPackets ==
  {[direction |-> d, ifindex |-> 2, class |-> c] : d \in Directions, c \in MCClasses}

\* No file, and a hand-edited one with more rules than a bank has slots.
MCNoFile == {DefaultDisk}
MCLongFile ==
  {DefaultDisk,
   [DefaultDisk EXCEPT !.default_in = "deny", !.rules = <<AllowSsh, DenyWeb, AllowSsh>>]}
=============================================================================
