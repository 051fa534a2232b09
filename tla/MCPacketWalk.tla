---------------------------- MODULE MCPacketWalk ----------------------------
(* Instances of PacketWalk for TLC. *)
EXTENDS PacketWalk, MCRuleSync

MCRules == {AllowSsh, DenyWeb}
MCInbound == {p \in MCPackets : p.direction = "in"}
=============================================================================
