------------------------------ MODULE MCControl ------------------------------
EXTENDS Control

\* An app profile of two rules and a command of one.
MCCommands == [profile |-> 2, single |-> 1]
=============================================================================
