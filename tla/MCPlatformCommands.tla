-------------------------- MODULE MCPlatformCommands --------------------------
(* Instances of PlatformCommands for TLC: STARTs s1 and s2, and x1, the CANCEL of s1. *)
EXTENDS PlatformCommands

CONSTANTS s1, s2, x1

MCType == [c \in Commands |-> IF c = x1 THEN "CANCEL" ELSE "START"]

\* An execution goes by the name of its START.
MCExecution == [c \in Commands |-> IF c = x1 THEN s1 ELSE c]

\* Two STARTs that both need confirmation are interchangeable, when there is no CANCEL.
MCSymmetry == Permutations({s1, s2})

=============================================================================
