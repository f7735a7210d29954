----------------------------- MODULE MCStartup -----------------------------
(* Startup with three processes, enough for two starts that find the lock  *)
(* of a third that crashed.                                                *)
EXTENDS Startup, TLC

CONSTANTS d1, d2, d3

MCPids == {d1, d2, d3}
MCSymmetry == Permutations(MCPids)

=============================================================================
