-------------------------- MODULE MCParodusClient --------------------------
(* Instances of ParodusClient for TLC. *)
EXTENDS ParodusClient
CONSTANTS s1, s2

\* An earlier notification has constructed the handler, or the first one has to.
MCAny == {0, 1}
============================================================================
