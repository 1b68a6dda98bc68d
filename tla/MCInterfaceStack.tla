-------------------------- MODULE MCInterfaceStack --------------------------
(* A device with two bridges and two Ethernet interfaces, one of which the  *)
(* MoCA driver reports as its own too.                                      *)
EXTENDS InterfaceStack
=============================================================================
