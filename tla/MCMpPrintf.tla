------------------------------ MODULE MCMpPrintf ------------------------------
(* An instance of MpPrintf for TLC: two CPUs.                                 *)
EXTENDS MpPrintf

CONSTANTS c1, c2

MCCpu == {c1, c2}
MCPanic == {c2}
=============================================================================
