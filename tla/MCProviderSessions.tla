-------------------------- MODULE MCProviderSessions --------------------------
(***************************************************************************)
(* Instances of ProviderSessions for TLC.                                   *)
(***************************************************************************)
EXTENDS ProviderSessions

CONSTANTS t1, t2

(* The threads are alike: it is enough that one of them starts first.  A   *)
(* symmetry set would not be sound for the liveness property.              *)
T1StartsFirst == starts = 1 => op[t2].pc = "idle"
=============================================================================
