------------------------ MODULE MCDelegatedCompletion ------------------------
(* Instances of DelegatedCompletion for TLC.                                 *)
EXTENDS DelegatedCompletion, TLC

CONSTANTS t1, t2

Two == {t1, t2}
==============================================================================
