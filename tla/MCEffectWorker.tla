--------------------------- MODULE MCEffectWorker ---------------------------
(***************************************************************************)
(* Instances of EffectWorker for TLC: one thread with a turn start and     *)
(* what must not overtake it: a detach, a restart of the turn, or the      *)
(* continuation after a server restart; and a title generation in the      *)
(* other lane.                                                             *)
(***************************************************************************)
EXTENDS EffectWorker, TLC

CONSTANTS t1, start, detach, title, restart, resume, w1, w2, x1, p1, p2

OneThread == [e \in Effect |-> t1]

Types == start :> "provider-turn.start"
      @@ detach :> "provider-session.detach"
      @@ title :> "thread-title.generate"
      @@ restart :> "provider-turn.restart"
      @@ resume :> "provider-runtime.continue"

TypesHere == [e \in Effect |-> Types[e]]

(* awaitRestartContinuation, the only caller of awaitSettled. *)
AwaitsResume == [x \in Waiter |-> resume]

Workers == Permutations(Worker)
=============================================================================
