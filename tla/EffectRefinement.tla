-------------------------- MODULE EffectRefinement --------------------------
(***************************************************************************)
(* EffectWorker implements LaneQueue: a lane's queue is its unsettled rows *)
(* in rowid order, and a lane is active while its head is running.         *)
(***************************************************************************)
EXTENDS MCEffectWorker, SequencesExt

Lanes == Thread \X BOOLEAN

LaneOfEffect == [e \in Effect |-> <<ThreadOf[e], TypeOf[e] = "thread-title.generate">>]

UnsettledIn(l) == {e \in Effect : LaneOfEffect[e] = l /\ status[e] \in Unsettled}

Queue == [l \in Lanes |-> SetToSortSeq(UnsettledIn(l), LAMBDA a, b : rowid[a] < rowid[b])]

ActiveLanes == {l \in Lanes : \E e \in UnsettledIn(l) : status[e] = "running"}

Seen == {e \in Effect : status[e] # "absent"}

Abstract == INSTANCE LaneQueue WITH
    Item <- Effect, Lane <- Lanes, LaneOf <- LaneOfEffect,
    queue <- Queue, active <- ActiveLanes, seen <- Seen

(* The workers, the commands, the recovery and the pruning together behave *)
(* as one FIFO queue per lane whose head alone is executed.                *)
ImplementsLaneQueue == Abstract!Spec
=============================================================================
