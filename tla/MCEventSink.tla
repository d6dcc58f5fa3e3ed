----------------------------- MODULE MCEventSink -----------------------------
(***************************************************************************)
(* Instances of EventSink for TLC.  send and resend carry the same command *)
(* for one thread; stray carries it for another; note is a second command  *)
(* whose plan may be empty; ingest is an internal write; capture and       *)
(* recapture are two executions of one checkpoint effect.                  *)
(***************************************************************************)
EXTENDS EventSink, TLC

CONSTANTS t1, t2, send, resend, stray, note, ingest, capture, recapture,
          message, settle, checkpoint

Commands == send :> message @@ resend :> message @@ stray :> message
    @@ note :> settle @@ ingest :> NoCommand
    @@ capture :> checkpoint @@ recapture :> checkpoint

CommandOfRequest == [r \in Request |-> Commands[r]]

ThreadOfRequest == [r \in Request |-> IF r = stray THEN t2 ELSE t1]

Sizes == send :> 2 @@ resend :> 2 @@ stray :> 1 @@ note :> 0 @@ ingest :> 1
    @@ capture :> 1 @@ recapture :> 1

SizeOfRequest == [r \in Request |-> Sizes[r]]

DirectRequests == Request \cap {ingest, capture, recapture}

(* send and resend, and the two captures, differ by their names only. *)
TwinsInOrder ==
    /\ pc[resend] # "idle" => pc[send] # "idle"
    /\ pc[recapture] # "idle" => pc[capture] # "idle"
=============================================================================
