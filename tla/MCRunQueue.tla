----------------------------- MODULE MCRunQueue -----------------------------
(***************************************************************************)
(* Instances of RunQueue for TLC.                                          *)
(***************************************************************************)
EXTENDS RunQueue, TLC

CONSTANTS m1, m2, m3

(* Among is what a filter of the code leaves. *)
ASSUME AmongFilters ==
    \A n \in 0 .. 4 : \A s \in [1 .. n -> Msg], S \in SUBSET Msg :
        Among(s, S) = SelectSeq(s, LAMBDA x : x \in S)

(* The users' messages m1 and m2 differ by their names only; one failure   *)
(* is enough to hold the queue; agents do not restart a turn; and one      *)
(* message at most is dropped or given by a call that failed.              *)
Failed == {r \in Msg : run[r].st = "failed"}
Unsure == dropped \cup {m \in Msg : delivered[m] > IF m \in confirmed THEN 1 ELSE 0}

Instance ==
    /\ m2 \in sent \cup {cmd.msg} => m1 \in sent
    /\ Cardinality(Failed) <= 1 /\ Cardinality(Unsure) <= 1
    /\ cmd.kind = "restart" => cmd.msg \notin Agent
=============================================================================
