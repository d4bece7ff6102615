------------------------------- MODULE MCOutbox -------------------------------
(***************************************************************************)
(* Instances of Outbox for TLC: a REST worker, the loop of the Web App and *)
(* a CLI process; the last two events belong to one use case (an activity  *)
(* update and the cascade it causes).                                      *)
(***************************************************************************)
EXTENDS Outbox

TwoUseCases == [e \in Events |-> IF e = 1 THEN "first" ELSE "second"]
Routes == [d \in Dispatchers |->
              IF d = "web" THEN <<"audit", "realtime">> ELSE <<"audit">>]
=============================================================================
