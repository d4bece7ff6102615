------------------------------ MODULE MCProgress ------------------------------
(***************************************************************************)
(* What has to happen in the end, of three components that share nothing:  *)
(* the outbox, the realtime notifications and the start of a frontend.  In *)
(* each behaviour one of them moves, under its own fairness.               *)
(***************************************************************************)
EXTENDS MCOutbox, Realtime, Startup

CONSTANTS c1, c2

VARIABLE part

-----------------------------------------------------------------------------

(* An installation that works, one without a key, and extensions that stop *)
(* the start.                                                              *)
AllUnset == [n \in Settings |-> "unset"]
OwnLogin == [AllUnset EXCEPT !["secret_key"] = "given"]

FewEnvironments == {OwnLogin, AllUnset}
FewFiles == {AllUnset, [AllUnset EXCEPT !["extensions"] = "broken"]}

-----------------------------------------------------------------------------

OutboxRests   == Init
RealtimeRests == bus = "local" /\ RealtimeInit
StartupRests  == env = OwnLogin /\ file = AllUnset /\ StartupInit /\ ~ reachable

ProgressInit ==
    \/ part = "outbox" /\ Init /\ RealtimeRests /\ StartupRests
    \/ part = "realtime" /\ OutboxRests /\ RealtimeInit /\ StartupRests
    \/ part = "startup" /\ OutboxRests /\ RealtimeRests /\ StartupInit

ProgressNext ==
    \/ part = "outbox" /\ Next /\ UNCHANGED <<part, realtimeVars, startupVars>>
    \/ part = "realtime" /\ RealtimeNext /\ UNCHANGED <<part, vars, startupVars>>
    \/ part = "startup" /\ StartupNext /\ UNCHANGED <<part, vars, realtimeVars>>

(* The fairness of Outbox where it is the outbox that moves; at rest the   *)
(* other two have nothing to do.                                           *)
OutboxFairness ==
    /\ \A d \in Dispatchers : WF_vars(part = "outbox" /\ Continue(d))
    /\ \A d \in Loops : WF_vars(part = "outbox" /\ Begin(d))

ProgressSpec ==
    /\ ProgressInit /\ [][ProgressNext]_<<part, vars, realtimeVars, startupVars>>
    /\ OutboxFairness /\ RealtimeFairness /\ StartupFairness
=============================================================================
