-------------------------- MODULE AssignmentPromise --------------------------
(***************************************************************************)
(* What an assignment promises to whoever follows it, whatever people,     *)
(* badges, policies and events do around it: it is opened once, it         *)
(* succeeds only with all of its work done, losing any work fails it in    *)
(* the same step, and its outcome stands until it is discarded.            *)
(***************************************************************************)
CONSTANTS Assignments, Slots

VARIABLES
    phase,   \* "none", "draft", "open", "succeeded", "failed" or "gone"
    work     \* of each slot: "todo", "done" or "lost"

Init ==
    /\ phase = [a \in Assignments |-> "none"]
    /\ work = [a \in Assignments |-> [s \in Slots |-> "todo"]]

Appear(a) ==
    /\ phase[a] = "none"
    /\ \E p \in {"draft", "open"} : phase' = [phase EXCEPT ![a] = p]
    /\ UNCHANGED work

Open(a) ==
    /\ phase[a] = "draft"
    /\ phase' = [phase EXCEPT ![a] = "open"]
    /\ UNCHANGED work

(* Work can be done in every phase of a living assignment but success.     *)
Do(a, s) ==
    /\ phase[a] \in {"draft", "open", "failed"}
    /\ work[a][s] = "todo"
    /\ work' = [work EXCEPT ![a][s] = "done"]
    /\ UNCHANGED phase

Lose(a, s) ==
    /\ phase[a] \in {"open", "failed"}
    /\ work[a][s] = "todo"
    /\ work' = [work EXCEPT ![a][s] = "lost"]
    /\ phase' = [phase EXCEPT ![a] = "failed"]

Succeed(a) ==
    /\ phase[a] = "open"
    /\ \A s \in Slots : work[a][s] = "done"
    /\ phase' = [phase EXCEPT ![a] = "succeeded"]
    /\ UNCHANGED work

Fail(a) ==
    /\ phase[a] = "open"
    /\ phase' = [phase EXCEPT ![a] = "failed"]
    /\ UNCHANGED work

(* A deleted mission discards all of its assignments at once.              *)
Discard(A) ==
    /\ \A a \in A : phase[a] \in {"draft", "open", "succeeded", "failed"}
    /\ phase' = [a \in Assignments |-> IF a \in A THEN "gone" ELSE phase[a]]
    /\ work' = [a \in Assignments |->
                   IF a \in A THEN [s \in Slots |-> "todo"] ELSE work[a]]

Next ==
    \/ \E a \in Assignments :
          \/ Appear(a) \/ Open(a) \/ Succeed(a) \/ Fail(a)
          \/ \E s \in Slots : Do(a, s) \/ Lose(a, s)
    \/ \E A \in SUBSET Assignments : Discard(A)

Spec == Init /\ [][Next]_<<phase, work>>
=============================================================================
