----------------------------- MODULE AtLeastOnce -----------------------------
(***************************************************************************)
(* What the outbox promises to its consumers, whatever processes, locks,   *)
(* retries and crashes lie between: an event exists only if its use case   *)
(* committed, a consumer acts only on an event that exists, and an event   *)
(* is written off for a consumer only after the consumer has acted on it.  *)
(***************************************************************************)
CONSTANTS Events, Consumers

VARIABLES
    stored,    \* the events whose use case has committed
    acted,     \* <<event, consumer>>: the consumer acted on it at least once
    settled    \* <<event, consumer>>: it will not be given to it again

Init ==
    /\ stored = {}
    /\ acted = {}
    /\ settled = {}

(* A use case commits all of its events at once.                           *)
Store(E) ==
    /\ E \intersect stored = {}
    /\ stored' = stored \union E
    /\ UNCHANGED <<acted, settled>>

Act(e, c) ==
    /\ e \in stored
    /\ acted' = acted \union {<<e, c>>}
    /\ UNCHANGED <<stored, settled>>

Settle(E, c) ==
    /\ E \X {c} \subseteq acted
    /\ E \X {c} \intersect settled = {}
    /\ settled' = settled \union (E \X {c})
    /\ UNCHANGED <<stored, acted>>

Next ==
    \/ \E E \in SUBSET Events : Store(E)
    \/ \E e \in Events, c \in Consumers : Act(e, c)
    \/ \E E \in SUBSET Events, c \in Consumers : Settle(E, c)

Spec == Init /\ [][Next]_<<stored, acted, settled>>
=============================================================================
