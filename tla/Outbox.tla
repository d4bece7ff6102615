-------------------------------- MODULE Outbox --------------------------------
(***************************************************************************)
(* The transactional outbox (infrastructure/event_publisher.py).  A use    *)
(* case writes its events in its own transaction; REST requests, the loop  *)
(* of the Web App and CLI processes then dispatch the committed ones, each *)
(* with its own connection, to the consumers they know.                    *)
(*                                                                         *)
(* dispatch_consumer is one transaction.  Its query sees the deliveries    *)
(* committed when the statement starts, but locks the event rows one by    *)
(* one while it runs (FOR UPDATE OF mm_outbox_events SKIP LOCKED), so a    *)
(* row it locks may have been delivered meanwhile.  SQLite, which ignores  *)
(* the lock, is not modelled.                                              *)
(***************************************************************************)
EXTENDS Naturals, FiniteSets, Sequences

CONSTANTS
    EventCount,     \* bound: how many events can be written
    UseCases,       \* the transactions that write them
    UseCaseOf,      \* the use case every event belongs to
    Dispatchers,    \* the processes that call dispatch_consumer
    RouteOf,        \* the consumers each of them serves, in this order
    Mute,           \* dispatchers whose "audit" is NoOpAuditLogger: the CLI
    Loops,          \* dispatchers that never stop: dispatch_loop of the Web App
    Limit,          \* dispatch_consumer(limit=100)
    MaxFaults       \* bound: interruptions and raising handlers

(* An event is the rank of its (occurred_at, id).                          *)
Events == 1..EventCount

Consumers == UNION {{RouteOf[d][i] : i \in DOMAIN RouteOf[d]} : d \in Dispatchers}

ASSUME OutboxAssumption ==
    /\ EventCount \in Nat
    /\ UseCaseOf \in [Events -> UseCases]
    /\ \A d \in Dispatchers : RouteOf[d] # <<>> /\ RouteOf[d] \in Seq(STRING)
    /\ DOMAIN RouteOf = Dispatchers
    /\ Mute \subseteq Dispatchers
    /\ Loops \subseteq Dispatchers
    /\ Limit \in Nat \ {0}
    /\ MaxFaults \in Nat
    /\ IsFiniteSet(Dispatchers)

VARIABLES
    event,          \* of each event: "none", "open", "stored" or "undone"
    deliveries,     \* rows of mm_outbox_deliveries: <<event, consumer>>
    turn,           \* of each dispatcher: the place in its route
    stage,          \* of each dispatcher: "idle", "locking" or "handling"
    rest,           \* the rows it has yet to look at in this stage
    batch,          \* the event rows it has locked
    added,          \* the rows whose delivery it will insert at the commit
    handled,        \* how often each consumer acted on each event
    faults          \* faults so far

useCaseVars  == <<event>>
dispatchVars == <<turn, stage, rest, batch, added>>
vars == <<event, deliveries, dispatchVars, handled, faults>>

ConsumerOf(d) == RouteOf[d][turn[d]]

Init ==
    /\ event = [e \in Events |-> "none"]
    /\ deliveries = {}
    /\ turn = [d \in Dispatchers |-> 1]
    /\ stage = [d \in Dispatchers |-> "idle"]
    /\ rest = [d \in Dispatchers |-> {}]
    /\ batch = [d \in Dispatchers |-> {}]
    /\ added = [d \in Dispatchers |-> {}]
    /\ handled = [x \in Events \X Consumers |-> 0]
    /\ faults = 0

-----------------------------------------------------------------------------
(* Use cases                                                               *)

EventsOf(u) == {e \in Events : UseCaseOf[e] = u}

(* EventPublisher.publish: a row in the open transaction.  Events are      *)
(* stamped in order, but transactions may commit in any other.             *)
Publish(e) ==
    /\ \A f \in Events : f >= e => event[f] = "none"
    /\ \A f \in EventsOf(UseCaseOf[e]) : event[f] \in {"none", "open"}
    /\ event' = [event EXCEPT ![e] = "open"]
    /\ UNCHANGED <<deliveries, dispatchVars, handled, faults>>

EndUseCase(u, outcome) ==
    /\ \E e \in EventsOf(u) : event[e] = "open"
    /\ event' = [e \in Events |-> IF e \in EventsOf(u) /\ event[e] = "open"
                                  THEN outcome ELSE event[e]]
    /\ UNCHANGED <<deliveries, dispatchVars, handled, faults>>

-----------------------------------------------------------------------------
(* Dispatchers                                                             *)

SeesOpenRows(c) ==          \* mutant: the events are read before their commit
    {e \in Events : event[e] \in {"open", "stored"} /\ <<e, c>> \notin deliveries}

SeesDelivered(c) ==         \* mutant: the outer join and its filter dropped
    {e \in Events : event[e] = "stored"}

Undelivered(c) ==
    {e \in Events : event[e] = "stored" /\ <<e, c>> \notin deliveries}

Begin(d) ==
    /\ stage[d] = "idle"
    /\ stage' = [stage EXCEPT ![d] = "locking"]
    /\ rest' = [rest EXCEPT ![d] = Undelivered(ConsumerOf(d))]
    /\ UNCHANGED <<useCaseVars, deliveries, turn, batch, added, handled, faults>>

LockedByOther(d, e) == \E x \in Dispatchers \ {d} : e \in batch[x]

(* ORDER BY occurred_at, id; LIMIT counts the rows that could be locked.   *)
IsNext(E, e)   == \A f \in E : e <= f

LockRow(d) ==
    /\ stage[d] = "locking"
    /\ Cardinality(batch[d]) < Limit
    /\ \E e \in rest[d] :
          /\ IsNext(rest[d], e)
          /\ rest' = [rest EXCEPT ![d] = @ \ {e}]
          /\ batch' = IF LockedByOther(d, e) THEN batch
                      ELSE [batch EXCEPT ![d] = @ \union {e}]
    /\ UNCHANGED <<useCaseVars, deliveries, turn, stage, added, handled, faults>>

Fetch(d) ==
    /\ stage[d] = "locking"
    /\ rest[d] = {} \/ Cardinality(batch[d]) = Limit
    /\ stage' = [stage EXCEPT ![d] = "handling"]
    /\ rest' = [rest EXCEPT ![d] = batch[d]]
    /\ UNCHANGED <<useCaseVars, deliveries, turn, batch, added, handled, faults>>

Acts(d) == d \notin Mute

EffectOf(d, e) ==
    IF Acts(d) THEN [handled EXCEPT ![<<e, ConsumerOf(d)>>] = @ + 1] ELSE handled

AddsAnyway(d, e) ==         \* mutant: session.add before the handler is called
    added' = [added EXCEPT ![d] = @ \union {e}]

AfterRaise(d, e) == UNCHANGED added

HandleRow(d) ==
    /\ stage[d] = "handling"
    /\ \E e \in rest[d] :
          /\ IsNext(rest[d], e)
          /\ rest' = [rest EXCEPT ![d] = @ \ {e}]
          /\ handled' = EffectOf(d, e)
          /\ added' = [added EXCEPT ![d] = @ \union {e}]
    /\ UNCHANGED <<useCaseVars, deliveries, turn, stage, batch, faults>>

(* The handler raises, before or after its effect: the row is skipped and  *)
(* the batch goes on.                                                      *)
HandlerRaises(d) ==
    /\ stage[d] = "handling"
    /\ faults < MaxFaults
    /\ faults' = faults + 1
    /\ \E e \in rest[d] :
          /\ IsNext(rest[d], e)
          /\ rest' = [rest EXCEPT ![d] = @ \ {e}]
          /\ handled' \in {handled, EffectOf(d, e)}
          /\ AfterRaise(d, e)
    /\ UNCHANGED <<useCaseVars, deliveries, turn, stage, batch>>

(* The transaction is over, one way or the other, and so are its locks.    *)
KeepsLocks(d) ==            \* mutant: the transaction is left open
    /\ stage' = [stage EXCEPT ![d] = "idle"]
    /\ rest' = [rest EXCEPT ![d] = {}]
    /\ added' = [added EXCEPT ![d] = {}]
    /\ UNCHANGED batch

Released(d) ==
    /\ stage' = [stage EXCEPT ![d] = "idle"]
    /\ rest' = [rest EXCEPT ![d] = {}]
    /\ batch' = [batch EXCEPT ![d] = {}]
    /\ added' = [added EXCEPT ![d] = {}]

NextTurn(d) == IF turn[d] = Len(RouteOf[d]) THEN 1 ELSE turn[d] + 1

(* The unique key of mm_outbox_deliveries: a delivery somebody else has    *)
(* inserted meanwhile makes the commit raise IntegrityError.               *)
Inserted(d) == added[d] \X {ConsumerOf(d)}
Conflicts(d) == Inserted(d) \intersect deliveries # {}

Commit(d) ==
    /\ stage[d] = "handling"
    /\ rest[d] = {}
    /\ ~Conflicts(d)
    /\ deliveries' = deliveries \union Inserted(d)
    /\ turn' = [turn EXCEPT ![d] = NextTurn(d)]
    /\ Released(d)
    /\ UNCHANGED <<useCaseVars, handled, faults>>

(* An exception leaves dispatch_consumer: the loop of the Web App logs it  *)
(* and starts over with its first consumer.                                *)
GivesUp(d) ==               \* mutant: the exception ends the loop's task
    stage' = [stage EXCEPT ![d] = "dead"] /\ rest' = [rest EXCEPT ![d] = {}]
    /\ batch' = [batch EXCEPT ![d] = {}] /\ added' = [added EXCEPT ![d] = {}]
    /\ UNCHANGED <<turn, useCaseVars, deliveries, handled>>

StartsOver(d) ==
    /\ Released(d)
    /\ turn' = [turn EXCEPT ![d] = 1]
    /\ UNCHANGED <<useCaseVars, deliveries, handled>>

CommitFails(d) ==
    /\ stage[d] = "handling"
    /\ rest[d] = {}
    /\ Conflicts(d)
    /\ StartsOver(d)
    /\ UNCHANGED faults

(* The process stops, or its connection breaks, inside the transaction.    *)
Interrupted(d) ==
    /\ stage[d] # "idle"
    /\ faults < MaxFaults
    /\ faults' = faults + 1
    /\ StartsOver(d)

-----------------------------------------------------------------------------
Continue(d) == LockRow(d) \/ Fetch(d) \/ HandleRow(d) \/ Commit(d) \/ CommitFails(d)

Dispatch(d) == Begin(d) \/ Continue(d) \/ HandlerRaises(d) \/ Interrupted(d)

Next ==
    \/ \E e \in Events : Publish(e)
    \/ \E u \in UseCases, outcome \in {"stored", "undone"} : EndUseCase(u, outcome)
    \/ \E d \in Dispatchers : Dispatch(d)

Spec == Init /\ [][Next]_vars

(* A transaction that has begun goes on (database calls return or raise),  *)
(* and the loop of the Web App sleeps half a second and begins again.  No  *)
(* REST request and no CLI command need ever come.                         *)
Fairness ==
    /\ \A d \in Dispatchers : WF_vars(Continue(d))
    /\ \A d \in Loops : WF_vars(Begin(d))

FairSpec == Spec /\ Fairness

-----------------------------------------------------------------------------
(* What the outbox guarantees                                              *)

(* Every variable has its type, and a dispatcher without a transaction     *)
(* holds neither locks nor rows.                                           *)
TypeOK ==
    /\ event \in [Events -> {"none", "open", "stored", "undone"}]
    /\ deliveries \subseteq Events \X Consumers
    /\ turn \in [Dispatchers -> Nat]
    /\ \A d \in Dispatchers : turn[d] \in DOMAIN RouteOf[d]
    /\ stage \in [Dispatchers -> {"idle", "locking", "handling"}]
    /\ rest \in [Dispatchers -> SUBSET Events]
    /\ batch \in [Dispatchers -> SUBSET Events]
    /\ added \in [Dispatchers -> SUBSET Events]
    /\ \A d \in Dispatchers : added[d] \subseteq batch[d]
    /\ \A d \in Dispatchers :
          stage[d] = "idle" => rest[d] = {} /\ batch[d] = {} /\ added[d] = {}
    /\ handled \in [Events \X Consumers -> Nat]
    /\ faults \in 0..MaxFaults

(* No consumer acts on an event of a use case that failed, or that may     *)
(* still fail ("Events are never published if the originating operation    *)
(* failed", domain/events.py:5), and none sees half of a use case.         *)
NothingFromFailedUseCases ==
    \A e \in Events, c \in Consumers :
       handled[<<e, c>>] > 0 =>
          /\ event[e] = "stored"
          /\ \A f \in EventsOf(UseCaseOf[e]) : event[f] \in {"none", "stored"}

(* An event written off for a consumer has reached it: no crash, raising   *)
(* handler or lost race drops an event ("senza perdere eventi",            *)
(* event_publisher.py:7).                                                  *)
DeliveredWasHandled ==
    \A x \in deliveries : handled[x] > 0

(* What reaches a consumer, and what is written off, is what was committed *)
(* and handled.                                                            *)
HandlingSound == NothingFromFailedUseCases /\ DeliveredWasHandled

(* Repetitions are bounded: besides faults, a handler runs again only for  *)
(* a batch that lost a race, and a dispatcher can lose at most one race    *)
(* for each event.                                                         *)
RepeatsBounded ==
    \A e \in Events, c \in Consumers :
       handled[<<e, c>>] <= 1 + faults + EventCount * (Cardinality(Dispatchers) - 1)

(* Every committed event reaches every consumer of the loop, although its  *)
(* transactions conflict, raise and break ("riprovo al prossimo ciclo",    *)
(* frontend/web/app.py:350).                                               *)
EventuallyDelivered ==
    \A d \in Loops : \A i \in DOMAIN RouteOf[d] : \A e \in Events :
       event[e] = "stored" ~> <<e, RouteOf[d][i]>> \in deliveries

(* What makes these invariants inductive: the events of a use case share   *)
(* its fate, a transaction only ever holds committed events, and a row it  *)
(* will mark as delivered has been handled.                                *)
UseCasesWhole ==
    \A e, f \in Events :
       UseCaseOf[e] = UseCaseOf[f] /\ event[e] # "none" /\ event[f] # "none"
       => event[e] = event[f]

RowsAreStored ==
    \A d \in Dispatchers : \A e \in rest[d] \union batch[d] : event[e] = "stored"

AddedWasHandled ==
    \A d \in Dispatchers :
       /\ stage[d] = "handling" => rest[d] \subseteq batch[d]
       /\ Acts(d) => \A e \in added[d] : handled[<<e, ConsumerOf(d)>>] > 0

OutboxInv ==
    /\ TypeOK
    /\ UseCasesWhole
    /\ RowsAreStored
    /\ AddedWasHandled
    /\ NothingFromFailedUseCases
    /\ Mute = {} => DeliveredWasHandled

Promise == INSTANCE AtLeastOnce WITH
    stored  <- {e \in Events : event[e] = "stored"},
    acted   <- {x \in Events \X Consumers : handled[x] > 0},
    settled <- deliveries

(* The outbox implements at-least-once delivery.                           *)
KeepsPromise == Promise!Spec
=============================================================================
