------------------------------- MODULE Realtime -------------------------------
(***************************************************************************)
(* From the outbox to the browsers: what the realtime consumer of the Web  *)
(* App does with an event, until each WebSocket has it.                    *)
(*                                                                         *)
(* A process hands the event to its own event loop, or, with Redis, to     *)
(* every process whose subscriber thread listens; the module is about one  *)
(* process, to which what the others dispatch comes from elsewhere.  The   *)
(* event becomes a task that sends to one connection after the other, in   *)
(* the order of a set, while other tasks do the same, connections come and *)
(* go, and a client that does not read makes the task that serves it wait. *)
(*                                                                         *)
(* Outbox models how an event gets here, and how often: here each gets     *)
(* here once, in order.                                                    *)
(***************************************************************************)
EXTENDS Naturals, FiniteSets, Sequences, SequencesExt, Functions

CONSTANTS
    Sockets,    \* WebSocket connections of the process
    MaxEvents   \* bound: events of a behaviour

ASSUME RealtimeAssumption == MaxEvents \in Nat /\ IsFiniteSet(Sockets)

Happenings == 1 .. MaxEvents

VARIABLES
    bus,        \* "local" or "redis"
    socket,     \* "new", "open", "stalled" (the client does not read) or "closed"
    connected,  \* _connected
    handed,     \* events the consumer has been given
    here,       \* without Redis: the events this process was given, not another
    channel,    \* what the subscriber has not read yet
    listening,  \* whether its thread runs
    task,       \* of each event: not there yet, waiting to start, or the
                \* connections it still has to serve
    line,       \* the tasks waiting to send on each connection
    got,        \* history: how often each client has received each event
    since       \* history: the events handed over before the connection

realtimeVars == <<bus, socket, connected, handed, here, channel, listening,
                  task, line, got, since>>

Task(stage, todo) == [stage |-> stage, todo |-> todo]
Idle    == Task("idle", <<>>)
Waiting == Task("waiting", <<>>)
Serves(e, c) == task[e].todo # <<>> /\ Head(task[e].todo) = c

-----------------------------------------------------------------------------
(* The dispatcher of some process gives it an event: handle_outbox_event   *)
(* of the notifier, or of the publisher.                                   *)
HandsOver(e, mine) ==
    IF bus = "local"
    THEN /\ task' = IF mine THEN [task EXCEPT ![e] = Waiting] ELSE task
         /\ UNCHANGED channel
    ELSE /\ channel' = IF listening THEN Append(channel, e) ELSE channel
         /\ UNCHANGED task

Dispatches(mine) ==
    /\ handed < MaxEvents
    /\ handed' = handed + 1
    /\ here' = IF mine /\ bus = "local" THEN here \cup {handed + 1} ELSE here
    /\ HandsOver(handed + 1, mine)
    /\ UNCHANGED <<bus, socket, connected, listening, line, got, since>>

(* The subscriber's thread, which its first error ends for good.           *)
Receives ==
    /\ listening /\ channel # <<>>
    /\ channel' = Tail(channel)
    /\ task' = [task EXCEPT ![Head(channel)] = Waiting]
    /\ UNCHANGED <<bus, socket, connected, handed, here, listening, line, got, since>>

SubscriberEnds ==
    /\ listening
    /\ listening' = FALSE
    /\ channel' = <<>>
    /\ UNCHANGED <<bus, socket, connected, handed, here, task, line, got, since>>

-----------------------------------------------------------------------------
(* broadcast                                                               *)

Orders(S) == {f \in [1 .. Cardinality(S) -> S] : IsInjective(f)}

(* The task leaves a line for that of the connection it comes to.          *)
ComesTo(e, todo, l) ==
    /\ task' = [task EXCEPT ![e] = Task("serving", todo)]
    /\ line' = IF todo = <<>> THEN l ELSE [l EXCEPT ![Head(todo)] = Append(@, e)]

Starts(e) ==
    /\ task[e] = Waiting
    /\ \A d \in Happenings : d < e => task[d] # Waiting
    /\ \E todo \in Orders(connected) : ComesTo(e, todo, line)
    /\ UNCHANGED <<bus, socket, connected, handed, here, channel, listening, got, since>>

(* A connection that fails is dropped, and the next one served.            *)
StopsThere(todo, fails) == IF fails THEN <<>> ELSE Tail(todo)      \* mutant: the error ends the task
Retries(todo, fails) == IF fails THEN Tail(todo) ELSE todo         \* mutant: the one served is not passed over
NextOnes(todo, fails) == Tail(todo)

Sends(e) ==
    /\ \E c \in Sockets :
         LET fails == socket[c] = "closed"
         IN
           /\ Serves(e, c) /\ Head(line[c]) = e /\ socket[c] # "stalled"
           /\ got' = IF fails THEN got ELSE [got EXCEPT ![c][e] = @ + 1]
           /\ connected' = IF fails THEN connected \ {c} ELSE connected
           /\ ComesTo(e, NextOnes(task[e].todo, fails), [line EXCEPT ![c] = Tail(@)])
    /\ UNCHANGED <<bus, socket, handed, here, channel, listening, since>>

-----------------------------------------------------------------------------
(* /ws, whose rights are looked at once; and the clients                   *)

Connect(c) ==
    /\ socket[c] = "new"
    /\ socket' = [socket EXCEPT ![c] = "open"]
    /\ connected' = connected \cup {c}
    /\ since' = [since EXCEPT ![c] = handed]
    /\ UNCHANGED <<bus, handed, here, channel, listening, task, line, got>>

Closes(c) ==
    /\ socket[c] \in {"open", "stalled"}
    /\ socket' = [socket EXCEPT ![c] = "closed"]
    /\ UNCHANGED <<bus, connected, handed, here, channel, listening, task, line, got, since>>

Disconnect(c) ==
    /\ socket[c] = "closed" /\ c \in connected
    /\ connected' = connected \ {c}
    /\ UNCHANGED <<bus, socket, handed, here, channel, listening, task, line, got, since>>

Stalls(c) ==
    /\ socket[c] = "open"
    /\ socket' = [socket EXCEPT ![c] = "stalled"]
    /\ UNCHANGED <<bus, connected, handed, here, channel, listening, task, line, got, since>>

RealtimeInit ==
    /\ bus \in {"local", "redis"}
    /\ socket = [c \in Sockets |-> "new"]
    /\ connected = {}
    /\ handed = 0 /\ here = {}
    /\ channel = <<>>
    /\ listening = (bus = "redis")
    /\ task = [e \in Happenings |-> Idle]
    /\ line = [c \in Sockets |-> <<>>]
    /\ got = [c \in Sockets |-> [e \in Happenings |-> 0]] /\ since = [c \in Sockets |-> 0]

RealtimeNext ==
    \/ Receives \/ SubscriberEnds
    \/ \E mine \in BOOLEAN : Dispatches(mine)
    \/ \E e \in Happenings : Starts(e) \/ Sends(e)
    \/ \E c \in Sockets : Connect(c) \/ Closes(c) \/ Disconnect(c) \/ Stalls(c)

(* The subscriber waits for the next message, and the event loop runs each *)
(* task that can go on.                                                    *)
RealtimeFairness ==
    /\ WF_realtimeVars(Receives)
    /\ \A e \in Happenings : WF_realtimeVars(Starts(e)) /\ WF_realtimeVars(Sends(e))

RealtimeSpec == RealtimeInit /\ [][RealtimeNext]_realtimeVars /\ RealtimeFairness

-----------------------------------------------------------------------------
(* Properties                                                              *)

(* The types; a task is in the line of the connection it serves, and in no *)
(* other.                                                                  *)
RealtimeTypeOK ==
    /\ bus \in {"local", "redis"}
    /\ socket \in [Sockets -> {"new", "open", "stalled", "closed"}]
    /\ handed \in 0 .. MaxEvents
    /\ listening \in BOOLEAN /\ here \subseteq 1 .. handed
    /\ \A c \in connected : socket[c] # "new"
    /\ \A c \in Sockets, e \in Happenings :
         (\E i \in DOMAIN line[c] : line[c][i] = e)
             <=> Serves(e, c)

(* A client is told of each event once, whatever the way it takes.         *)
ToldOnce == \A c \in Sockets, e \in Happenings : got[c][e] <= 1

(* A client hears of every event that is handed over after it connected,   *)
(* or it leaves.  What may keep it from hearing: the event was given to    *)
(* another process and there is no Redis; the subscriber of its process    *)
(* has ended; or a client of its process does not read, which holds up the *)
(* task for all those that come after it.                                  *)
EverybodyHears ==
    \A c \in Sockets, e \in Happenings :
        (socket[c] = "open" /\ since[c] < e /\ e <= handed) ~>
            \/ got[c][e] > 0
            \/ socket[c] = "closed"
            \/ bus = "local" /\ e \notin here
            \/ bus = "redis" /\ ~ listening
            \/ \E d \in Sockets : socket[d] = "stalled"
=============================================================================
