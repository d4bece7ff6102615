---------------------------- MODULE DeliveryProofs ----------------------------
(***************************************************************************)
(* Proofs about the way of an event: Realtime, from the outbox to the      *)
(* browsers, for any set of connections and any number of events, and      *)
(* Outbox, for every number of events, use cases, dispatchers and faults,  *)
(* every limit and every route.                                            *)
(***************************************************************************)
EXTENDS Outbox, Realtime, FiniteSetTheorems, TLAPS

-----------------------------------------------------------------------------
(* Realtime: a task waits in the line of the connection it serves and no   *)
(* other, and no client is told of an event twice.                         *)

In(s, x) == \E i \in DOMAIN s : s[i] = x

Shapes ==
    /\ connected \subseteq Sockets
    /\ handed \in Nat
    /\ channel \in Seq(Happenings)
    /\ task \in [Happenings -> [stage : {"idle", "waiting", "serving"}, todo : Seq(Sockets)]]
    /\ line \in [Sockets -> Seq(Happenings)]
    /\ got \in [Sockets -> [Happenings -> Nat]]

(* What is in the channel, or was not handed over yet, has no task.        *)
ChannelInv ==
    /\ IsInjective(channel)
    /\ \A e \in Happenings : In(channel, e) => e <= handed
    /\ \A e \in Happenings : In(channel, e) \/ e > handed => task[e].stage = "idle"

(* A task has before it clients that have not got the event.               *)
TasksInv ==
    \A e \in Happenings :
        /\ task[e].stage # "serving" =>
              task[e].todo = <<>> /\ \A c \in Sockets : got[c][e] = 0
        /\ IsInjective(task[e].todo)
        /\ \A c \in Sockets : In(task[e].todo, c) => got[c][e] = 0

LinesInv ==
    \A c \in Sockets :
        /\ IsInjective(line[c])
        /\ \A e \in Happenings : In(line[c], e) <=> Serves(e, c)

(* RealtimeInv follows an event on its way: as long as it is in the channel *)
(* it has no task; as long as its task has not started nobody has got it;  *)
(* and a started task still has to serve, each once, only clients that     *)
(* have not got it.                                                        *)
RealtimeInv ==
    /\ RealtimeTypeOK /\ ToldOnce
    /\ Shapes /\ ChannelInv /\ TasksInv /\ LinesInv

-----------------------------------------------------------------------------
(* Sequences without repetitions                                           *)

LEMMA AppendAdds ==
    ASSUME NEW S, NEW s \in Seq(S), NEW e \in S
    PROVE  /\ Append(s, e) \in Seq(S) /\ Append(s, e) # <<>>
           /\ \A x : In(Append(s, e), x) <=> In(s, x) \/ x = e
           /\ IsInjective(s) /\ ~ In(s, e) => IsInjective(Append(s, e))
<1>1. /\ DOMAIN Append(s, e) = 1 .. Len(s) + 1 /\ DOMAIN s = 1 .. Len(s) /\ Len(s) \in Nat
      /\ \A i \in 1 .. Len(s) : Append(s, e)[i] = s[i]
      /\ Append(s, e)[Len(s) + 1] = e
    OBVIOUS
<1>2. ASSUME NEW x PROVE In(Append(s, e), x) <=> In(s, x) \/ x = e
    BY <1>1 DEF In
<1>3. ASSUME IsInjective(s), ~ In(s, e) PROVE IsInjective(Append(s, e))
    BY <1>1, <1>3 DEF In, IsInjective
<1> QED BY <1>2, <1>3

LEMMA TailTakes ==
    ASSUME NEW S, NEW s \in Seq(S), s # <<>>, IsInjective(s)
    PROVE  /\ Tail(s) \in Seq(S) /\ Head(s) \in S /\ In(s, Head(s))
           /\ \A x : In(Tail(s), x) <=> In(s, x) /\ x # Head(s)
           /\ IsInjective(Tail(s))
<1>1. /\ Len(s) \in Nat /\ Len(s) > 0 /\ DOMAIN s = 1 .. Len(s) /\ Head(s) = s[1]
      /\ Tail(s) \in Seq(S) /\ DOMAIN Tail(s) = 1 .. Len(s) - 1
      /\ \A i \in 1 .. Len(s) - 1 : Tail(s)[i] = s[i + 1]
    OBVIOUS
<1>2. ASSUME NEW x, In(Tail(s), x) PROVE In(s, x) /\ x # Head(s)
    BY <1>1, <1>2 DEF In, IsInjective
<1>3. ASSUME NEW x, In(s, x), x # Head(s) PROVE In(Tail(s), x)
  <2>1. PICK i \in 1 .. Len(s) : s[i] = x
      BY <1>1, <1>3 DEF In
  <2>2. i - 1 \in 1 .. Len(s) - 1 /\ Tail(s)[i - 1] = x
      BY <1>1, <1>3, <2>1
  <2> QED BY <1>1, <2>2 DEF In
<1>4. IsInjective(Tail(s))
    BY <1>1 DEF IsInjective
<1>5. Head(s) \in S /\ In(s, Head(s))
    BY <1>1 DEF In
<1> QED BY <1>1, <1>2, <1>3, <1>4, <1>5

LEMMA EmptyHolds == IsInjective(<<>>) /\ \A x : ~ In(<<>>, x)
    BY DEF IsInjective, In

LEMMA OrdersAre ==
    ASSUME NEW todo \in Orders(connected), connected \subseteq Sockets
    PROVE  todo \in Seq(Sockets) /\ IsInjective(todo)
<1>1. Cardinality(connected) \in Nat
    BY RealtimeAssumption, FS_Subset, FS_CardinalityType
<1> QED BY <1>1 DEF Orders

LEMMA HeadIn ==
    ASSUME NEW e \in Happenings, NEW c \in Sockets, Shapes, Serves(e, c)
    PROVE  In(task[e].todo, c)
    BY DEF Shapes, Serves, In

-----------------------------------------------------------------------------
LEMMA RealtimeInvInit == RealtimeInit => RealtimeInv
<1> SUFFICES ASSUME RealtimeInit PROVE RealtimeInv
    OBVIOUS
<1>1. Shapes
    BY DEF RealtimeInit, Shapes, Idle, Task, Happenings
<1>2. ChannelInv
    BY EmptyHolds DEF RealtimeInit, ChannelInv, Idle, Task
<1>3. TasksInv
    BY EmptyHolds DEF RealtimeInit, TasksInv, Idle, Task
<1>4. LinesInv
    BY EmptyHolds DEF RealtimeInit, LinesInv, Serves, Idle, Task
<1>5. ToldOnce
    BY DEF RealtimeInit, ToldOnce
<1>6. RealtimeTypeOK
    BY <1>4, RealtimeAssumption DEF RealtimeInit, RealtimeTypeOK, LinesInv, In
<1> QED BY <1>1, <1>2, <1>3, <1>4, <1>5, <1>6 DEF RealtimeInv

(* What connections do leaves the events alone.                            *)
LEMMA ConnectionsKeep ==
    ASSUME RealtimeInv, UNCHANGED <<bus, handed, here, task, line, got>>,
           socket' \in [Sockets -> {"new", "open", "stalled", "closed"}],
           listening' \in BOOLEAN,
           connected' \subseteq Sockets, \A c \in connected' : socket'[c] # "new",
           channel' = channel \/ channel' = <<>>
    PROVE  RealtimeInv'
<1>0. channel' \in Seq(Happenings)
  <2>1. channel \in Seq(Happenings) /\ <<>> \in Seq(Happenings)
      BY DEF RealtimeInv, Shapes
  <2> QED BY <2>1
<1>1. Shapes'
    BY <1>0 DEF RealtimeInv, Shapes
<1>2. ChannelInv'
    BY EmptyHolds DEF RealtimeInv, ChannelInv
<1>3. TasksInv' /\ LinesInv' /\ ToldOnce'
    BY DEF RealtimeInv, TasksInv, LinesInv, ToldOnce, Serves
<1>4. RealtimeTypeOK'
    BY DEF RealtimeInv, RealtimeTypeOK, Serves
<1> QED BY <1>1, <1>2, <1>3, <1>4 DEF RealtimeInv

(* An event that had no task gets one.                                     *)
LEMMA WaitingKeeps ==
    ASSUME Shapes, TasksInv, LinesInv, NEW e \in Happenings, task[e].stage = "idle",
           task' = [task EXCEPT ![e] = Waiting], UNCHANGED <<line, got>>
    PROVE  TasksInv' /\ LinesInv'
<1>1. /\ task'[e].stage = "waiting" /\ task'[e].todo = <<>> /\ task[e].todo = <<>>
      /\ \A d \in Happenings : d # e => task'[d] = task[d]
    BY DEF Shapes, Waiting, Task, TasksInv
<1>2. TasksInv'
    BY <1>1, EmptyHolds DEF TasksInv
<1>3. \A d \in Happenings, c \in Sockets : Serves(d, c)' <=> Serves(d, c)
    BY <1>1 DEF Serves
<1>4. LinesInv'
    BY <1>3 DEF LinesInv
<1> QED BY <1>2, <1>4

LEMMA DispatchesKeeps ==
    ASSUME RealtimeInv, NEW mine \in BOOLEAN, Dispatches(mine)
    PROVE  RealtimeInv'
<1> DEFINE e == handed + 1
<1>1. /\ handed \in Nat /\ handed' = e /\ e \in Happenings /\ handed' \in 0 .. MaxEvents
      /\ ~ In(channel, e) /\ task[e].stage = "idle"
      /\ UNCHANGED <<bus, socket, connected, listening, line, got>>
    BY RealtimeAssumption DEF RealtimeInv, Shapes, ChannelInv, Dispatches, Happenings
<1>2. here' \subseteq 1 .. handed'
    BY <1>1 DEF Dispatches, RealtimeInv, RealtimeTypeOK
<1>3. ToldOnce'
    BY <1>1 DEF RealtimeInv, ToldOnce
<1> USE <1>1 DEF RealtimeInv
<1>4. CASE task' = [task EXCEPT ![e] = Waiting] /\ channel' = channel
  <2>1. Shapes'
      BY <1>4 DEF Shapes, Waiting, Task
  <2>2. ChannelInv'
      BY <1>4 DEF ChannelInv, Shapes, Waiting, Task, Happenings
  <2>3. TasksInv' /\ LinesInv'
      BY <1>4, WaitingKeeps
  <2>4. RealtimeTypeOK'
      BY <1>2, <2>3 DEF RealtimeTypeOK, LinesInv, In
  <2> QED BY <1>3, <2>1, <2>2, <2>3, <2>4
<1>5. CASE task' = task /\ channel' \in {channel, Append(channel, e)}
  <2>0. /\ Append(channel, e) \in Seq(Happenings)
        /\ \A x : In(Append(channel, e), x) <=> In(channel, x) \/ x = e
        /\ IsInjective(channel) => IsInjective(Append(channel, e))
    <3>1. channel \in Seq(Happenings)
        BY DEF Shapes
    <3> HIDE DEF e
    <3> QED BY <3>1, AppendAdds
  <2>1. \A x : In(channel', x) => In(channel, x) \/ x = e
      BY <1>5, <2>0
  <2>2. Shapes'
    <3>1. channel \in Seq(Happenings)
        BY DEF Shapes
    <3>2. channel' \in Seq(Happenings)
        BY <3>1, <1>5, <2>0
    <3> QED BY <3>2, <1>5 DEF Shapes
  <2>3. IsInjective(channel')
      BY <1>5, <2>0 DEF ChannelInv
  <2>4. ChannelInv'
      BY <1>5, <2>1, <2>3 DEF ChannelInv, Happenings
  <2>5. TasksInv' /\ LinesInv'
      BY <1>5 DEF TasksInv, LinesInv, Serves
  <2>6. RealtimeTypeOK'
      BY <1>2, <2>5 DEF RealtimeTypeOK, LinesInv, In
  <2> QED BY <1>3, <2>2, <2>4, <2>5, <2>6
<1> QED BY <1>4, <1>5 DEF Dispatches, HandsOver

LEMMA ReceivesKeeps ==
    ASSUME RealtimeInv, Receives
    PROVE  RealtimeInv'
<1> DEFINE e == Head(channel)
<1>1. /\ channel # <<>> /\ channel' = Tail(channel) /\ task' = [task EXCEPT ![e] = Waiting]
      /\ UNCHANGED <<bus, socket, connected, handed, here, listening, line, got>>
    BY DEF Receives
<1>2. /\ e \in Happenings /\ In(channel, e) /\ channel' \in Seq(Happenings) /\ IsInjective(channel')
      /\ \A x : In(channel', x) <=> In(channel, x) /\ x # e
    BY <1>1, TailTakes DEF RealtimeInv, Shapes, ChannelInv
<1>3. task[e].stage = "idle"
    BY <1>2 DEF RealtimeInv, ChannelInv
<1> HIDE DEF e
<1> USE DEF RealtimeInv
<1>4. Shapes'
    BY <1>1, <1>2 DEF Shapes, Waiting, Task
<1>5. ChannelInv'
  <2>1. e <= handed
      BY <1>2 DEF ChannelInv
  <2> QED BY <1>1, <1>2, <2>1 DEF ChannelInv, Shapes, Happenings
<1>6. TasksInv' /\ LinesInv'
    BY <1>1, <1>2, <1>3, WaitingKeeps
<1>7. ToldOnce' /\ RealtimeTypeOK'
    BY <1>1, <1>6 DEF ToldOnce, RealtimeTypeOK, LinesInv, In
<1> QED BY <1>4, <1>5, <1>6, <1>7

(* A task comes to the next connection, out of every line before.          *)
LEMMA ComesToKeeps ==
    ASSUME Shapes, NEW e \in Happenings, NEW todo \in Seq(Sockets), IsInjective(todo),
           NEW l \in [Sockets -> Seq(Happenings)], ComesTo(e, todo, l),
           \A c \in Sockets :
               /\ IsInjective(l[c])
               /\ \A d \in Happenings : In(l[c], d) <=> d # e /\ Serves(d, c)
    PROVE  LinesInv' /\ line' \in [Sockets -> Seq(Happenings)]
<1>1. /\ task'[e] = Task("serving", todo)
      /\ \A d \in Happenings : d # e => task'[d] = task[d]
    BY DEF ComesTo, Shapes
<1>2. \A d \in Happenings, c \in Sockets :
          Serves(d, c)' <=> IF d = e THEN todo # <<>> /\ Head(todo) = c ELSE Serves(d, c)
    BY <1>1 DEF Serves, Task
<1>3. CASE todo = <<>>
    BY <1>2, <1>3 DEF ComesTo, LinesInv
<1>4. CASE todo # <<>>
  <2> DEFINE h == Head(todo)
  <2>1. h \in Sockets
      BY <1>4
  <2>2. line' = [l EXCEPT ![h] = Append(@, e)]
      BY <1>4 DEF ComesTo
  <2>3. /\ ~ In(l[h], e) /\ IsInjective(l[h]) /\ l[h] \in Seq(Happenings)
      BY <2>1
  <2>4. /\ Append(l[h], e) \in Seq(Happenings) /\ IsInjective(Append(l[h], e))
        /\ \A x : In(Append(l[h], e), x) <=> In(l[h], x) \/ x = e
      BY <2>3, AppendAdds
  <2>5. \A c \in Sockets : line'[c] = IF c = h THEN Append(l[h], e) ELSE l[c]
      BY <2>1, <2>2
  <2> HIDE DEF h
  <2>6. line' \in [Sockets -> Seq(Happenings)]
      BY <2>1, <2>2, <2>4
  <2>7. ASSUME NEW c \in Sockets
        PROVE  IsInjective(line'[c]) /\ \A d \in Happenings : In(line'[c], d) <=> Serves(d, c)'
    <3>1. CASE c = h
        BY <3>1, <1>2, <1>4, <2>4, <2>5 DEF h
    <3>2. CASE c # h
        BY <3>2, <1>2, <2>5 DEF h
    <3> QED BY <3>1, <3>2
  <2> QED BY <2>6, <2>7 DEF LinesInv
<1> QED BY <1>3, <1>4

LEMMA StartsKeeps ==
    ASSUME RealtimeInv, NEW e \in Happenings, Starts(e)
    PROVE  RealtimeInv'
<1> USE DEF RealtimeInv
<1>1. PICK todo \in Orders(connected) : ComesTo(e, todo, line)
    BY DEF Starts
<1>2. todo \in Seq(Sockets) /\ IsInjective(todo)
    BY OrdersAre DEF Shapes
<1>3. /\ task[e].stage = "waiting" /\ task[e].todo = <<>> /\ \A c \in Sockets : got[c][e] = 0
      /\ UNCHANGED <<bus, socket, connected, handed, here, channel, listening, got>>
    BY DEF Starts, Waiting, Task, TasksInv
<1>4. task' = [task EXCEPT ![e] = Task("serving", todo)]
    BY <1>1 DEF ComesTo
<1>5. /\ task'[e].stage = "serving" /\ task'[e].todo = todo
      /\ \A d \in Happenings : d # e => task'[d] = task[d]
    BY <1>4 DEF Shapes, Task
<1>6. \A c \in Sockets : /\ IsInjective(line[c])
                         /\ \A d \in Happenings : In(line[c], d) <=> d # e /\ Serves(d, c)
    BY <1>3 DEF LinesInv, Serves
<1>7. LinesInv' /\ line' \in [Sockets -> Seq(Happenings)]
  <2>1. line \in [Sockets -> Seq(Happenings)]
      BY DEF Shapes
  <2> QED BY <1>1, <1>2, <1>6, <2>1, ComesToKeeps
<1>8. Shapes'
    BY <1>2, <1>3, <1>4, <1>7 DEF Shapes, Task
<1>9. ChannelInv'
    BY <1>3, <1>5 DEF ChannelInv
<1>10. TasksInv'
    BY <1>2, <1>3, <1>5 DEF TasksInv
<1>11. ToldOnce' /\ RealtimeTypeOK'
    BY <1>3, <1>7 DEF ToldOnce, RealtimeTypeOK, LinesInv, In
<1> QED BY <1>7, <1>8, <1>9, <1>10, <1>11

LEMMA SendsKeeps ==
    ASSUME RealtimeInv, NEW e \in Happenings, Sends(e)
    PROVE  RealtimeInv'
<1> USE DEF RealtimeInv
<1>1. PICK c \in Sockets :
          LET fails == socket[c] = "closed"
          IN  /\ Serves(e, c) /\ Head(line[c]) = e /\ socket[c] # "stalled"
              /\ got' = IF fails THEN got ELSE [got EXCEPT ![c][e] = @ + 1]
              /\ connected' = IF fails THEN connected \ {c} ELSE connected
              /\ ComesTo(e, NextOnes(task[e].todo, fails), [line EXCEPT ![c] = Tail(@)])
    BY DEF Sends
<1>2. UNCHANGED <<bus, socket, handed, here, channel, listening>>
    BY DEF Sends
<1> DEFINE old == task[e].todo
           new == Tail(old)
           l   == [line EXCEPT ![c] = Tail(@)]
<1>3. ComesTo(e, new, l)
    BY <1>1 DEF NextOnes
<1>4. /\ old \in Seq(Sockets) /\ old # <<>> /\ IsInjective(old) /\ Head(old) = c
      /\ task[e].stage = "serving" /\ got[c][e] = 0
    BY <1>1, HeadIn DEF Shapes, TasksInv, Serves
<1>5. /\ new \in Seq(Sockets) /\ IsInjective(new)
      /\ \A x : In(new, x) <=> In(old, x) /\ x # c
    BY <1>4, TailTakes
<1>6. /\ task' = [task EXCEPT ![e] = Task("serving", new)]
      /\ task'[e].stage = "serving" /\ task'[e].todo = new
      /\ \A d \in Happenings : d # e => task'[d] = task[d]
    BY <1>3 DEF ComesTo, Shapes, Task
<1>7. /\ line[c] \in Seq(Happenings) /\ line[c] # <<>> /\ IsInjective(line[c])
    <2>1. In(line[c], e)
        BY <1>1 DEF LinesInv
    <2> QED BY <2>1, EmptyHolds DEF LinesInv, Shapes
<1>8. /\ Tail(line[c]) \in Seq(Happenings) /\ IsInjective(Tail(line[c]))
      /\ \A x : In(Tail(line[c]), x) <=> In(line[c], x) /\ x # e
    BY <1>1, <1>7, TailTakes
<1>9. /\ l \in [Sockets -> Seq(Happenings)]
      /\ \A b \in Sockets : l[b] = IF b = c THEN Tail(line[c]) ELSE line[b]
    BY <1>8 DEF Shapes
<1>10. \A b \in Sockets : Serves(e, b) => b = c
    BY <1>4 DEF Serves
<1>11. \A b \in Sockets : /\ IsInjective(l[b])
                          /\ \A d \in Happenings : In(l[b], d) <=> d # e /\ Serves(d, b)
  <2> SUFFICES ASSUME NEW b \in Sockets
               PROVE  /\ IsInjective(l[b])
                      /\ \A d \in Happenings : In(l[b], d) <=> d # e /\ Serves(d, b)
      OBVIOUS
  <2>0. l[b] = IF b = c THEN Tail(line[c]) ELSE line[b]
      BY <1>9
  <2> HIDE DEF l
  <2>1. CASE b = c
      BY <2>0, <2>1, <1>8 DEF LinesInv
  <2>2. CASE b # c
      BY <2>0, <2>2, <1>10 DEF LinesInv
  <2> QED BY <2>1, <2>2
<1> HIDE DEF l, old, new
<1>12. LinesInv' /\ line' \in [Sockets -> Seq(Happenings)]
    BY <1>3, <1>5, <1>9, <1>11, ComesToKeeps
<1>13. /\ got' \in [Sockets -> [Happenings -> Nat]]
       /\ got'[c][e] \in {0, 1}
       /\ \A b \in Sockets, d \in Happenings : b # c \/ d # e => got'[b][d] = got[b][d]
    BY <1>1, <1>4 DEF Shapes
<1>14. connected' \subseteq connected
    BY <1>1
<1>15. Shapes'
    BY <1>2, <1>5, <1>6, <1>12, <1>13, <1>14 DEF Shapes, Task
<1>16. ChannelInv'
    BY <1>2, <1>4, <1>6 DEF ChannelInv
<1>17. TasksInv'
  <2> SUFFICES ASSUME NEW d \in Happenings
               PROVE  /\ task'[d].stage # "serving" =>
                           task'[d].todo = <<>> /\ \A b \in Sockets : got'[b][d] = 0
                      /\ IsInjective(task'[d].todo)
                      /\ \A b \in Sockets : In(task'[d].todo, b) => got'[b][d] = 0
      BY DEF TasksInv
  <2>1. CASE d = e
    <3>1. \A b \in Sockets : In(new, b) => b # c /\ got[b][e] = 0
        BY <1>5 DEF TasksInv, old
    <3>2. \A b \in Sockets : In(new, b) => got'[b][e] = 0
        BY <3>1, <1>13
    <3> QED BY <2>1, <3>2, <1>5, <1>6
  <2>2. CASE d # e
    <3>1. task'[d] = task[d] /\ \A b \in Sockets : got'[b][d] = got[b][d]
        BY <2>2, <1>6, <1>13
    <3> QED BY <3>1 DEF TasksInv
  <2> QED BY <2>1, <2>2
<1>18. ToldOnce'
    BY <1>13 DEF ToldOnce
<1>19. RealtimeTypeOK'
    BY <1>2, <1>12, <1>14 DEF RealtimeTypeOK, LinesInv, In
<1> QED BY <1>12, <1>15, <1>16, <1>17, <1>18, <1>19

LEMMA RealtimeInvStep == RealtimeInv /\ [RealtimeNext]_realtimeVars => RealtimeInv'
<1> SUFFICES ASSUME RealtimeInv, [RealtimeNext]_realtimeVars PROVE RealtimeInv'
    OBVIOUS
<1>1. CASE SubscriberEnds
    BY <1>1, ConnectionsKeep DEF SubscriberEnds, RealtimeInv, RealtimeTypeOK, Shapes
<1>2. ASSUME NEW c \in Sockets, Connect(c) \/ Closes(c) \/ Disconnect(c) \/ Stalls(c)
      PROVE  RealtimeInv'
  <2>1. UNCHANGED <<bus, handed, here, task, line, got, channel, listening>>
      BY <1>2 DEF Connect, Closes, Disconnect, Stalls
  <2>2. /\ socket' \in [Sockets -> {"new", "open", "stalled", "closed"}]
        /\ connected' \subseteq Sockets
        /\ \A d \in connected' : socket'[d] # "new"
    <3>1. /\ socket \in [Sockets -> {"new", "open", "stalled", "closed"}]
          /\ connected \subseteq Sockets
          /\ \A d \in connected : socket[d] # "new"
        BY DEF RealtimeInv, RealtimeTypeOK, Shapes
    <3>2. CASE Connect(c)
        BY <3>1, <3>2 DEF Connect
    <3>3. CASE Closes(c)
        BY <3>1, <3>3 DEF Closes
    <3>4. CASE Disconnect(c)
        BY <3>1, <3>4 DEF Disconnect
    <3>5. CASE Stalls(c)
        BY <3>1, <3>5 DEF Stalls
    <3> QED BY <1>2, <3>2, <3>3, <3>4, <3>5
  <2>3. listening' \in BOOLEAN
      BY <2>1 DEF RealtimeInv, RealtimeTypeOK
  <2> QED BY <2>1, <2>2, <2>3, ConnectionsKeep
<1>3. CASE UNCHANGED realtimeVars
    BY <1>3, ConnectionsKeep DEF realtimeVars, RealtimeInv, RealtimeTypeOK, Shapes
<1> QED BY <1>1, <1>2, <1>3, DispatchesKeeps, ReceivesKeeps, StartsKeeps, SendsKeeps
        DEF RealtimeNext

(* The invariant holds in every reachable state.                           *)
THEOREM RealtimeCorrect == RealtimeSpec => []RealtimeInv
<1> QED BY RealtimeInvInit, RealtimeInvStep, PTL DEF RealtimeSpec

(* Types, and a task waits only where it serves.                           *)
THEOREM RealtimeTypeCorrect == RealtimeSpec => []RealtimeTypeOK
<1>1. RealtimeInv => RealtimeTypeOK
    BY DEF RealtimeInv
<1> QED BY <1>1, RealtimeCorrect, PTL

(* Whatever connections come, go, fail or wait, no client is told of an    *)
(* event twice.                                                            *)
THEOREM NobodyToldTwice == RealtimeSpec => []ToldOnce
<1>1. RealtimeInv => ToldOnce
    BY DEF RealtimeInv
<1> QED BY <1>1, RealtimeCorrect, PTL

-----------------------------------------------------------------------------
(* Outbox: what reaches a consumer was committed, and what is written off  *)
(* has reached it.                                                         *)

USE OutboxAssumption DEF Events

LEMMA RoutesAreConsumers ==
    ASSUME NEW d \in Dispatchers, NEW i \in DOMAIN RouteOf[d]
    PROVE  RouteOf[d][i] \in Consumers
PROOF BY DEF Consumers

LEMMA ConsumerType ==
    ASSUME TypeOK, NEW d \in Dispatchers
    PROVE  ConsumerOf(d) \in Consumers
PROOF BY RoutesAreConsumers DEF ConsumerOf, TypeOK

LEMMA TurnStays ==
    ASSUME TypeOK, NEW d \in Dispatchers
    PROVE  /\ NextTurn(d) \in DOMAIN RouteOf[d] /\ NextTurn(d) \in Nat
           /\ 1 \in DOMAIN RouteOf[d]
PROOF
<1>1. RouteOf[d] \in Seq(STRING) /\ RouteOf[d] # <<>>
  OBVIOUS
<1>2. Len(RouteOf[d]) \in Nat \ {0} /\ DOMAIN RouteOf[d] = 1..Len(RouteOf[d])
  BY <1>1
<1>3. turn[d] \in 1..Len(RouteOf[d])
  BY <1>2 DEF TypeOK
<1> QED BY <1>2, <1>3 DEF NextTurn

(* What one more run of a handler does to the counts.                      *)
LEMMA EffectCounts ==
    ASSUME TypeOK, NEW d \in Dispatchers, NEW e \in Events
    PROVE  /\ EffectOf(d, e) \in [Events \X Consumers -> Nat]
           /\ \A x \in Events \X Consumers : handled[x] > 0 => EffectOf(d, e)[x] > 0
           /\ Acts(d) => EffectOf(d, e)[<<e, ConsumerOf(d)>>] > 0
           /\ \A x \in Events \X Consumers :
                 x # <<e, ConsumerOf(d)>> => EffectOf(d, e)[x] = handled[x]
PROOF
<1>1. ConsumerOf(d) \in Consumers
  BY ConsumerType
<1>2. handled \in [Events \X Consumers -> Nat] /\ <<e, ConsumerOf(d)>> \in Events \X Consumers
  BY <1>1 DEF TypeOK
<1> DEFINE c == ConsumerOf(d)
<1>3. CASE Acts(d)
  <2>1. EffectOf(d, e) = [handled EXCEPT ![<<e, c>>] = @ + 1]
    BY <1>3 DEF EffectOf
  <2> HIDE DEF c
  <2> QED BY <1>2, <1>3, <2>1 DEF c
<1>4. CASE ~Acts(d)
  BY <1>2, <1>4 DEF EffectOf
<1> QED BY <1>3, <1>4

-----------------------------------------------------------------------------
LEMMA InitOutboxInv == Init => OutboxInv
PROOF
<1> SUFFICES ASSUME Init PROVE OutboxInv
  OBVIOUS
<1>1. \A d \in Dispatchers : 1 \in DOMAIN RouteOf[d]
  <2> TAKE d \in Dispatchers
  <2>1. RouteOf[d] \in Seq(STRING) /\ RouteOf[d] # <<>>
    OBVIOUS
  <2> QED BY <2>1
<1>2. TypeOK
  BY <1>1 DEF Init, TypeOK
<1> QED
  BY <1>2 DEF Init, OutboxInv, UseCasesWhole, RowsAreStored, AddedWasHandled,
     NothingFromFailedUseCases, DeliveredWasHandled

LEMMA PublishKeeps ==
    ASSUME OutboxInv, NEW e \in Events, Publish(e)
    PROVE  OutboxInv'
PROOF
<1> USE DEF OutboxInv, Publish, dispatchVars, EventsOf
<1>1. TypeOK'
  BY DEF TypeOK
<1>2. UseCasesWhole'
  BY DEF TypeOK, UseCasesWhole
<1>3. RowsAreStored'
  BY DEF TypeOK, RowsAreStored
<1>4. AddedWasHandled'
  BY DEF AddedWasHandled, ConsumerOf
<1>5. NothingFromFailedUseCases'
  BY DEF TypeOK, NothingFromFailedUseCases
<1>6. (Mute = {} => DeliveredWasHandled)'
  BY DEF DeliveredWasHandled
<1> QED BY <1>1, <1>2, <1>3, <1>4, <1>5, <1>6

LEMMA EndUseCaseKeeps ==
    ASSUME OutboxInv, NEW u \in UseCases, NEW outcome \in {"stored", "undone"},
           EndUseCase(u, outcome)
    PROVE  OutboxInv'
PROOF
<1> USE DEF OutboxInv, EndUseCase, dispatchVars, EventsOf
<1>1. TypeOK'
  BY DEF TypeOK
<1>2. UseCasesWhole'
  BY DEF TypeOK, UseCasesWhole
<1>3. RowsAreStored'
  BY DEF TypeOK, RowsAreStored
<1>4. AddedWasHandled'
  BY DEF AddedWasHandled, ConsumerOf
<1>5. NothingFromFailedUseCases'
  BY DEF TypeOK, NothingFromFailedUseCases, UseCasesWhole
<1>6. (Mute = {} => DeliveredWasHandled)'
  BY DEF DeliveredWasHandled
<1> QED BY <1>1, <1>2, <1>3, <1>4, <1>5, <1>6

LEMMA BeginKeeps ==
    ASSUME OutboxInv, NEW d \in Dispatchers, Begin(d)
    PROVE  OutboxInv'
PROOF
<1> USE DEF OutboxInv, Begin, useCaseVars, Undelivered
<1>1. TypeOK'
  BY DEF TypeOK
<1>2. UseCasesWhole'
  BY DEF UseCasesWhole
<1>3. RowsAreStored'
  BY DEF TypeOK, RowsAreStored
<1>4. AddedWasHandled'
  BY DEF TypeOK, AddedWasHandled, ConsumerOf, Acts
<1>5. NothingFromFailedUseCases'
  BY DEF NothingFromFailedUseCases, EventsOf
<1>6. (Mute = {} => DeliveredWasHandled)'
  BY DEF DeliveredWasHandled
<1> QED BY <1>1, <1>2, <1>3, <1>4, <1>5, <1>6

LEMMA LockRowKeeps ==
    ASSUME OutboxInv, NEW d \in Dispatchers, LockRow(d)
    PROVE  OutboxInv'
PROOF
<1> USE DEF OutboxInv, LockRow, useCaseVars
<1>1. TypeOK'
  BY DEF TypeOK
<1>2. UseCasesWhole'
  BY DEF UseCasesWhole
<1>3. RowsAreStored'
  BY DEF TypeOK, RowsAreStored
<1>4. AddedWasHandled'
  BY DEF TypeOK, AddedWasHandled, ConsumerOf, Acts
<1>5. NothingFromFailedUseCases'
  BY DEF NothingFromFailedUseCases, EventsOf
<1>6. (Mute = {} => DeliveredWasHandled)'
  BY DEF DeliveredWasHandled
<1> QED BY <1>1, <1>2, <1>3, <1>4, <1>5, <1>6

LEMMA FetchKeeps ==
    ASSUME OutboxInv, NEW d \in Dispatchers, Fetch(d)
    PROVE  OutboxInv'
PROOF
<1> USE DEF OutboxInv, Fetch, useCaseVars
<1>1. TypeOK'
  BY DEF TypeOK
<1>2. UseCasesWhole'
  BY DEF UseCasesWhole
<1>3. RowsAreStored'
  BY DEF TypeOK, RowsAreStored
<1>4. AddedWasHandled'
  BY DEF TypeOK, AddedWasHandled, ConsumerOf, Acts
<1>5. NothingFromFailedUseCases'
  BY DEF NothingFromFailedUseCases, EventsOf
<1>6. (Mute = {} => DeliveredWasHandled)'
  BY DEF DeliveredWasHandled
<1> QED BY <1>1, <1>2, <1>3, <1>4, <1>5, <1>6

(* One row of the batch goes through its handler: its effect may happen    *)
(* (acted) or not, and it is marked for delivery only if it did.           *)
LEMMA RowKeeps ==
    ASSUME OutboxInv, NEW d \in Dispatchers, NEW e \in rest[d],
           stage[d] = "handling",
           rest' = [rest EXCEPT ![d] = @ \ {e}],
           \/ /\ handled' = EffectOf(d, e)
              /\ added' \in {added, [added EXCEPT ![d] = @ \union {e}]}
           \/ handled' = handled /\ added' = added,
           faults' \in 0..MaxFaults,
           UNCHANGED <<event, deliveries, turn, stage, batch>>
    PROVE  OutboxInv'
PROOF
<1> USE DEF OutboxInv
<1>1. e \in Events /\ event[e] = "stored" /\ e \in batch[d]
  BY DEF TypeOK, RowsAreStored, AddedWasHandled
<1>2. /\ handled' \in [Events \X Consumers -> Nat]
      /\ \A x \in Events \X Consumers : handled[x] > 0 => handled'[x] > 0
      /\ \A x \in Events \X Consumers :
            x # <<e, ConsumerOf(d)>> => handled'[x] = handled[x]
  <2>1. CASE handled' = handled
    BY <2>1 DEF TypeOK
  <2>2. CASE handled' = EffectOf(d, e)
    BY <1>1, <2>2, EffectCounts
  <2> QED BY <2>1, <2>2
<1>3. added' \in [Dispatchers -> SUBSET Events]
      /\ \A x \in Dispatchers : \A f \in added'[x] :
            f \in added[x] \/ (x = d /\ f = e /\ handled' = EffectOf(d, e))
  <2>1. CASE added' = added
    BY <2>1 DEF TypeOK
  <2>2. CASE added' = [added EXCEPT ![d] = @ \union {e}] /\ handled' = EffectOf(d, e)
    BY <1>1, <2>2 DEF TypeOK
  <2> QED BY <2>1, <2>2
<1>4. TypeOK'
  <2>1. rest' \in [Dispatchers -> SUBSET Events]
    BY DEF TypeOK
  <2>2. \A x \in Dispatchers : added'[x] \subseteq batch'[x]
    <3> SUFFICES ASSUME NEW x \in Dispatchers, NEW f \in added'[x] PROVE f \in batch[x]
      OBVIOUS
    <3>1. added[x] \subseteq batch[x]
      BY DEF TypeOK
    <3> QED BY <1>1, <1>3, <3>1
  <2>3. \A x \in Dispatchers :
          stage'[x] = "idle" => rest'[x] = {} /\ batch'[x] = {} /\ added'[x] = {}
    BY <1>1, <1>3 DEF TypeOK
  <2> QED BY <1>2, <1>3, <2>1, <2>2, <2>3 DEF TypeOK
<1>5. UseCasesWhole'
  BY DEF UseCasesWhole
<1>6. RowsAreStored'
  BY DEF TypeOK, RowsAreStored
<1>7. AddedWasHandled'
  <2>1. \A x \in Dispatchers : stage'[x] = "handling" => rest'[x] \subseteq batch'[x]
    BY DEF TypeOK, AddedWasHandled
  <2>2. ASSUME NEW x \in Dispatchers, Acts(x), NEW f \in added'[x]
        PROVE  handled'[<<f, ConsumerOf(x)>>] > 0
    <3>1. f \in Events /\ ConsumerOf(x) \in Consumers
      BY <1>3, <2>2, ConsumerType
    <3>2. CASE f \in added[x]
      BY <1>2, <2>2, <3>1, <3>2 DEF AddedWasHandled
    <3>3. CASE x = d /\ f = e /\ handled' = EffectOf(d, e)
      BY <1>1, <2>2, <3>3, EffectCounts
    <3> QED BY <1>3, <2>2, <3>2, <3>3
  <2> QED BY <2>1, <2>2 DEF AddedWasHandled, ConsumerOf, Acts
<1>8. NothingFromFailedUseCases'
  <2> SUFFICES ASSUME NEW x \in Events, NEW c \in Consumers, handled'[<<x, c>>] > 0
               PROVE  /\ event[x] = "stored"
                      /\ \A f \in EventsOf(UseCaseOf[x]) : event[f] \in {"none", "stored"}
    BY DEF NothingFromFailedUseCases, EventsOf
  <2>1. event[x] = "stored"
    BY <1>1, <1>2 DEF NothingFromFailedUseCases
  <2> QED BY <2>1 DEF UseCasesWhole, EventsOf
<1>9. (Mute = {} => DeliveredWasHandled)'
  BY <1>2 DEF DeliveredWasHandled, TypeOK
<1> QED BY <1>4, <1>5, <1>6, <1>7, <1>8, <1>9

LEMMA HandleRowKeeps ==
    ASSUME OutboxInv, NEW d \in Dispatchers, HandleRow(d)
    PROVE  OutboxInv'
PROOF
<1>1. PICK e \in rest[d] : /\ rest' = [rest EXCEPT ![d] = @ \ {e}]
                           /\ handled' = EffectOf(d, e)
                           /\ added' = [added EXCEPT ![d] = @ \union {e}]
  BY DEF HandleRow
<1>2. faults' \in 0..MaxFaults
  BY DEF HandleRow, OutboxInv, TypeOK
<1> QED BY <1>1, <1>2, RowKeeps DEF HandleRow, useCaseVars

LEMMA HandlerRaisesKeeps ==
    ASSUME OutboxInv, NEW d \in Dispatchers, HandlerRaises(d)
    PROVE  OutboxInv'
PROOF
<1>1. PICK e \in rest[d] : /\ rest' = [rest EXCEPT ![d] = @ \ {e}]
                           /\ handled' \in {handled, EffectOf(d, e)}
                           /\ added' = added
  BY DEF HandlerRaises, AfterRaise
<1>2. faults' \in 0..MaxFaults
  BY DEF HandlerRaises, OutboxInv, TypeOK
<1> QED BY <1>1, <1>2, RowKeeps DEF HandlerRaises, useCaseVars

LEMMA CommitKeeps ==
    ASSUME OutboxInv, NEW d \in Dispatchers, Commit(d)
    PROVE  OutboxInv'
PROOF
<1> USE DEF OutboxInv, Commit, useCaseVars, Released, Inserted
<1>1. TypeOK'
  <2>1. deliveries' \subseteq Events \X Consumers
    BY ConsumerType DEF TypeOK
  <2>2. turn' \in [Dispatchers -> Nat] /\ \A x \in Dispatchers : turn'[x] \in DOMAIN RouteOf[x]
    BY TurnStays DEF TypeOK
  <2>3. /\ stage' \in [Dispatchers -> {"idle", "locking", "handling"}]
        /\ rest' \in [Dispatchers -> SUBSET Events]
        /\ batch' \in [Dispatchers -> SUBSET Events]
        /\ added' \in [Dispatchers -> SUBSET Events]
    BY DEF TypeOK
  <2>4. \A x \in Dispatchers : added'[x] \subseteq batch'[x]
    BY DEF TypeOK
  <2>5. \A x \in Dispatchers :
          stage'[x] = "idle" => rest'[x] = {} /\ batch'[x] = {} /\ added'[x] = {}
    BY DEF TypeOK
  <2> QED BY <2>1, <2>2, <2>3, <2>4, <2>5 DEF TypeOK
<1>2. UseCasesWhole'
  BY DEF UseCasesWhole
<1>3. RowsAreStored'
  BY DEF TypeOK, RowsAreStored
<1>4. AddedWasHandled'
  BY DEF TypeOK, AddedWasHandled, ConsumerOf, Acts
<1>5. NothingFromFailedUseCases'
  BY DEF NothingFromFailedUseCases, EventsOf
<1>6. (Mute = {} => DeliveredWasHandled)'
  BY ConsumerType DEF TypeOK, DeliveredWasHandled, AddedWasHandled, Acts
<1> QED BY <1>1, <1>2, <1>3, <1>4, <1>5, <1>6

LEMMA StartsOverKeeps ==
    ASSUME OutboxInv, NEW d \in Dispatchers, StartsOver(d), faults' \in 0..MaxFaults
    PROVE  OutboxInv'
PROOF
<1> USE DEF OutboxInv, StartsOver, useCaseVars, Released
<1>1. TypeOK'
  BY TurnStays DEF TypeOK
<1>2. UseCasesWhole'
  BY DEF UseCasesWhole
<1>3. RowsAreStored'
  BY DEF TypeOK, RowsAreStored
<1>4. AddedWasHandled'
  BY DEF TypeOK, AddedWasHandled, ConsumerOf, Acts
<1>5. NothingFromFailedUseCases'
  BY DEF NothingFromFailedUseCases, EventsOf
<1>6. (Mute = {} => DeliveredWasHandled)'
  BY DEF DeliveredWasHandled
<1> QED BY <1>1, <1>2, <1>3, <1>4, <1>5, <1>6

LEMMA StepKeeps == OutboxInv /\ [Next]_vars => OutboxInv'
PROOF
<1> SUFFICES ASSUME OutboxInv, [Next]_vars PROVE OutboxInv'
  OBVIOUS
<1>1. CASE \E e \in Events : Publish(e)
  BY <1>1, PublishKeeps
<1>2. CASE \E u \in UseCases, outcome \in {"stored", "undone"} : EndUseCase(u, outcome)
  BY <1>2, EndUseCaseKeeps
<1>0. faults \in 0..MaxFaults /\ MaxFaults \in Nat
  BY OutboxAssumption DEF OutboxInv, TypeOK
<1>3. ASSUME NEW d \in Dispatchers, Dispatch(d) PROVE OutboxInv'
  <2>1. CASE Begin(d)
    BY <2>1, BeginKeeps
  <2>2. CASE LockRow(d)
    BY <2>2, LockRowKeeps
  <2>3. CASE Fetch(d)
    BY <2>3, FetchKeeps
  <2>4. CASE HandleRow(d)
    BY <2>4, HandleRowKeeps
  <2>5. CASE Commit(d)
    BY <2>5, CommitKeeps
  <2>6. CASE CommitFails(d)
    BY <1>0, <2>6, StartsOverKeeps DEF CommitFails
  <2>7. CASE HandlerRaises(d)
    BY <2>7, HandlerRaisesKeeps
  <2>8. CASE Interrupted(d)
    <3>1. faults < MaxFaults /\ faults' = faults + 1 /\ StartsOver(d)
      BY <2>8 DEF Interrupted
    <3>2. faults' \in 0..MaxFaults
      BY <1>0, <3>1
    <3> QED BY <3>1, <3>2, StartsOverKeeps
  <2> QED BY <1>3, <2>1, <2>2, <2>3, <2>4, <2>5, <2>6, <2>7, <2>8
          DEF Dispatch, Continue
<1>4. CASE UNCHANGED vars
  <2> USE <1>4 DEF OutboxInv, vars, dispatchVars
  <2>1. TypeOK' BY DEF TypeOK
  <2>2. UseCasesWhole' BY DEF UseCasesWhole
  <2>3. RowsAreStored' BY DEF RowsAreStored
  <2>4. AddedWasHandled' BY DEF AddedWasHandled, ConsumerOf, Acts
  <2>5. NothingFromFailedUseCases' BY DEF NothingFromFailedUseCases, EventsOf
  <2>6. (Mute = {} => DeliveredWasHandled)' BY DEF DeliveredWasHandled
  <2> QED BY <2>1, <2>2, <2>3, <2>4, <2>5, <2>6
<1> QED BY <1>1, <1>2, <1>3, <1>4 DEF Next

(* The inductive invariant holds in every reachable state of the outbox.   *)
THEOREM OutboxCorrect == Spec => []OutboxInv
PROOF
<1>1. Init => OutboxInv BY InitOutboxInv
<1>2. OutboxInv /\ [Next]_vars => OutboxInv' BY StepKeeps
<1> QED BY <1>1, <1>2, PTL DEF Spec

(* Every variable keeps its type, and a dispatcher without a transaction   *)
(* holds no locks.                                                         *)
THEOREM OutboxTypeCorrect == Spec => []TypeOK
PROOF
<1>1. OutboxInv => TypeOK BY DEF OutboxInv
<1> QED BY <1>1, OutboxCorrect, PTL

(* No consumer ever acts on an event of a use case that failed or may      *)
(* still fail, however transactions and dispatchers interleave.            *)
THEOREM EffectsSound == Spec => []NothingFromFailedUseCases
PROOF
<1>1. OutboxInv => NothingFromFailedUseCases BY DEF OutboxInv
<1> QED BY <1>1, OutboxCorrect, PTL

(* Without CLI processes no event is written off for a consumer that has   *)
(* not acted on it either, whatever crashes, raises or loses a race.       *)
THEOREM HandlingIsSound ==
    ASSUME Mute = {}
    PROVE  Spec => []HandlingSound
PROOF
<1>1. OutboxInv => HandlingSound BY DEF OutboxInv, HandlingSound
<1> QED BY <1>1, OutboxCorrect, PTL

-----------------------------------------------------------------------------
(* Repetitions.  A consumer acts again on an event only after a fault or   *)
(* after a transaction that lost a race for some event, which it then      *)
(* never sees undelivered again.  Who has lost which race, and who has won *)
(* it, is not in the state: the invariant says that there are sets lost,   *)
(* and won, that account for what has been handled.                        *)

Exclusive ==
    \A d, x \in Dispatchers : d # x => batch[d] \cap batch[x] = {}

OnceInBatch ==
    \A d \in Dispatchers :
        /\ stage[d] = "locking" => added[d] = {}
        /\ rest[d] \cap added[d] = {}

Pending(e, c) == \E d \in Dispatchers : ConsumerOf(d) = c /\ e \in added[d]

Tally(b) == IF b THEN 1 ELSE 0

Lists == [Consumers -> SUBSET (Dispatchers \X Events)]
Winners == [Events \X Consumers -> Dispatchers]

LostWere(lost, won) ==
    \A c \in Consumers, d \in Dispatchers, f \in Events :
        <<d, f>> \in lost[c] => <<f, c>> \in deliveries /\ won[<<f, c>>] # d

(* What a transaction has seen and somebody has delivered meanwhile was    *)
(* won by another, and is not among the races it has lost.                 *)
WillLose(lost, won) ==
    \A d \in Dispatchers : \A f \in rest[d] \cup batch[d] :
        <<f, ConsumerOf(d)>> \in deliveries =>
            won[<<f, ConsumerOf(d)>>] # d /\ <<d, f>> \notin lost[ConsumerOf(d)]

Accounted(lost) ==
    \A e \in Events, c \in Consumers :
        handled[<<e, c>>] <= faults + Cardinality(lost[c])
                             + Tally(<<e, c>> \in deliveries) + Tally(Pending(e, c))

Races(lost, won) == LostWere(lost, won) /\ WillLose(lost, won) /\ Accounted(lost)

RepeatsInv ==
    /\ Exclusive /\ OnceInBatch
    /\ \E lost \in Lists, won \in Winners : Races(lost, won)

(* Pairs that leave out one for each of the E: at most |E| * (|D| - 1).    *)
LEMMA LosersAreFewer ==
    ASSUME NEW D, NEW E, IsFiniteSet(D), IsFiniteSet(E), NEW w \in [E -> D],
           NEW L \in SUBSET (D \X E), \A e \in E : <<w[e], e>> \notin L
    PROVE  /\ IsFiniteSet(L)
           /\ Cardinality(L) <= Cardinality(E) * (Cardinality(D) - 1)
<1> DEFINE W == {<<w[e], e>> : e \in E}
           f == [e \in E |-> <<w[e], e>>]
<1>1. IsFiniteSet(W) /\ Cardinality(W) = Cardinality(E)
  <2>0. f \in [E -> W] /\ (\A e \in E : f[e] = <<w[e], e>>) /\ \A x \in W : \E e \in E : f[e] = x
      OBVIOUS
  <2> HIDE DEF f
  <2>1. f \in Bijection(E, W)
      BY <2>0 DEF Bijection, Injection, Surjection, IsInjective
  <2>2. ExistsBijection(E, W)
      BY <2>1 DEF ExistsBijection
  <2> QED
      BY <2>2, FS_Bijection
<1> DEFINE P == D \X E
<1>2. W \subseteq P /\ L \subseteq P \ W /\ P \cap W = W
    OBVIOUS
<1>3. IsFiniteSet(P) /\ Cardinality(P) = Cardinality(D) * Cardinality(E)
    BY FS_Product
<1> HIDE DEF P, W
<1>4. /\ IsFiniteSet(P \ W)
      /\ Cardinality(P \ W) = Cardinality(D) * Cardinality(E) - Cardinality(E)
  <2>1. IsFiniteSet(P \ W) /\ Cardinality(P \ W) = Cardinality(P) - Cardinality(P \cap W)
      BY <1>3, FS_Difference
  <2> QED
      BY <1>1, <1>2, <1>3, <2>1
<1>5. IsFiniteSet(L) /\ Cardinality(L) <= Cardinality(P \ W)
    BY <1>2, <1>4, FS_Subset
<1>6. Cardinality(D) \in Nat /\ Cardinality(E) \in Nat /\ Cardinality(L) \in Nat
    BY <1>5, FS_CardinalityType
<1>7. \A m, n \in Nat : m * n - n = n * (m - 1)
    OBVIOUS
<1> QED
    BY <1>4, <1>5, <1>6, <1>7

LEMMA EventsAreFinite == IsFiniteSet(Events) /\ Cardinality(Events) = EventCount
<1>1. EventCount \in Nat /\ 1 \in Int /\ EventCount \in Int
    OBVIOUS
<1>2. IsFiniteSet(1 .. EventCount) /\ Cardinality(1 .. EventCount) = IF 1 > EventCount THEN 0 ELSE EventCount - 1 + 1
    BY <1>1, FS_Interval
<1> QED
    BY <1>1, <1>2

LEMMA ListsAreFinite ==
    ASSUME NEW lost \in Lists, NEW c \in Consumers
    PROVE  IsFiniteSet(lost[c]) /\ Cardinality(lost[c]) \in Nat
<1>1. IsFiniteSet(Dispatchers \X Events)
    BY EventsAreFinite, FS_Product
<1>2. lost[c] \subseteq Dispatchers \X Events
    BY DEF Lists
<1> QED
    BY <1>1, <1>2, FS_Subset, FS_CardinalityType

(* The bound, once the races are accounted for.                            *)
LEMMA RacesBound ==
    ASSUME OutboxInv, RepeatsInv
    PROVE  RepeatsBounded
<1> SUFFICES ASSUME NEW e \in Events, NEW c \in Consumers
             PROVE  handled[<<e, c>>] <= 1 + faults + EventCount * (Cardinality(Dispatchers) - 1)
    BY DEF RepeatsBounded
<1>1. PICK lost \in Lists, won \in Winners : Races(lost, won)
    BY DEF RepeatsInv
<1> DEFINE w == [f \in Events |-> won[<<f, c>>]]
           n == EventCount * (Cardinality(Dispatchers) - 1)
<1>2. w \in [Events -> Dispatchers]
    BY DEF Winners
<1>3. IsFiniteSet(Dispatchers) /\ IsFiniteSet(Events) /\ Cardinality(Events) = EventCount
    BY EventsAreFinite
<1>4. lost[c] \in SUBSET (Dispatchers \X Events) /\ Cardinality(lost[c]) \in Nat /\ IsFiniteSet(lost[c])
    BY ListsAreFinite DEF Lists
<1>5. \A f \in Events : <<w[f], f>> \notin lost[c]
    BY <1>1, <1>2 DEF Races, LostWere
<1>6. Cardinality(lost[c]) <= n
    BY <1>2, <1>3, <1>4, <1>5, LosersAreFewer
<1>7. handled[<<e, c>>] \in Nat /\ faults \in Nat
    BY DEF OutboxInv, TypeOK
<1>8. Cardinality(Dispatchers) \in Nat /\ n \in Int
    BY <1>3, FS_CardinalityType
<1>9. handled[<<e, c>>] <= faults + Cardinality(lost[c])
                           + Tally(<<e, c>> \in deliveries) + Tally(Pending(e, c))
    BY <1>1 DEF Races, Accounted
<1>10. CASE <<e, c>> \in deliveries /\ Pending(e, c)
  <2>1. PICK d \in Dispatchers : ConsumerOf(d) = c /\ e \in added[d]
      BY <1>10 DEF Pending
  <2>2. e \in batch[d]
      BY <2>1 DEF OutboxInv, TypeOK
  <2>3. w[e] # d /\ <<d, e>> \notin lost[c]
      BY <1>1, <1>10, <2>1, <2>2 DEF Races, WillLose
  <2> DEFINE L == lost[c] \cup {<<d, e>>}
  <2>4. L \in SUBSET (Dispatchers \X Events)
      BY <1>4
  <2>5. \A f \in Events : <<w[f], f>> \notin L
      BY <1>5, <2>3
  <2>6. Cardinality(L) = Cardinality(lost[c]) + 1
      BY <1>4, <2>3, FS_AddElement
  <2> HIDE DEF L, w
  <2>7. Cardinality(L) <= n
      BY <1>2, <1>3, <2>4, <2>5, LosersAreFewer
  <2> HIDE DEF n
  <2>8. Tally(<<e, c>> \in deliveries) + Tally(Pending(e, c)) = 2
      BY <1>10 DEF Tally
  <2>9. Tally(<<e, c>> \in deliveries) \in Nat /\ Tally(Pending(e, c)) \in Nat
      BY DEF Tally
  <2>10. handled[<<e, c>>] <= faults + n + 1
      BY <1>4, <1>7, <1>8, <1>9, <2>6, <2>7, <2>8, <2>9
  <2> QED
      BY <1>7, <1>8, <2>10 DEF n
<1>11. CASE ~ (<<e, c>> \in deliveries /\ Pending(e, c))
  <2> HIDE DEF n, w
  <2>1. Tally(<<e, c>> \in deliveries) + Tally(Pending(e, c)) <= 1
      BY <1>11 DEF Tally
  <2>2. Tally(<<e, c>> \in deliveries) \in Nat /\ Tally(Pending(e, c)) \in Nat
      BY DEF Tally
  <2>3. handled[<<e, c>>] <= faults + n + 1
      BY <1>4, <1>6, <1>7, <1>8, <1>9, <2>1, <2>2
  <2> QED
      BY <1>7, <1>8, <2>3 DEF n
<1> QED
    BY <1>10, <1>11

(* The steps.                                                              *)
RacesOn == \E lost \in Lists, won \in Winners : Races(lost, won)

(* A step that hands nothing over and delivers nothing, and after which no *)
(* transaction refers to rows it has not seen undelivered.                 *)
LEMMA RacesGoOn ==
    ASSUME OutboxInv, RepeatsInv, UNCHANGED <<deliveries, handled, turn, added, faults>>,
           \A d \in Dispatchers : \A f \in rest'[d] \cup batch'[d] :
               \/ f \in rest[d] \cup batch[d]
               \/ <<f, ConsumerOf(d)>> \notin deliveries
    PROVE  RacesOn'
<1>1. PICK lost \in Lists, won \in Winners : Races(lost, won)
    BY DEF RepeatsInv
<1>2. \A d \in Dispatchers : ConsumerOf(d)' = ConsumerOf(d)
    BY DEF ConsumerOf
<1>3. LostWere(lost, won)'
    BY <1>1 DEF Races, LostWere
<1>4. WillLose(lost, won)'
    BY <1>1, <1>2 DEF Races, WillLose
<1>5. Accounted(lost)'
  <2>1. \A e \in Events, c \in Consumers : Pending(e, c)' <=> Pending(e, c)
      BY <1>2 DEF Pending
  <2> QED
      BY <1>1, <2>1 DEF Races, Accounted, Tally
<1> QED
    BY <1>1, <1>3, <1>4, <1>5 DEF Races, RacesOn

LEMMA UseCaseRepeats ==
    ASSUME OutboxInv, RepeatsInv, UNCHANGED <<deliveries, dispatchVars, handled, faults>>
    PROVE  RepeatsInv'
<1>1. Exclusive' /\ OnceInBatch'
    BY DEF RepeatsInv, Exclusive, OnceInBatch, dispatchVars
<1>2. RacesOn'
    BY RacesGoOn DEF dispatchVars
<1> QED
    BY <1>1, <1>2 DEF RepeatsInv, RacesOn

LEMMA BeginRepeats ==
    ASSUME OutboxInv, RepeatsInv, NEW d \in Dispatchers, Begin(d)
    PROVE  RepeatsInv'
<1>1. Exclusive' /\ OnceInBatch'
    BY DEF RepeatsInv, Exclusive, OnceInBatch, Begin, OutboxInv, TypeOK
<1>2. RacesOn'
    BY RacesGoOn DEF Begin, Undelivered, OutboxInv, TypeOK
<1> QED
    BY <1>1, <1>2 DEF RepeatsInv, RacesOn

LEMMA LockRowRepeats ==
    ASSUME OutboxInv, RepeatsInv, NEW d \in Dispatchers, LockRow(d)
    PROVE  RepeatsInv'
<1>1. PICK e \in rest[d] : /\ rest' = [rest EXCEPT ![d] = @ \ {e}]
                           /\ batch' = IF LockedByOther(d, e) THEN batch ELSE [batch EXCEPT ![d] = @ \cup {e}]
    BY DEF LockRow
<1>2. UNCHANGED <<deliveries, turn, stage, added, handled, faults>>
    BY DEF LockRow
<1>3. Exclusive'
    BY <1>1 DEF RepeatsInv, Exclusive, LockedByOther, OutboxInv, TypeOK
<1>4. OnceInBatch'
    BY <1>1, <1>2 DEF RepeatsInv, OnceInBatch, OutboxInv, TypeOK
<1>5. \A x \in Dispatchers : rest'[x] \cup batch'[x] \subseteq rest[x] \cup batch[x]
    BY <1>1 DEF OutboxInv, TypeOK
<1>6. RacesOn'
    BY <1>2, <1>5, RacesGoOn
<1> QED
    BY <1>3, <1>4, <1>6 DEF RepeatsInv, RacesOn

LEMMA FetchRepeats ==
    ASSUME OutboxInv, RepeatsInv, NEW d \in Dispatchers, Fetch(d)
    PROVE  RepeatsInv'
<1>1. Exclusive' /\ OnceInBatch'
    BY DEF RepeatsInv, Exclusive, OnceInBatch, Fetch, OutboxInv, TypeOK
<1>2. \A x \in Dispatchers : rest'[x] \cup batch'[x] \subseteq rest[x] \cup batch[x]
    BY DEF Fetch, OutboxInv, TypeOK
<1>3. RacesOn'
    BY <1>2, RacesGoOn DEF Fetch
<1> QED
    BY <1>1, <1>3 DEF RepeatsInv, RacesOn

(* A row goes through its handler: one more time for its consumer, and it  *)
(* is pending afterwards, or there was a fault.                            *)
LEMMA RowRepeats ==
    ASSUME OutboxInv, RepeatsInv, NEW d \in Dispatchers, NEW e \in rest[d],
           stage[d] = "handling",
           rest' = [rest EXCEPT ![d] = @ \ {e}],
           handled' \in {handled, EffectOf(d, e)},
           \/ added' = [added EXCEPT ![d] = @ \cup {e}] /\ faults' = faults
           \/ added' = added /\ faults' = faults + 1,
           UNCHANGED <<deliveries, turn, stage, batch>>
    PROVE  RepeatsInv'
<1>1. PICK lost \in Lists, won \in Winners : Races(lost, won)
    BY DEF RepeatsInv
<1>2. PICK k \in Consumers : k = ConsumerOf(d)
    BY ConsumerType DEF OutboxInv
<1>3. e \in Events /\ e \in batch[d]
    BY DEF OutboxInv, TypeOK, AddedWasHandled
<1>4. \A x \in Dispatchers : ConsumerOf(x)' = ConsumerOf(x)
    BY DEF ConsumerOf
<1>4a. \A x \in Dispatchers : added'[x] \in {added[x], added[x] \cup {e}} /\ (x # d => added'[x] = added[x])
  <2>1. added \in [Dispatchers -> SUBSET Events]
      BY DEF OutboxInv, TypeOK
  <2>2. CASE added' = added
      BY <2>2
  <2>3. CASE added' = [added EXCEPT ![d] = @ \cup {e}]
      BY <2>1, <2>3
  <2> QED
      BY <2>2, <2>3
<1>5. Exclusive'
    BY DEF RepeatsInv, Exclusive
<1>6. OnceInBatch'
  <2>1. \A x \in Dispatchers : rest'[x] = IF x = d THEN rest[d] \ {e} ELSE rest[x]
      BY DEF OutboxInv, TypeOK
  <2> QED
      BY <1>4a, <2>1 DEF RepeatsInv, OnceInBatch
<1>7. ~ Pending(e, k)
  <2> SUFFICES ASSUME NEW x \in Dispatchers, e \in added[x] PROVE FALSE
      BY DEF Pending
  <2>1. e \in batch[x]
      BY DEF OutboxInv, TypeOK
  <2>2. x = d
      BY <1>3, <2>1 DEF RepeatsInv, Exclusive
  <2> QED
      BY <2>2 DEF RepeatsInv, OnceInBatch
<1>8. LostWere(lost, won)'
    BY <1>1 DEF Races, LostWere
<1>9. WillLose(lost, won)'
  <2>1. \A x \in Dispatchers : rest'[x] \subseteq rest[x]
      BY DEF OutboxInv, TypeOK
  <2> QED
      BY <1>1, <1>4, <2>1 DEF Races, WillLose
<1>10. Accounted(lost)'
  <2> SUFFICES ASSUME NEW f \in Events, NEW c \in Consumers
               PROVE  handled'[<<f, c>>] <= faults' + Cardinality(lost[c])
                             + Tally(<<f, c>> \in deliveries) + Tally(Pending(f, c)')
      BY DEF Accounted, Tally
  <2>1. handled[<<f, c>>] <= faults + Cardinality(lost[c])
                             + Tally(<<f, c>> \in deliveries) + Tally(Pending(f, c))
      BY <1>1 DEF Races, Accounted
  <2>2. /\ handled[<<f, c>>] \in Nat /\ faults \in Nat /\ Cardinality(lost[c]) \in Nat
        /\ Tally(<<f, c>> \in deliveries) \in {0, 1}
      BY ListsAreFinite DEF OutboxInv, TypeOK, Tally
  <2>3. \A x \in Dispatchers : added[x] \subseteq added'[x]
      BY <1>4a
  <2>4. Pending(f, c) => Pending(f, c)'
      BY <1>4, <2>3 DEF Pending
  <2>5. CASE handled'[<<f, c>>] = handled[<<f, c>>]
    <3>1. faults' \in Nat /\ faults' >= faults
        BY <2>2
    <3> QED
        BY <2>1, <2>2, <2>4, <2>5, <3>1 DEF Tally
  <2>6. CASE handled'[<<f, c>>] # handled[<<f, c>>]
    <3>1. f = e /\ c = k /\ handled'[<<f, c>>] = handled[<<f, c>>] + 1
      <4>1. handled \in [Events \X Consumers -> Nat]
          BY DEF OutboxInv, TypeOK
      <4>2. handled' = [handled EXCEPT ![<<e, k>>] = @ + 1]
          BY <1>2, <2>6 DEF EffectOf
      <4> QED
          BY <1>3, <2>6, <4>1, <4>2
    <3>2. CASE added' = [added EXCEPT ![d] = @ \cup {e}] /\ faults' = faults
      <4>1. e \in added'[d]
          BY <3>2 DEF OutboxInv, TypeOK
      <4>2. Pending(f, c)'
          BY <1>2, <1>4, <3>1, <4>1 DEF Pending
      <4> QED
          BY <1>7, <2>1, <2>2, <3>1, <3>2, <4>2 DEF Tally
    <3>3. CASE added' = added /\ faults' = faults + 1
        BY <1>7, <2>1, <2>2, <3>1, <3>3 DEF Tally
    <3> QED
        BY <3>2, <3>3
  <2> QED
      BY <2>5, <2>6
<1>11. RacesOn'
    BY <1>8, <1>9, <1>10 DEF Races, RacesOn
<1> QED
    BY <1>5, <1>6, <1>11 DEF RepeatsInv, RacesOn

LEMMA HandleRowRepeats ==
    ASSUME OutboxInv, RepeatsInv, NEW d \in Dispatchers, HandleRow(d)
    PROVE  RepeatsInv'
BY RowRepeats DEF HandleRow, useCaseVars

LEMMA HandlerRaisesRepeats ==
    ASSUME OutboxInv, RepeatsInv, NEW d \in Dispatchers, HandlerRaises(d)
    PROVE  RepeatsInv'
BY RowRepeats DEF HandlerRaises, AfterRaise, useCaseVars

(* The transaction is over: the rows of its batch are free again.          *)
LEMMA ReleasedRows ==
    ASSUME OutboxInv, RepeatsInv, NEW d \in Dispatchers, Released(d),
           \A x \in Dispatchers \ {d} : turn'[x] = turn[x]
    PROVE  /\ Exclusive' /\ OnceInBatch'
           /\ rest'[d] = {} /\ batch'[d] = {} /\ added'[d] = {}
           /\ \A x \in Dispatchers \ {d} :
                 /\ rest'[x] = rest[x] /\ batch'[x] = batch[x] /\ added'[x] = added[x]
                 /\ ConsumerOf(x)' = ConsumerOf(x)
           /\ \A e \in Events, c \in Consumers :
                 ~ (c = ConsumerOf(d) /\ e \in added[d]) => (Pending(e, c)' <=> Pending(e, c))
<1>1. /\ rest'[d] = {} /\ batch'[d] = {} /\ added'[d] = {} /\ stage'[d] = "idle"
      /\ \A x \in Dispatchers \ {d} :
            /\ rest'[x] = rest[x] /\ batch'[x] = batch[x] /\ added'[x] = added[x]
            /\ stage'[x] = stage[x] /\ ConsumerOf(x)' = ConsumerOf(x)
    BY DEF Released, OutboxInv, TypeOK, ConsumerOf
<1>2. Exclusive' /\ OnceInBatch'
    BY <1>1 DEF RepeatsInv, Exclusive, OnceInBatch
<1>3. ASSUME NEW e \in Events, NEW c \in Consumers, ~ (c = ConsumerOf(d) /\ e \in added[d])
      PROVE  Pending(e, c)' <=> Pending(e, c)
    BY <1>1, <1>3 DEF Pending
<1> QED
    BY <1>1, <1>2, <1>3

(* What a commit inserts, nobody had delivered: the dispatcher has won     *)
(* these races, and whoever holds one of the rows is going to lose.        *)
LEMMA CommitRepeats ==
    ASSUME OutboxInv, RepeatsInv, NEW d \in Dispatchers, Commit(d)
    PROVE  RepeatsInv'
<1>1. PICK lost \in Lists, won \in Winners : Races(lost, won)
    BY DEF RepeatsInv
<1>2. PICK k \in Consumers : k = ConsumerOf(d)
    BY ConsumerType DEF OutboxInv
<1>3. /\ deliveries' = deliveries \cup (added[d] \X {k}) /\ (added[d] \X {k}) \cap deliveries = {}
      /\ Released(d) /\ UNCHANGED <<handled, faults>>
    BY <1>2 DEF Commit, Conflicts, Inserted
<1>4. /\ \A x \in Dispatchers \ {d} : turn'[x] = turn[x]
      /\ added[d] \subseteq Events
    BY DEF Commit, OutboxInv, TypeOK
<1>5. /\ Exclusive' /\ OnceInBatch'
      /\ rest'[d] = {} /\ batch'[d] = {} /\ added'[d] = {}
      /\ \A x \in Dispatchers \ {d} :
            /\ rest'[x] = rest[x] /\ batch'[x] = batch[x] /\ ConsumerOf(x)' = ConsumerOf(x)
      /\ \A e \in Events, c \in Consumers :
            ~ (c = k /\ e \in added[d]) => (Pending(e, c)' <=> Pending(e, c))
    BY <1>2, <1>3, <1>4, ReleasedRows
<1>6. PICK wins \in Winners : wins = [x \in Events \X Consumers |-> IF x \in added[d] \X {k} THEN d ELSE won[x]]
    BY DEF Winners
<1>7. \A e \in Events, c \in Consumers :
          /\ <<e, c>> \in deliveries => wins[<<e, c>>] = won[<<e, c>>]
          /\ <<e, c>> \in deliveries' => <<e, c>> \in deliveries \/ wins[<<e, c>>] = d
    BY <1>3, <1>6
<1>8. LostWere(lost, wins)'
  <2> SUFFICES ASSUME NEW c \in Consumers, NEW x \in Dispatchers, NEW f \in Events, <<x, f>> \in lost[c]
               PROVE  <<f, c>> \in deliveries' /\ wins[<<f, c>>] # x
      BY DEF LostWere
  <2>1. <<f, c>> \in deliveries /\ won[<<f, c>>] # x
      BY <1>1 DEF Races, LostWere
  <2> QED
      BY <1>3, <1>7, <2>1
<1>9. WillLose(lost, wins)'
  <2> SUFFICES ASSUME NEW x \in Dispatchers, NEW f \in rest'[x] \cup batch'[x],
                      <<f, ConsumerOf(x)'>> \in deliveries'
               PROVE  wins[<<f, ConsumerOf(x)'>>] # x /\ <<x, f>> \notin lost[ConsumerOf(x)']
      BY DEF WillLose
  <2>1. x # d /\ f \in rest[x] \cup batch[x]
      BY <1>5
  <2>2. PICK c \in Consumers : c = ConsumerOf(x) /\ c = ConsumerOf(x)'
      BY <1>5, <2>1, ConsumerType DEF OutboxInv
  <2>3. f \in Events
      BY <2>1 DEF OutboxInv, TypeOK
  <2>4. CASE <<f, c>> \in deliveries
    <3>1. won[<<f, c>>] # x /\ <<x, f>> \notin lost[c]
        BY <1>1, <2>1, <2>2, <2>4 DEF Races, WillLose
    <3>2. wins[<<f, c>>] = won[<<f, c>>]
        BY <1>7, <2>3, <2>4
    <3> QED
        BY <2>2, <3>1, <3>2
  <2>5. CASE <<f, c>> \notin deliveries
    <3>1. wins[<<f, c>>] = d
        BY <1>7, <2>2, <2>3, <2>5
    <3>2. <<x, f>> \notin lost[c]
        BY <1>1, <2>3, <2>5 DEF Races, LostWere
    <3> QED
        BY <2>1, <2>2, <3>1, <3>2
  <2> QED
      BY <2>4, <2>5
<1>10. Accounted(lost)'
  <2> SUFFICES ASSUME NEW f \in Events, NEW c \in Consumers
               PROVE  handled[<<f, c>>] <= faults + Cardinality(lost[c])
                             + Tally(<<f, c>> \in deliveries') + Tally(Pending(f, c)')
      BY <1>3 DEF Accounted, Tally
  <2>1. handled[<<f, c>>] <= faults + Cardinality(lost[c])
                             + Tally(<<f, c>> \in deliveries) + Tally(Pending(f, c))
      BY <1>1 DEF Races, Accounted
  <2>2. handled[<<f, c>>] \in Nat /\ faults \in Nat /\ Cardinality(lost[c]) \in Nat
      BY ListsAreFinite DEF OutboxInv, TypeOK
  <2>3. CASE c = k /\ f \in added[d]
    <3>1. <<f, c>> \in deliveries' /\ <<f, c>> \notin deliveries
        BY <1>3, <2>3
    <3>2. Tally(<<f, c>> \in deliveries') = 1 /\ Tally(<<f, c>> \in deliveries) = 0
        BY <3>1 DEF Tally
    <3>3. Tally(Pending(f, c)) \in {0, 1} /\ Tally(Pending(f, c)') \in {0, 1}
        BY DEF Tally
    <3> QED
        BY <2>1, <2>2, <3>2, <3>3
  <2>4. CASE ~ (c = k /\ f \in added[d])
    <3>1. <<f, c>> \in deliveries' <=> <<f, c>> \in deliveries
        BY <1>3, <2>4
    <3>2. Pending(f, c)' <=> Pending(f, c)
        BY <1>5, <2>4
    <3> QED
        BY <2>1, <3>1, <3>2 DEF Tally
  <2> QED
      BY <2>3, <2>4
<1>11. RacesOn'
    BY <1>6, <1>8, <1>9, <1>10 DEF Races, RacesOn
<1> QED
    BY <1>5, <1>11 DEF RepeatsInv, RacesOn

(* A commit that fails has lost the race for one of its rows, and a        *)
(* transaction that breaks off is a fault.                                 *)
LEMMA StartsOverRepeats ==
    ASSUME OutboxInv, RepeatsInv, NEW d \in Dispatchers, StartsOver(d),
           NEW lost \in Lists, NEW won \in Winners, Races(lost, won), NEW more \in Lists,
           LostWere(more, won),
           \A x \in Dispatchers \ {d}, c \in Consumers, f \in Events :
               <<x, f>> \in more[c] => <<x, f>> \in lost[c],
           faults' \in Nat,
           \A c \in Consumers : faults' + Cardinality(more[c]) >= faults + Cardinality(lost[c]),
           faults' + Cardinality(more[ConsumerOf(d)]) >= faults + Cardinality(lost[ConsumerOf(d)]) + 1
    PROVE  RepeatsInv'
<1>1. Released(d) /\ UNCHANGED <<deliveries, handled>>
    BY DEF StartsOver
<1>2. PICK k \in Consumers : k = ConsumerOf(d)
    BY ConsumerType DEF OutboxInv
<1>3. \A x \in Dispatchers \ {d} : turn'[x] = turn[x]
    BY DEF StartsOver, OutboxInv, TypeOK
<1>4. /\ Exclusive' /\ OnceInBatch'
      /\ rest'[d] = {} /\ batch'[d] = {} /\ added'[d] = {}
      /\ \A x \in Dispatchers \ {d} :
            /\ rest'[x] = rest[x] /\ batch'[x] = batch[x] /\ ConsumerOf(x)' = ConsumerOf(x)
      /\ \A e \in Events, c \in Consumers :
            ~ (c = k /\ e \in added[d]) => (Pending(e, c)' <=> Pending(e, c))
    BY <1>1, <1>2, <1>3, ReleasedRows
<1>5. LostWere(more, won)'
    BY <1>1 DEF LostWere
<1>6. WillLose(more, won)'
  <2> SUFFICES ASSUME NEW x \in Dispatchers, NEW f \in rest'[x] \cup batch'[x],
                      <<f, ConsumerOf(x)'>> \in deliveries
               PROVE  won[<<f, ConsumerOf(x)'>>] # x /\ <<x, f>> \notin more[ConsumerOf(x)']
      BY <1>1 DEF WillLose
  <2>1. x # d /\ f \in rest[x] \cup batch[x]
      BY <1>4
  <2>2. PICK c \in Consumers : c = ConsumerOf(x) /\ c = ConsumerOf(x)'
      BY <1>4, <2>1, ConsumerType DEF OutboxInv
  <2>3. f \in Events
      BY <2>1 DEF OutboxInv, TypeOK
  <2>4. won[<<f, c>>] # x /\ <<x, f>> \notin lost[c]
      BY <2>1, <2>2 DEF Races, WillLose
  <2> QED
      BY <2>1, <2>2, <2>3, <2>4
<1>7. Accounted(more)'
  <2> SUFFICES ASSUME NEW f \in Events, NEW c \in Consumers
               PROVE  handled[<<f, c>>] <= faults' + Cardinality(more[c])
                             + Tally(<<f, c>> \in deliveries) + Tally(Pending(f, c)')
      BY <1>1 DEF Accounted, Tally
  <2>1. handled[<<f, c>>] <= faults + Cardinality(lost[c])
                             + Tally(<<f, c>> \in deliveries) + Tally(Pending(f, c))
      BY DEF Races, Accounted
  <2>2. /\ handled[<<f, c>>] \in Nat /\ faults \in Nat
        /\ Cardinality(lost[c]) \in Nat /\ Cardinality(more[c]) \in Nat
      BY ListsAreFinite DEF OutboxInv, TypeOK
  <2>3. /\ Tally(<<f, c>> \in deliveries) \in {0, 1}
        /\ Tally(Pending(f, c)) \in {0, 1} /\ Tally(Pending(f, c)') \in {0, 1}
      BY DEF Tally
  <2>4. CASE c = k
    <3>1. faults' + Cardinality(more[c]) >= faults + Cardinality(lost[c]) + 1
        BY <1>2, <2>4
    <3> QED
        BY <2>1, <2>2, <2>3, <3>1
  <2>5. CASE c # k
    <3>1. faults' + Cardinality(more[c]) >= faults + Cardinality(lost[c])
        OBVIOUS
    <3>2. Tally(Pending(f, c)') = Tally(Pending(f, c))
        BY <1>4, <2>5 DEF Tally
    <3> QED
        BY <2>1, <2>2, <2>3, <3>1, <3>2
  <2> QED
      BY <2>4, <2>5
<1>8. RacesOn'
    BY <1>5, <1>6, <1>7 DEF Races, RacesOn
<1> QED
    BY <1>4, <1>8 DEF RepeatsInv, RacesOn

LEMMA CommitFailsRepeats ==
    ASSUME OutboxInv, RepeatsInv, NEW d \in Dispatchers, CommitFails(d)
    PROVE  RepeatsInv'
<1>1. PICK lost \in Lists, won \in Winners : Races(lost, won)
    BY DEF RepeatsInv
<1>2. PICK k \in Consumers : k = ConsumerOf(d)
    BY ConsumerType DEF OutboxInv
<1>3. PICK f \in added[d] : <<f, k>> \in deliveries
    BY <1>2 DEF CommitFails, Conflicts, Inserted
<1>4. f \in Events /\ f \in batch[d]
    BY DEF OutboxInv, TypeOK
<1>5. won[<<f, k>>] # d /\ <<d, f>> \notin lost[k]
    BY <1>1, <1>2, <1>3, <1>4 DEF Races, WillLose
<1> DEFINE more == [lost EXCEPT ![k] = @ \cup {<<d, f>>}]
<1>6. more \in Lists /\ more[k] = lost[k] \cup {<<d, f>>} /\ \A c \in Consumers \ {k} : more[c] = lost[c]
    BY <1>4 DEF Lists
<1> HIDE DEF more
<1>7. LostWere(more, won)
    BY <1>1, <1>3, <1>4, <1>5, <1>6 DEF Races, LostWere
<1>8. Cardinality(more[k]) = Cardinality(lost[k]) + 1
    BY <1>5, <1>6, ListsAreFinite, FS_AddElement
<1>9. faults' = faults /\ faults \in Nat /\ StartsOver(d)
    BY DEF CommitFails, OutboxInv, TypeOK
<1>10. \A c \in Consumers : faults' + Cardinality(more[c]) >= faults + Cardinality(lost[c])
  <2> TAKE c \in Consumers
  <2>1. Cardinality(lost[c]) \in Nat /\ Cardinality(more[c]) \in Nat
      BY <1>6, ListsAreFinite
  <2>2. CASE c = k
      BY <1>8, <1>9, <2>1, <2>2
  <2>3. CASE c # k
      BY <1>6, <1>9, <2>1, <2>3
  <2> QED
      BY <2>2, <2>3
<1>11. faults' + Cardinality(more[ConsumerOf(d)]) >= faults + Cardinality(lost[ConsumerOf(d)]) + 1
  <2>1. Cardinality(lost[k]) \in Nat
      BY ListsAreFinite
  <2> QED
      BY <1>2, <1>8, <1>9, <2>1
<1>12. \A x \in Dispatchers \ {d}, c \in Consumers, e \in Events :
           <<x, e>> \in more[c] => <<x, e>> \in lost[c]
    BY <1>6
<1> QED
    BY <1>1, <1>6, <1>7, <1>9, <1>10, <1>11, <1>12, StartsOverRepeats

LEMMA InterruptedRepeats ==
    ASSUME OutboxInv, RepeatsInv, NEW d \in Dispatchers, Interrupted(d)
    PROVE  RepeatsInv'
<1>1. PICK lost \in Lists, won \in Winners : Races(lost, won)
    BY DEF RepeatsInv
<1>2. faults' = faults + 1 /\ faults \in Nat /\ StartsOver(d)
    BY DEF Interrupted, OutboxInv, TypeOK
<1>3. ConsumerOf(d) \in Consumers
    BY ConsumerType DEF OutboxInv
<1>4. \A c \in Consumers : faults' + Cardinality(lost[c]) >= faults + Cardinality(lost[c]) + 1
    BY <1>2, ListsAreFinite
<1>5. \A c \in Consumers : faults' + Cardinality(lost[c]) >= faults + Cardinality(lost[c])
    BY <1>2, ListsAreFinite
<1>6. LostWere(lost, won)
    BY <1>1 DEF Races
<1> QED
    BY <1>1, <1>2, <1>3, <1>4, <1>5, <1>6, StartsOverRepeats

LEMMA InitRepeats == Init => RepeatsInv
<1> SUFFICES ASSUME Init PROVE RepeatsInv
    OBVIOUS
<1> DEFINE lost == [c \in Consumers |-> {}]
           won  == [x \in Events \X Consumers |-> CHOOSE d \in Dispatchers : TRUE]
<1>1. lost \in Lists
    BY DEF Lists
<1>2. won \in Winners
  <2>1. ASSUME NEW c \in Consumers PROVE \E d \in Dispatchers : TRUE
      BY <2>1 DEF Consumers
  <2> QED
      BY <2>1 DEF Winners
<1>3. Exclusive /\ OnceInBatch
    BY DEF Init, Exclusive, OnceInBatch
<1>4. Accounted(lost)
  <2>1. \A c \in Consumers : Cardinality(lost[c]) = 0
      BY FS_EmptySet
  <2>2. \A b : Tally(b) \in Nat
      BY DEF Tally
  <2> HIDE DEF lost
  <2> QED
      BY <2>1, <2>2 DEF Init, Accounted
<1>5. LostWere(lost, won) /\ WillLose(lost, won)
    BY DEF Init, LostWere, WillLose
<1> QED
    BY <1>1, <1>2, <1>3, <1>4, <1>5 DEF Races, RepeatsInv

LEMMA StepRepeats == OutboxInv /\ RepeatsInv /\ [Next]_vars => RepeatsInv'
<1> SUFFICES ASSUME OutboxInv, RepeatsInv, [Next]_vars PROVE RepeatsInv'
    OBVIOUS
<1>1. ASSUME NEW e \in Events, Publish(e) PROVE RepeatsInv'
    BY <1>1, UseCaseRepeats DEF Publish
<1>2. ASSUME NEW u \in UseCases, NEW outcome \in {"stored", "undone"}, EndUseCase(u, outcome)
      PROVE  RepeatsInv'
    BY <1>2, UseCaseRepeats DEF EndUseCase
<1>3. ASSUME NEW d \in Dispatchers, Dispatch(d) PROVE RepeatsInv'
    BY <1>3, BeginRepeats, LockRowRepeats, FetchRepeats, HandleRowRepeats, HandlerRaisesRepeats,
       CommitRepeats, CommitFailsRepeats, InterruptedRepeats DEF Dispatch, Continue
<1>4. CASE UNCHANGED vars
    BY <1>4, UseCaseRepeats DEF vars
<1> QED
    BY <1>1, <1>2, <1>3, <1>4 DEF Next

(* Besides faults, a consumer acts again on an event only for a batch that *)
(* lost a race; a dispatcher loses at most one race for each event and     *)
(* somebody wins it: for any number of dispatchers, events and faults.     *)
THEOREM RepetitionsBounded == Spec => []RepeatsBounded
<1>1. Init => OutboxInv /\ RepeatsInv
    BY InitOutboxInv, InitRepeats
<1>2. OutboxInv /\ RepeatsInv /\ [Next]_vars => (OutboxInv /\ RepeatsInv)'
    BY StepKeeps, StepRepeats
<1>3. OutboxInv /\ RepeatsInv => RepeatsBounded
    BY RacesBound
<1> QED
    BY <1>1, <1>2, <1>3, PTL DEF Spec

-----------------------------------------------------------------------------
(* The refinement.                                                         *)
Stored  == {e \in Events : event[e] = "stored"}
Acted   == {x \in Events \X Consumers : handled[x] > 0}
PromiseVars == <<Stored, Acted, deliveries>>

LEMMA PromiseInit == Init => Promise!Init
PROOF BY DEF Init, Promise!Init

LEMMA PublishPromises ==
    ASSUME TypeOK, NEW e \in Events, Publish(e)
    PROVE  UNCHANGED PromiseVars
PROOF
<1>1. event[e] = "none" /\ event' = [event EXCEPT ![e] = "open"]
  BY DEF Publish
<1>2. Stored' = Stored
  BY <1>1 DEF Stored, TypeOK
<1>3. Acted' = Acted /\ deliveries' = deliveries
  BY DEF Publish, Acted
<1> QED BY <1>2, <1>3 DEF PromiseVars

LEMMA EndUseCasePromises ==
    ASSUME TypeOK, NEW u \in UseCases, NEW outcome \in {"stored", "undone"},
           EndUseCase(u, outcome)
    PROVE  Promise!Next \/ UNCHANGED PromiseVars
PROOF
<1> DEFINE E == {e \in EventsOf(u) : event[e] = "open"}
<1>1. event' = [e \in Events |-> IF e \in E THEN outcome ELSE event[e]]
  BY DEF EndUseCase
<1>2. Acted' = Acted /\ deliveries' = deliveries
  BY DEF EndUseCase, Acted
<1>3. E \in SUBSET Events /\ E \intersect Stored = {}
  BY DEF EventsOf, Stored
<1>4. CASE outcome = "stored"
  <2>1. Stored' = Stored \union E
    <3> HIDE DEF E
    <3> QED BY <1>1, <1>3, <1>4 DEF Stored
  <2> HIDE DEF E
  <2> QED BY <1>2, <1>3, <2>1 DEF Promise!Next, Promise!Store, Stored, Acted
<1>5. CASE outcome = "undone"
  <2>1. Stored' = Stored
    BY <1>1, <1>3, <1>5 DEF Stored, TypeOK
  <2> QED BY <1>2, <2>1 DEF PromiseVars
<1> QED BY <1>4, <1>5

(* A run of a handler is an Act, or a repetition nobody can tell.          *)
LEMMA RowPromises ==
    ASSUME OutboxInv, NEW d \in Dispatchers, NEW e \in rest[d],
           handled' \in {handled, EffectOf(d, e)},
           UNCHANGED <<event, deliveries>>
    PROVE  Promise!Next \/ UNCHANGED PromiseVars
PROOF
<1> DEFINE c == ConsumerOf(d)
<1>1. TypeOK /\ e \in Stored /\ e \in Events
  BY DEF OutboxInv, TypeOK, RowsAreStored, Stored
<1>2. c \in Consumers
  BY <1>1, ConsumerType
<1>3. Stored' = Stored
  BY DEF Stored
<1>4. CASE handled' = EffectOf(d, e) /\ Acts(d)
  <2>1. /\ \A x \in Events \X Consumers : x # <<e, c>> => handled'[x] = handled[x]
        /\ handled'[<<e, c>>] > 0
    BY <1>1, <1>4, EffectCounts
  <2> HIDE DEF c
  <2>2. Acted' = Acted \union {<<e, c>>}
    <3>1. \A x \in Events \X Consumers : x \in Acted' <=> x \in Acted \/ x = <<e, c>>
      BY <2>1 DEF Acted
    <3>2. /\ Acted' \subseteq Events \X Consumers
          /\ Acted \union {<<e, c>>} \subseteq Events \X Consumers
      BY <1>1, <1>2 DEF Acted
    <3> QED BY <3>1, <3>2
  <2> QED BY <1>1, <1>2, <1>3, <2>2 DEF Promise!Next, Promise!Act, Stored, Acted
<1>5. CASE handled' = handled
  BY <1>3, <1>5 DEF PromiseVars, Acted
<1>6. CASE handled' = EffectOf(d, e) /\ ~Acts(d)
  BY <1>5, <1>6 DEF EffectOf
<1> QED BY <1>4, <1>5, <1>6

LEMMA CommitPromises ==
    ASSUME OutboxInv, Mute = {}, NEW d \in Dispatchers, Commit(d)
    PROVE  Promise!Next
PROOF
<1> DEFINE c == ConsumerOf(d)
           E == added[d]
<1>1. c \in Consumers /\ E \in SUBSET Events
  BY ConsumerType DEF OutboxInv, TypeOK
<1>2. \A e \in E : handled[<<e, c>>] > 0
  BY DEF OutboxInv, AddedWasHandled, Acts
<1>3. Stored' = Stored /\ Acted' = Acted
  BY DEF Commit, useCaseVars, Stored, Acted
<1>4. deliveries' = deliveries \union (E \X {c}) /\ (E \X {c}) \intersect deliveries = {}
  BY DEF Commit, Conflicts, Inserted
<1> HIDE DEF c, E
<1>5. E \X {c} \subseteq Acted
  <2> SUFFICES ASSUME NEW e \in E PROVE <<e, c>> \in Acted
    OBVIOUS
  <2> QED BY <1>1, <1>2 DEF Acted
<1> QED BY <1>1, <1>3, <1>4, <1>5 DEF Promise!Next, Promise!Settle, Stored, Acted

LEMMA StepPromises ==
    ASSUME OutboxInv, Mute = {}, [Next]_vars
    PROVE  Promise!Next \/ UNCHANGED PromiseVars
PROOF
<1>1. TypeOK
  BY DEF OutboxInv
<1>2. CASE \E e \in Events : Publish(e)
  BY <1>1, <1>2, PublishPromises
<1>3. CASE \E u \in UseCases, outcome \in {"stored", "undone"} : EndUseCase(u, outcome)
  BY <1>1, <1>3, EndUseCasePromises
<1>4. ASSUME NEW d \in Dispatchers, Dispatch(d)
      PROVE  Promise!Next \/ UNCHANGED PromiseVars
  <2>1. CASE Begin(d) \/ LockRow(d) \/ Fetch(d)
    BY <2>1 DEF Begin, LockRow, Fetch, useCaseVars, PromiseVars, Stored, Acted
  <2>2. CASE HandleRow(d)
    <3>1. PICK e \in rest[d] : handled' = EffectOf(d, e)
      BY <2>2 DEF HandleRow
    <3> QED BY <2>2, <3>1, RowPromises DEF HandleRow, useCaseVars
  <2>3. CASE HandlerRaises(d)
    <3>1. PICK e \in rest[d] : handled' \in {handled, EffectOf(d, e)}
      BY <2>3 DEF HandlerRaises
    <3> QED BY <2>3, <3>1, RowPromises DEF HandlerRaises, useCaseVars
  <2>4. CASE Commit(d)
    BY <2>4, CommitPromises
  <2>5. CASE CommitFails(d) \/ Interrupted(d)
    BY <2>5 DEF CommitFails, Interrupted, StartsOver, useCaseVars, PromiseVars, Stored, Acted
  <2> QED BY <1>4, <2>1, <2>2, <2>3, <2>4, <2>5 DEF Dispatch, Continue
<1>5. CASE UNCHANGED vars
  BY <1>5 DEF vars, PromiseVars, Stored, Acted
<1> QED BY <1>2, <1>3, <1>4, <1>5 DEF Next

(* The outbox implements at-least-once delivery: every step of a use case  *)
(* or of a dispatcher is one step of AtLeastOnce or none, unless a CLI     *)
(* process marks events it drops.                                          *)
THEOREM OutboxPromiseKept ==
    ASSUME Mute = {}
    PROVE  Spec => KeepsPromise
PROOF
<1>1. Init => Promise!Init
  BY PromiseInit
<1>2. OutboxInv /\ [Next]_vars => Promise!Next \/ UNCHANGED PromiseVars
  BY StepPromises
<1>3. OutboxInv /\ [Next]_vars =>
         [Promise!Next]_<<{e \in Events : event[e] = "stored"},
                          {x \in Events \X Consumers : handled[x] > 0}, deliveries>>
  BY <1>2 DEF PromiseVars, Stored, Acted
<1> QED BY <1>1, <1>3, OutboxCorrect, PTL DEF Spec, KeepsPromise, Promise!Spec
=============================================================================
