------------------------------ MODULE EventBus ------------------------------
(***************************************************************************)
(* eventbus.Bus and sse.Broker: publishers put events into a buffered      *)
(* channel, one goroutine hands each event to the queues of the            *)
(* subscribers that want it, every subscriber handles its queue in a       *)
(* goroutine of its own, and one of them, the broker, passes events on to  *)
(* the open browser connections.  No send ever blocks: what finds a buffer *)
(* full is dropped there.                                                  *)
(***************************************************************************)
EXTENDS Naturals, Sequences

CONSTANTS
  Subscribers,   \* all of them registered before the bus is started
  Broker,        \* the one of all types, which broadcasts to the browsers
  Clients,       \* browser connections
  EventTypes,
  Wanted,        \* the types each subscriber has registered for
  BufSize,       \* capacity of the channel and of each queue
  ClientBuf,     \* capacity of a connection's channel
  MaxEvents      \* bound: events accepted

ASSUME BusAssumption ==
  /\ Broker \in Subscribers
  /\ Wanted \in [Subscribers -> SUBSET EventTypes] /\ Wanted[Broker] = EventTypes
  /\ BufSize \in Nat \ {0}
  /\ ClientBuf \in Nat \ {0}
  /\ MaxEvents \in Nat

VARIABLES
  busRoom,     \* bound: how many more events this behaviour accepts
  busEvents,   \* the types of all events that found room; the index is the event's id
  busCh,       \* the channel
  busDone,     \* done is closed
  busPc,       \* the dispatcher: "route", "drain" or "exited" (with the queues closed)
  busEvent,    \* the event being routed
  busTo,       \* the subscribers it has still to be delivered to
  busQueue,    \* of each subscriber
  subCall,     \* the event each subscriber handles, 0 for none
  subExited,   \* subscribers whose goroutine has ended
  handled,     \* what each subscriber has handled, in order
  missed,      \* what each subscriber missed, its queue being full
  clOpen,      \* clients in the broker's map
  clQueue,     \* the channel of each connection
  clSeen       \* what was written to each open connection, in order

dispatchVars == <<busPc, busEvent, busTo>>
subVars == <<subCall, subExited, handled>>
clVars == <<clOpen, clQueue, clSeen>>
busVars == <<busRoom, busEvents, busCh, busDone, dispatchVars, busQueue, missed, subVars, clVars>>

Ids == 1..MaxEvents

BusTypeOK ==
  /\ busRoom \in 0..MaxEvents
  /\ busEvents \in Seq(EventTypes) /\ Len(busEvents) <= MaxEvents
  /\ busCh \in Seq(Ids) /\ Len(busCh) <= BufSize
  /\ busDone \in BOOLEAN
  /\ busPc \in {"route", "drain", "exited"}
  /\ busEvent \in Ids \cup {0}
  /\ busTo \subseteq Subscribers
  /\ busQueue \in [Subscribers -> Seq(Ids)]
  /\ \A s \in Subscribers : Len(busQueue[s]) <= BufSize
  /\ subCall \in [Subscribers -> Ids \cup {0}]
  /\ subExited \subseteq Subscribers
  /\ handled \in [Subscribers -> Seq(Ids)]
  /\ missed \in [Subscribers -> SUBSET Ids]
  /\ clOpen \subseteq Clients
  /\ clQueue \in [Clients -> Seq(Ids)]
  /\ clSeen \in [Clients -> Seq(Ids)]

BusInit ==
  /\ busRoom \in 0..MaxEvents
  /\ busEvents = <<>> /\ busCh = <<>> /\ busDone = FALSE
  /\ busPc = "route" /\ busEvent = 0 /\ busTo = {}
  /\ busQueue = [s \in Subscribers |-> <<>>]
  /\ subCall = [s \in Subscribers |-> 0] /\ subExited = {}
  /\ handled = [s \in Subscribers |-> <<>>]
  /\ missed = [s \in Subscribers |-> {}]
  /\ clOpen = {}
  /\ clQueue = [c \in Clients |-> <<>>]
  /\ clSeen = [c \in Clients |-> <<>>]

-----------------------------------------------------------------------------
\* Publish never blocks, and does not look whether the bus was stopped.  (Past the
\* bound events are dropped as if the channel were full.)
Publish(type) ==
  /\ IF Len(busCh) < BufSize /\ busRoom > 0
     THEN /\ busRoom' = busRoom - 1
          /\ busEvents' = Append(busEvents, type)
          /\ busCh' = Append(busCh, Len(busEvents) + 1)
     ELSE UNCHANGED <<busRoom, busEvents, busCh>>
  /\ UNCHANGED <<busDone, dispatchVars, busQueue, missed, subVars, clVars>>

Wants(id) == {s \in Subscribers : busEvents[id] \in Wanted[s]}

\* dispatch and drain take the next event.
Route ==
  /\ busPc \in {"route", "drain"}
  /\ busTo = {}
  /\ busCh # <<>>
  /\ busEvent' = Head(busCh)
  /\ busTo' = Wants(Head(busCh))
  /\ busCh' = Tail(busCh)
  /\ UNCHANGED <<busRoom, busEvents, busDone, busPc, busQueue, missed, subVars, clVars>>

\* route goes through the subscribers of the type, then through the wildcard ones.
InTurn(s) == s \in busTo /\ (s = Broker => busTo = {Broker})

\* Mutant: the send waits for room in the subscriber's queue.
DeliverWaits(s) ==
  /\ InTurn(s)
  /\ Len(busQueue[s]) < BufSize
  /\ busTo' = busTo \ {s}
  /\ busQueue' = [busQueue EXCEPT ![s] = Append(@, busEvent)]
  /\ UNCHANGED <<busRoom, busEvents, busCh, busDone, busPc, busEvent, missed, subVars, clVars>>

\* Mutant: a slow subscriber's queue gives up its oldest event for the new one.
DeliverOverOldest(s) ==
  /\ InTurn(s)
  /\ busTo' = busTo \ {s}
  /\ busQueue' = [busQueue EXCEPT ![s] = IF Len(@) < BufSize THEN Append(@, busEvent)
                                         ELSE Append(Tail(@), busEvent)]
  /\ UNCHANGED <<busRoom, busEvents, busCh, busDone, busPc, busEvent, missed, subVars, clVars>>

\* deliver: a full queue costs this subscriber the event, and nobody else.
Deliver(s) ==
  /\ InTurn(s)
  /\ busTo' = busTo \ {s}
  /\ IF Len(busQueue[s]) < BufSize
     THEN busQueue' = [busQueue EXCEPT ![s] = Append(@, busEvent)] /\ UNCHANGED missed
     ELSE missed' = [missed EXCEPT ![s] = @ \cup {busEvent}] /\ UNCHANGED busQueue
  /\ UNCHANGED <<busRoom, busEvents, busCh, busDone, busPc, busEvent, subVars, clVars>>

\* Between two events, select may see that done is closed.
BusSeesDone ==
  /\ busPc = "route"
  /\ busTo = {}
  /\ busDone
  /\ busPc' = "drain"
  /\ UNCHANGED <<busRoom, busEvents, busCh, busDone, busEvent, busTo, busQueue, missed, subVars, clVars>>

\* Mutant: the dispatcher leaves without draining the channel.
BusExitsAtOnce ==
  /\ busPc = "drain"
  /\ busPc' = "exited"
  /\ UNCHANGED <<busRoom, busEvents, busCh, busDone, busEvent, busTo, busQueue, missed, subVars, clVars>>

\* The channel is empty: the queues are closed and the dispatcher ends.
BusExits ==
  /\ busPc = "drain"
  /\ busTo = {} /\ busCh = <<>>
  /\ busPc' = "exited"
  /\ UNCHANGED <<busRoom, busEvents, busCh, busDone, busEvent, busTo, busQueue, missed, subVars, clVars>>

Dispatch == Route \/ BusSeesDone \/ BusExits \/ \E s \in Subscribers : Deliver(s)

-----------------------------------------------------------------------------
\* runSubscriber takes the next event of its queue.
SubReceive(s) ==
  /\ subCall[s] = 0
  /\ busQueue[s] # <<>>
  /\ subCall' = [subCall EXCEPT ![s] = Head(busQueue[s])]
  /\ busQueue' = [busQueue EXCEPT ![s] = Tail(@)]
  /\ UNCHANGED <<busRoom, busEvents, busCh, busDone, dispatchVars, missed, subExited, handled, clVars>>

\* Broadcast to the clients of this moment; a full connection loses the event.
Broadcast(id) ==
  clQueue' = [c \in Clients |-> IF c \in clOpen /\ Len(clQueue[c]) < ClientBuf
                                THEN Append(clQueue[c], id) ELSE clQueue[c]]

\* Mutant: an event whose handler panicked is put back.
SubReturnRetries(s) ==
  /\ subCall[s] # 0
  /\ IF s = Broker THEN Broadcast(subCall[s]) ELSE UNCHANGED clQueue
  /\ handled' = [handled EXCEPT ![s] = Append(@, subCall[s])]
  /\ subCall' = [subCall EXCEPT ![s] = 0]
  /\ \/ Len(busQueue[s]) < BufSize /\ Len(handled[s]) < MaxEvents
        /\ busQueue' = [busQueue EXCEPT ![s] = Append(@, subCall[s])]
     \/ UNCHANGED busQueue
  /\ UNCHANGED <<busRoom, busEvents, busCh, busDone, dispatchVars, missed, subExited, clOpen, clSeen>>

\* The handler returns, or panics and is recovered from.
SubReturn(s) ==
  /\ subCall[s] # 0
  /\ IF s = Broker THEN Broadcast(subCall[s]) ELSE UNCHANGED clQueue
  /\ handled' = [handled EXCEPT ![s] = Append(@, subCall[s])]
  /\ subCall' = [subCall EXCEPT ![s] = 0]
  /\ UNCHANGED <<busRoom, busEvents, busCh, busDone, dispatchVars, busQueue, missed, subExited, clOpen, clSeen>>

\* The queue is closed and empty.
SubExit(s) ==
  /\ s \notin subExited
  /\ subCall[s] = 0
  /\ busPc = "exited" /\ busQueue[s] = <<>>
  /\ subExited' = subExited \cup {s}
  /\ UNCHANGED <<busRoom, busEvents, busCh, busDone, dispatchVars, busQueue, missed, subCall, handled, clVars>>

SubStep(s) == SubReceive(s) \/ SubReturn(s) \/ SubExit(s)

-----------------------------------------------------------------------------
\* A browser connects; ServeHTTP writes what its channel holds until the connection ends.
Connect(c) ==
  /\ c \notin clOpen
  /\ clOpen' = clOpen \cup {c}
  /\ UNCHANGED <<busRoom, busEvents, busCh, busDone, dispatchVars, busQueue, missed, subVars, clQueue, clSeen>>

Write(c) ==
  /\ c \in clOpen
  /\ clQueue[c] # <<>>
  /\ clSeen' = [clSeen EXCEPT ![c] = Append(@, Head(clQueue[c]))]
  /\ clQueue' = [clQueue EXCEPT ![c] = Tail(@)]
  /\ UNCHANGED <<busRoom, busEvents, busCh, busDone, dispatchVars, busQueue, missed, subVars, clOpen>>

Disconnect(c) ==
  /\ c \in clOpen
  /\ clOpen' = clOpen \ {c}
  /\ clQueue' = [clQueue EXCEPT ![c] = <<>>]
  /\ clSeen' = [clSeen EXCEPT ![c] = <<>>]
  /\ UNCHANGED <<busRoom, busEvents, busCh, busDone, dispatchVars, busQueue, missed, subVars>>

\* Stop closes done, and returns when the dispatcher and all subscribers have ended.
CloseDone ==
  /\ busDone' = TRUE
  /\ UNCHANGED <<busRoom, busEvents, busCh, dispatchVars, busQueue, missed, subVars, clVars>>

BusStopped == busPc = "exited" /\ subExited = Subscribers
=============================================================================
