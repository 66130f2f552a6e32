--------------------------- MODULE ServerRuntime ---------------------------
(***************************************************************************)
(* The server around its workers: cmd/server's main starts the bus and the *)
(* loops, serves requests, and after a signal tears everything down in     *)
(* order: browsers, requests, loops, bus, database.                        *)
(* The library job queue, stopped between loops and bus, is in JobQueue.   *)
(***************************************************************************)
EXTENDS WorkerLoop, Functions

CONSTANT
  Budgets   \* bounds: pairs of events accepted and settings updated

ASSUME RuntimeAssumption ==
  /\ Budgets \subseteq (0..MaxEvents) \X (0..MaxUpdates)
  /\ "media" \in EventTypes

VARIABLES
  rtPc,       \* main: "up", "drain" (HTTP), "stop" (loops), "bus", "closed"
  rtServing,  \* requests may be running
  rtMark      \* history: how many events had been accepted when done was closed

rtVars == <<rtPc, rtServing, rtMark>>
vars == <<busVars, lpVars, setVars, rtVars>>

TypeOK ==
  /\ BusTypeOK
  /\ LpTypeOK
  /\ rtPc \in {"up", "drain", "stop", "bus", "closed"}
  /\ rtServing \in BOOLEAN
  /\ rtMark \in 0..MaxEvents

Init ==
  /\ BusInit
  /\ LpInit
  /\ <<busRoom, updates>> \in Budgets
  /\ rtPc = "up" /\ rtServing = TRUE /\ rtMark = 0

RtGoto(pc) == rtPc' = pc

-----------------------------------------------------------------------------
(* Requests                                                                *)

\* RunWorker, for registered loops.
RequestRun(w) == w \in Registered /\ RunNow(w)

\* UpdateSettings: per key a value is stored, then announced.
RequestSettings ==
  \/ UpdateOther
  \/ \E w \in Loops : NotifyInterval(w) \/ \E value \in Intervals : StoreInterval(w, value)

\* Any handler that publishes.
RequestPublish == Publish("media") /\ UNCHANGED <<lpVars, setVars>>

Request ==
  /\ rtServing
  /\ \/ RequestSettings \/ RequestPublish
     \/ \E w \in Loops : RequestRun(w)
  /\ UNCHANGED rtVars

\* A browser opens the event stream; once the base context is cancelled none stays.
Browse ==
  /\ \E c \in Clients : (rtPc = "up" /\ Connect(c)) \/ Write(c) \/ Disconnect(c)
  /\ UNCHANGED <<lpVars, setVars, rtVars>>

-----------------------------------------------------------------------------
(* Goroutines                                                              *)

\* Process publishes what it has done.
WorkPublish(w) ==
  /\ lpPc[w] = "work"
  /\ Publish("media")
  /\ UNCHANGED <<lpVars, setVars, rtVars>>

Loop(w) == WorkPublish(w) \/ (LpStep(w) /\ UNCHANGED rtVars)

Bus ==
  /\ Dispatch \/ \E s \in Subscribers : SubStep(s)
  /\ UNCHANGED <<lpVars, setVars, rtVars>>

-----------------------------------------------------------------------------
(* main                                                                    *)

\* A signal arrives: the base context is cancelled, the listener closed.
Signal ==
  /\ rtPc = "up"
  /\ RtGoto("drain")
  /\ UNCHANGED <<busVars, lpVars, setVars, rtServing, rtMark>>

\* srv.Shutdown returns: all requests have ended, also those that stream events, ...
HttpDrained ==
  /\ rtPc = "drain"
  /\ clOpen = {} /\ \A w \in Loops : unsaid[w] = 0
  /\ rtServing' = FALSE
  /\ RtGoto("stop")
  /\ UNCHANGED <<busVars, lpVars, setVars, rtMark>>

\* ... or its time is up, and main goes on without them.
HttpTimeout ==
  /\ rtPc = "drain"
  /\ RtGoto("stop")
  /\ UNCHANGED <<busVars, lpVars, setVars, rtServing, rtMark>>

\* Stop returns when doneCh is closed.
StopsReturned == \A w \in Loops : lpStop[w] => lpPc[w] = "exited"

\* The loops are stopped one after the other.
StopLoop(w) ==
  /\ rtPc = "stop"
  /\ StopsReturned
  /\ ~lpStop[w]
  /\ CloseStop(w)
  /\ UNCHANGED rtVars

\* bus.Stop closes done once all loops have been stopped.
StopBus ==
  /\ rtPc = "stop"
  /\ StopsReturned
  /\ \A w \in Loops : lpStop[w]
  /\ CloseDone
  /\ RtGoto("bus")
  /\ rtMark' = Len(busEvents)
  /\ UNCHANGED <<lpVars, setVars, rtServing>>

\* bus.Stop returns, and the database is closed.
CloseDatabase ==
  /\ rtPc = "bus"
  /\ BusStopped
  /\ RtGoto("closed")
  /\ UNCHANGED <<busVars, lpVars, setVars, rtServing, rtMark>>

Shutdown ==
  \/ HttpDrained \/ HttpTimeout \/ StopBus \/ CloseDatabase
  \/ \E w \in Loops : StopLoop(w)

Next ==
  /\ rtPc # "closed"
  /\ Request \/ Browse \/ Bus \/ Signal \/ Shutdown \/ \E w \in Loops : Loop(w)

Spec == Init /\ [][Next]_vars

-----------------------------------------------------------------------------
(* Safety                                                                  *)

\* A goroutine per subscriber, a FIFO queue, and the drain at the end keep the order:
\* every subscriber handles, and every browser is sent, what it gets in the order of
\* publication and once.
Increasing(ids) == \A m, n \in 1..Len(ids) : m < n => ids[m] < ids[n]

EventsInOrder ==
  /\ \A s \in Subscribers : Increasing(handled[s])
  /\ \A c \in Clients : Increasing(clSeen[c])

\* What of the accepted events still lies somewhere on its way to a subscriber.
OnTheWay(s) ==
  {id \in Range(busCh) \cup (IF s \in busTo THEN {busEvent} ELSE {}) : s \in Wants(id)}
    \cup Range(busQueue[s])
    \cup ({subCall[s]} \ {0})

\* An accepted event is lost for a subscriber only if that subscriber's own queue was
\* full when it was delivered: a slow handler, a panic or the shutdown cost nobody else
\* anything, and nothing is delivered twice.
EventsAccountedFor ==
  \A s \in Subscribers, id \in 1..Len(busEvents) : s \in Wants(id) =>
    \/ id \in OnTheWay(s) /\ id \notin Range(handled[s]) \cup missed[s]
    \/ id \notin OnTheWay(s) /\ (id \in Range(handled[s]) <=> id \notin missed[s])

\* bus.Stop returns with everything handled that was published before it was called; and
\* unless a request outlived the drain, nothing can have been published after it.
DrainedAtStop ==
  rtPc = "closed" => \A s \in Subscribers :
    \A id \in OnTheWay(s) : rtServing /\ id > rtMark

\* Events reach their subscribers in order, none is lost but to its own full queue, and
\* bus.Stop drains.
EventsDelivered == EventsInOrder /\ EventsAccountedFor /\ DrainedAtStop

\* A loop goes by the stored interval, or has yet to take a key that tells it to read
\* the interval again, or the key is still to be sent, or its channel was full.  A
\* change made before the loop subscribed, or during its start-up delay or a run, counts
\* as any other.
IntervalCurrentOrTold ==
  \A w \in Loops : lpPc[w] \in Subscribed \ {"read"} =>
    \/ lpInterval[w] = setting[w]
    \/ TRUE \in Range(lpKeys[w])
    \/ unsaid[w] > 0
    \/ w \in lpLost

-----------------------------------------------------------------------------
(* Liveness                                                                *)

\* The dispatcher, the broker's goroutine and the loops' run on, and a loop that selects
\* takes a trigger and, select being random, does not prefer ticks to the stop for ever;
\* main goes on when what it waits for is there, and HTTP's drain has a timeout.  Ticks,
\* requests, browsers, and the other subscribers (whose handlers call the network) are
\* not fair.
FairSpec ==
  /\ Spec
  /\ WF_vars(Dispatch /\ UNCHANGED <<lpVars, setVars, rtVars>>)
  /\ WF_vars(SubStep(Broker) /\ UNCHANGED <<lpVars, setVars, rtVars>>)
  /\ \A w \in Loops : WF_vars(LpGoesOn(w) /\ UNCHANGED rtVars) /\ SF_vars(LpExit(w) /\ UNCHANGED rtVars)
  /\ WF_vars(Shutdown)

\* A handler that hangs keeps no event from another subscriber: until the bus is stopped
\* the broker gets every accepted event, or had no room for it.
SlowSubscriberAlone ==
  \A id \in Ids :
    id <= Len(busEvents) ~> (busDone \/ id \in Range(handled[Broker]) \cup missed[Broker])

\* A trigger given while the loop is at work is not spent on the run in progress: another
\* run follows, however far the next tick is, unless the loop is stopped.
TriggerDuringRunCounts ==
  \A w \in Loops :
    lpPc[w] = "work" /\ lpTrigger[w] ~> (lpPc[w] = "begin" \/ lpPc[w] = "exited")

\* A shutdown ends, or waits for nothing but the handlers of other subscribers, whatever
\* the loops do: start-up delay, pending triggers, ticks that keep coming, browsers that
\* stay connected.
ShutdownCompletes ==
  rtPc = "drain" ~> (rtPc = "closed" \/ (busPc = "exited" /\ Broker \in subExited))
=============================================================================
