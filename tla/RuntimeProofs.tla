---------------------------- MODULE RuntimeProofs ----------------------------
(***************************************************************************)
(* What ServerRuntime promises holds for every number of subscribers,      *)
(* browsers and loops, every capacity of the buffers and every interleaving *)
(* of publishers, dispatcher, handlers and shutdown: the bus loses nothing *)
(* but to a full queue, keeps the order and drains; a loop goes by the     *)
(* stored interval or is about to.                                         *)
(***************************************************************************)
EXTENDS ServerRuntime, SequenceTheorems, TLAPS

-----------------------------------------------------------------------------
(* Sequences of ids                                                        *)

\* Every id of A is smaller than every id of B.
Precede(A, B) == \A a \in A, b \in B : a < b

LEMMA EmptyQueue == Range(<<>>) = {} /\ Increasing(<<>>) /\ \A S : <<>> \in Seq(S)
BY EmptySeq DEF Range, Increasing

LEMMA Appended ==
  ASSUME NEW S, NEW ids \in Seq(S), NEW id \in S
  PROVE  /\ Append(ids, id) \in Seq(S)
         /\ Range(Append(ids, id)) = Range(ids) \cup {id}
         /\ Len(Append(ids, id)) = Len(ids) + 1
<1>1. /\ Append(ids, id) \in Seq(S) /\ Len(Append(ids, id)) = Len(ids) + 1 /\ Len(ids) \in Nat
      /\ \A n \in 1..Len(ids) : Append(ids, id)[n] = ids[n]
      /\ Append(ids, id)[Len(ids) + 1] = id
  BY AppendProperties, LenProperties
<1>2. Range(ids) = {ids[n] : n \in 1..Len(ids)}
  BY RangeEquality
<1>3. Range(Append(ids, id)) = {Append(ids, id)[n] : n \in 1..Len(ids) + 1}
  BY <1>1, RangeEquality
<1>4. 1..Len(ids) + 1 = (1..Len(ids)) \cup {Len(ids) + 1}
  BY <1>1
<1>5. \A x : x \in Range(Append(ids, id)) <=> x \in Range(ids) \cup {id}
  BY <1>1, <1>2, <1>3, <1>4
<1> QED BY <1>1, <1>5

LEMMA Taken ==
  ASSUME NEW S, NEW ids \in Seq(S), ids # <<>>
  PROVE  /\ Head(ids) \in S /\ Head(ids) \in Range(ids)
         /\ Tail(ids) \in Seq(S)
         /\ Len(Tail(ids)) = Len(ids) - 1
         /\ Range(ids) = {Head(ids)} \cup Range(Tail(ids))
<1>1. /\ Head(ids) \in S /\ Tail(ids) \in Seq(S) /\ Len(Tail(ids)) = Len(ids) - 1
      /\ \A n \in 1..Len(Tail(ids)) : Tail(ids)[n] = ids[n + 1]
  BY HeadTailProperties
<1>2. Len(ids) \in Nat \ {0} /\ Head(ids) = ids[1]
  BY EmptySeq
<1>3. /\ Range(ids) = {ids[n] : n \in 1..Len(ids)}
      /\ Range(Tail(ids)) = {Tail(ids)[n] : n \in 1..Len(Tail(ids))}
  BY <1>1, RangeEquality
<1>4. \A n \in 1..Len(ids) : n = 1 \/ (n - 1 \in 1..Len(Tail(ids)) /\ ids[n] = Tail(ids)[n - 1])
  BY <1>1, <1>2
<1>5. \A n \in 1..Len(Tail(ids)) : n + 1 \in 1..Len(ids) /\ Tail(ids)[n] = ids[n + 1]
  BY <1>1, <1>2
<1>6. 1 \in 1..Len(ids)
  BY <1>2
<1>7. \A x : x \in Range(ids) <=> x = Head(ids) \/ x \in Range(Tail(ids))
  <2>1. ASSUME NEW x \in Range(ids)
        PROVE  x = Head(ids) \/ x \in Range(Tail(ids))
    <3>1. PICK n \in 1..Len(ids) : x = ids[n]
      BY <1>3
    <3> QED BY <1>2, <1>3, <1>4, <3>1, Zenon
  <2>2. ASSUME NEW x \in Range(Tail(ids))
        PROVE  x \in Range(ids)
    <3>1. PICK n \in 1..Len(Tail(ids)) : x = Tail(ids)[n]
      BY <1>3
    <3> QED BY <1>3, <1>5, <3>1, Zenon
  <2>3. Head(ids) \in Range(ids)
    BY <1>2, <1>3, <1>6, Zenon
  <2> QED BY <2>1, <2>2, <2>3, Zenon
<1> QED BY <1>1, <1>7

LEMMA AppendedInOrder ==
  ASSUME NEW ids \in Seq(Nat), NEW id \in Nat, Increasing(ids), Precede(Range(ids), {id})
  PROVE  Increasing(Append(ids, id))
<1>1. /\ Len(Append(ids, id)) = Len(ids) + 1 /\ Len(ids) \in Nat
      /\ \A n \in 1..Len(ids) : Append(ids, id)[n] = ids[n]
      /\ Append(ids, id)[Len(ids) + 1] = id
  BY AppendProperties, LenProperties
<1>2. \A n \in 1..Len(ids) : ids[n] < id
  BY RangeEquality DEF Precede
<1> QED BY <1>1, <1>2 DEF Increasing

LEMMA TakenInOrder ==
  ASSUME NEW ids \in Seq(Nat), ids # <<>>, Increasing(ids)
  PROVE  Increasing(Tail(ids)) /\ Precede({Head(ids)}, Range(Tail(ids)))
<1>1. /\ Tail(ids) \in Seq(Nat) /\ Len(Tail(ids)) = Len(ids) - 1
      /\ \A n \in 1..Len(Tail(ids)) : Tail(ids)[n] = ids[n + 1]
  BY HeadTailProperties
<1>2. Len(ids) \in Nat \ {0} /\ Head(ids) = ids[1] /\ Len(Tail(ids)) \in Nat
  BY <1>1, EmptySeq
<1>3. Increasing(Tail(ids))
  BY <1>1, <1>2 DEF Increasing
<1>4. \A n \in 1..Len(Tail(ids)) : ids[1] < Tail(ids)[n]
  BY <1>1, <1>2 DEF Increasing
<1>5. Range(Tail(ids)) = {Tail(ids)[n] : n \in 1..Len(Tail(ids))}
  BY <1>1, RangeEquality
<1> QED BY <1>2, <1>3, <1>4, <1>5 DEF Precede

-----------------------------------------------------------------------------
(* The invariant                                                           *)

\* What subscriber s has got of the events so far: handled, in its hands or queued.
Called(s) == {subCall[s]} \ {0}
Got(s) == Range(handled[s]) \cup Called(s) \cup Range(busQueue[s])

\* The event being routed and those behind it in the channel are all that is not
\* routed yet.
ChannelInv ==
  /\ busRoom + Len(busEvents) <= MaxEvents
  /\ busEvent <= Len(busEvents)
  /\ Range(busCh) = (busEvent + 1)..Len(busEvents)
  /\ Increasing(busCh)
  /\ busTo # {} => busEvent # 0

\* Each subscriber has got, in order, or missed what was routed to it.
SubscriberInv(s) ==
  /\ Increasing(handled[s]) /\ Increasing(busQueue[s])
  /\ Precede(Range(handled[s]), Called(s) \cup Range(busQueue[s]))
  /\ Precede(Called(s), Range(busQueue[s]))
  /\ Got(s) \cap missed[s] = {}
  /\ \A id \in Got(s) \cup missed[s] : id <= busEvent /\ (s \in busTo => id < busEvent)
  /\ \A id \in 1..busEvent : s \in Wants(id) =>
       id \in Got(s) \cup missed[s] \/ (id = busEvent /\ s \in busTo)

\* A browser gets what the broker has handled, in order.
ClientInv(c) ==
  /\ Increasing(clSeen[c]) /\ Increasing(clQueue[c])
  /\ Precede(Range(clSeen[c]), Range(clQueue[c]))
  /\ Range(clSeen[c]) \cup Range(clQueue[c]) \subseteq Range(handled[Broker])

BusInv ==
  /\ BusTypeOK
  /\ ChannelInv
  /\ \A s \in Subscribers : SubscriberInv(s)
  /\ \A c \in Clients : ClientInv(c)

\* The shutdown goes from the loops to the dispatcher and to the subscribers; with no
\* request left, nobody publishes while the bus is stopped.
StopInv ==
  /\ busPc # "route" => busDone
  /\ busDone => rtPc \in {"bus", "closed"}
  /\ busPc = "exited" => busTo = {} /\ rtMark <= busEvent
  /\ \A s \in subExited : busPc = "exited" /\ busQueue[s] = <<>> /\ subCall[s] = 0
  /\ rtPc \in {"bus", "closed"} =>
       /\ \A w \in Loops : lpPc[w] = "exited"
       /\ rtMark <= Len(busEvents)
       /\ rtServing \/ rtMark = Len(busEvents)
  /\ rtPc = "closed" => BusStopped


-----------------------------------------------------------------------------
(* The bus                                                                 *)

LEMMA IdsAreNumbers ==
  ASSUME BusTypeOK
  PROVE  /\ Ids \subseteq Nat /\ MaxEvents \in Nat /\ BufSize \in Nat /\ ClientBuf \in Nat
         /\ Len(busEvents) \in Nat /\ busEvent \in Nat /\ busCh \in Seq(Nat)
         /\ \A s \in Subscribers :
              /\ handled[s] \in Seq(Nat) /\ busQueue[s] \in Seq(Nat) /\ subCall[s] \in Nat
              /\ Range(handled[s]) \subseteq Nat /\ Range(busQueue[s]) \subseteq Nat
              /\ missed[s] \subseteq Nat
         /\ \A c \in Clients :
              /\ clSeen[c] \in Seq(Nat) /\ clQueue[c] \in Seq(Nat)
              /\ Range(clSeen[c]) \subseteq Nat /\ Range(clQueue[c]) \subseteq Nat
<1>1. Ids \subseteq Nat /\ MaxEvents \in Nat /\ BufSize \in Nat /\ ClientBuf \in Nat
  BY BusAssumption DEF Ids
<1>2. \A ids \in Seq(Ids) : ids \in Seq(Nat) /\ Range(ids) \subseteq Nat
  BY <1>1, SeqMonotonic, RangeOfSeq
<1>3. Len(busEvents) \in Nat /\ busEvent \in Nat /\ busCh \in Seq(Nat)
  BY <1>1, <1>2, LenProperties DEF BusTypeOK
<1>4. ASSUME NEW s \in Subscribers
      PROVE  /\ handled[s] \in Seq(Nat) /\ busQueue[s] \in Seq(Nat) /\ subCall[s] \in Nat
             /\ Range(handled[s]) \subseteq Nat /\ Range(busQueue[s]) \subseteq Nat
             /\ missed[s] \subseteq Nat
  <2>1. handled[s] \in Seq(Ids) /\ busQueue[s] \in Seq(Ids)
    BY DEF BusTypeOK
  <2>2. subCall[s] \in Nat /\ missed[s] \subseteq Nat
    <3>1. subCall[s] \in Ids \cup {0} /\ missed[s] \in SUBSET Ids
      BY DEF BusTypeOK
    <3>2. subCall[s] \in Nat
      BY <1>1, <3>1, 0 \in Nat
    <3>3. missed[s] \subseteq Nat
      BY <1>1, <3>1
    <3> QED BY <3>2, <3>3
  <2> QED BY <1>2, <2>1, <2>2
<1>5. ASSUME NEW c \in Clients
      PROVE  /\ clSeen[c] \in Seq(Nat) /\ clQueue[c] \in Seq(Nat)
             /\ Range(clSeen[c]) \subseteq Nat /\ Range(clQueue[c]) \subseteq Nat
  BY <1>2 DEF BusTypeOK
<1> QED BY <1>1, <1>3, <1>4, <1>5

LEMMA BusInitially == BusInit => BusInv
<1> SUFFICES ASSUME BusInit PROVE BusInv
  OBVIOUS
<1>1. BusTypeOK
  <2>1. <<>> \in Seq(Ids) /\ <<>> \in Seq(EventTypes) /\ Len(<<>>) = 0
    BY EmptySeq
  <2>2. Len(<<>>) <= MaxEvents /\ Len(<<>>) <= BufSize
    BY <2>1, BusAssumption
  <2> QED BY <2>1, <2>2 DEF BusInit, BusTypeOK
<1>2. ChannelInv
  BY EmptyQueue, EmptySeq, BusAssumption DEF BusInit, ChannelInv
<1>3. \A s \in Subscribers : SubscriberInv(s)
  <2> SUFFICES ASSUME NEW s \in Subscribers PROVE SubscriberInv(s)
    OBVIOUS
  <2>1. Range(handled[s]) = {} /\ Range(busQueue[s]) = {} /\ Called(s) = {} /\ missed[s] = {}
    BY EmptyQueue DEF BusInit, Called
  <2>2. Increasing(handled[s]) /\ Increasing(busQueue[s]) /\ busEvent = 0
    BY EmptyQueue DEF BusInit
  <2> QED BY <2>1, <2>2 DEF SubscriberInv, Got, Precede
<1>4. \A c \in Clients : ClientInv(c)
  BY EmptyQueue DEF BusInit, ClientInv, Precede
<1> QED BY <1>1, <1>2, <1>3, <1>4 DEF BusInv

\* What a subscriber has got is not touched by a step that leaves its queue, its handler and
\* the dispatcher alone.
LEMMA SubscriberUndisturbed ==
  ASSUME NEW s \in Subscribers, SubscriberInv(s),
         handled'[s] = handled[s], subCall'[s] = subCall[s], busQueue'[s] = busQueue[s],
         missed'[s] = missed[s], busEvent' = busEvent, s \in busTo' <=> s \in busTo,
         \A id \in 1..busEvent : Wants(id)' = Wants(id)
  PROVE  SubscriberInv(s)'
BY DEF SubscriberInv, Got, Called

LEMMA PublishKeeps ==
  ASSUME BusInv, NEW type \in EventTypes, Publish(type)
  PROVE  BusInv'
<1> USE DEF BusInv
<1>1. CASE UNCHANGED <<busRoom, busEvents, busCh>>
  <2>1. UNCHANGED busVars
    BY <1>1 DEF Publish, busVars
  <2> QED BY <2>1 DEF busVars, dispatchVars, subVars, clVars, BusTypeOK, ChannelInv, SubscriberInv,
               ClientInv, Got, Called, Wants
<1>2. CASE /\ Len(busCh) < BufSize /\ busRoom > 0
           /\ busRoom' = busRoom - 1
           /\ busEvents' = Append(busEvents, type)
           /\ busCh' = Append(busCh, Len(busEvents) + 1)
  <2> DEFINE new == Len(busEvents) + 1
  <2>1. /\ UNCHANGED <<busDone, dispatchVars, busQueue, missed, subVars, clVars>>
        /\ busRoom \in 0..MaxEvents /\ Len(busEvents) \in Nat /\ busEvent \in Nat
        /\ MaxEvents \in Nat /\ busCh \in Seq(Ids) /\ busCh \in Seq(Nat) /\ Len(busCh) \in Nat
        /\ busEvents \in Seq(EventTypes) /\ busRoom + Len(busEvents) <= MaxEvents
    BY IdsAreNumbers, LenProperties DEF Publish, BusTypeOK, ChannelInv
  <2>2. new \in Ids /\ new \in Nat
    BY <1>2, <2>1 DEF Ids
  <2>3. /\ busEvents' \in Seq(EventTypes) /\ Len(busEvents') = new
        /\ \A id \in 1..Len(busEvents) : busEvents'[id] = busEvents[id]
    BY <1>2, <2>1, AppendProperties
  <2>4. /\ busCh' \in Seq(Ids) /\ Range(busCh') = Range(busCh) \cup {new}
        /\ Len(busCh') = Len(busCh) + 1
    BY <1>2, <2>1, <2>2, Appended
  <2>5. \A id \in 1..Len(busEvents) : Wants(id)' = Wants(id)
    BY <2>3 DEF Wants
  <2>6. BusTypeOK'
    BY <1>2, <2>1, <2>2, <2>3, <2>4, IdsAreNumbers DEF BusTypeOK, dispatchVars, subVars, clVars
  <2>7. ChannelInv'
    <3>1. Increasing(busCh')
      BY <1>2, <2>1, <2>2, AppendedInOrder DEF ChannelInv, Precede
    <3>2. Range(busCh') = (busEvent + 1)..new
      <4>1. Range(busCh) = (busEvent + 1)..Len(busEvents) /\ busEvent <= Len(busEvents)
        BY DEF ChannelInv
      <4>2. (busEvent + 1)..new = ((busEvent + 1)..Len(busEvents)) \cup {new}
        BY <2>1, <4>1
      <4> QED BY <2>4, <4>1, <4>2, Zenon
    <3> QED BY <1>2, <2>1, <2>3, <3>1, <3>2 DEF ChannelInv, dispatchVars
  <2>8. \A s \in Subscribers : SubscriberInv(s)'
    <3>1. \A id \in 1..busEvent : Wants(id)' = Wants(id)
      BY <2>1, <2>5 DEF ChannelInv
    <3> QED BY <2>1, <3>1, SubscriberUndisturbed DEF dispatchVars, subVars
  <2>9. \A c \in Clients : ClientInv(c)'
    BY <2>1 DEF ClientInv, clVars, subVars
  <2> QED BY <2>6, <2>7, <2>8, <2>9
<1> QED BY <1>1, <1>2 DEF Publish

\* The dispatcher takes the next event; what was routed before is done with.
LEMMA RouteKeeps ==
  ASSUME BusInv, Route
  PROVE  BusInv'
<1> USE DEF BusInv
<1> DEFINE id == Head(busCh)
<1>1. /\ busTo = {} /\ busCh # <<>> /\ busEvent' = id /\ busTo' = Wants(id) /\ busCh' = Tail(busCh)
      /\ UNCHANGED <<busRoom, busEvents, busDone, busPc, busQueue, missed, subVars, clVars>>
  BY DEF Route
<1>2. /\ id \in Ids /\ busCh' \in Seq(Ids) /\ Len(busCh') = Len(busCh) - 1
      /\ Range(busCh) = {id} \cup Range(busCh')
  BY <1>1, Taken DEF BusTypeOK
<1>3. Increasing(busCh') /\ Precede({id}, Range(busCh'))
  BY <1>1, IdsAreNumbers, TakenInOrder DEF ChannelInv
<1>4. id \in Nat /\ busEvent \in Nat /\ Len(busEvents) \in Nat /\ Len(busCh) \in Nat /\ BufSize \in Nat
      /\ MaxEvents \in Nat
  BY <1>1, <1>2, IdsAreNumbers, LenProperties
\* The channel holds what follows, so its head is the very next event.
<1>5. id = busEvent + 1 /\ id <= Len(busEvents) /\ Range(busCh') = (id + 1)..Len(busEvents)
  <2>1. id \in (busEvent + 1)..Len(busEvents)
    BY <1>2 DEF ChannelInv
  <2>2. busEvent + 1 \in (busEvent + 1)..Len(busEvents)
    BY <1>4, <2>1
  <2>3. busEvent + 1 = id \/ busEvent + 1 \in Range(busCh')
    BY <1>2, <2>2 DEF ChannelInv
  <2>4. id = busEvent + 1
    BY <1>3, <1>4, <2>1, <2>3 DEF Precede
  <2>5. \A n \in Range(busCh') : n \in (busEvent + 1)..Len(busEvents) /\ id < n
    BY <1>2, <1>3 DEF ChannelInv, Precede
  <2>6. \A n \in (id + 1)..Len(busEvents) : n \in (busEvent + 1)..Len(busEvents) /\ n # id
    BY <1>4, <2>4
  <2>7. \A n : n \in Range(busCh') <=> n \in (id + 1)..Len(busEvents)
    <3>1. ASSUME NEW n \in (id + 1)..Len(busEvents) PROVE n \in Range(busCh')
      BY <1>2, <2>6, <3>1 DEF ChannelInv
    <3>2. ASSUME NEW n \in Range(busCh') PROVE n \in (id + 1)..Len(busEvents)
      BY <1>4, <2>5, <3>2
    <3> QED BY <3>1, <3>2
  <2>8. Range(busCh') = (id + 1)..Len(busEvents)
    BY <2>7
  <2> QED BY <1>4, <2>1, <2>4, <2>8
<1>6. BusTypeOK'
  BY <1>1, <1>2, <1>4 DEF BusTypeOK, subVars, clVars, Wants
<1>7. ChannelInv'
  BY <1>1, <1>2, <1>3, <1>4, <1>5 DEF ChannelInv
<1>8. ASSUME NEW s \in Subscribers PROVE SubscriberInv(s)'
  <2>1. Got(s)' = Got(s) /\ Called(s)' = Called(s) /\ missed'[s] = missed[s]
        /\ Got(s) \cup missed[s] \subseteq Nat
    BY <1>1, IdsAreNumbers DEF Got, Called, subVars
  <2>2. \A n : Wants(n)' = Wants(n)
    BY <1>1 DEF Wants
  <2>3. \A n \in Got(s) \cup missed[s] : n < id
    <3>1. \A n \in Got(s) \cup missed[s] : n <= busEvent
      BY DEF SubscriberInv
    <3> QED BY <1>4, <1>5, <2>1, <3>1
  <2>4. ASSUME NEW n \in 1..id, s \in Wants(n)
        PROVE  n \in Got(s) \cup missed[s] \/ (n = id /\ s \in busTo')
    <3>1. CASE n = id
      BY <1>1, <2>4, <3>1
    <3>2. CASE n # id
      <4>1. n \in 1..busEvent
        BY <1>4, <1>5, <3>2
      <4> QED BY <1>1, <2>4, <4>1 DEF SubscriberInv
    <3> QED BY <3>1, <3>2
  <2>5. /\ Increasing(handled[s])' /\ Increasing(busQueue[s])'
        /\ Precede(Range(handled[s]), Called(s) \cup Range(busQueue[s]))'
        /\ Precede(Called(s), Range(busQueue[s]))'
        /\ (Got(s) \cap missed[s] = {})'
    BY <1>1, <2>1 DEF SubscriberInv, subVars, Called
  <2>6. \A n \in Got(s)' \cup missed'[s] : n <= busEvent' /\ n < busEvent'
    BY <1>1, <1>4, <2>1, <2>3
  <2>7. \A n \in 1..busEvent' : s \in Wants(n)' =>
          n \in Got(s)' \cup missed'[s] \/ (n = busEvent' /\ s \in busTo')
    BY <1>1, <2>1, <2>2, <2>4
  <2> QED BY <2>5, <2>6, <2>7 DEF SubscriberInv
<1>9. \A c \in Clients : ClientInv(c)'
  BY <1>1 DEF ClientInv, clVars, subVars
<1> QED BY <1>6, <1>7, <1>8, <1>9

\* The broker's handled events only grow.
LEMMA ClientsUndisturbed ==
  ASSUME NEW c \in Clients, ClientInv(c), clSeen'[c] = clSeen[c], clQueue'[c] = clQueue[c],
         Range(handled[Broker]) \subseteq Range(handled[Broker])'
  PROVE  ClientInv(c)'
BY DEF ClientInv

LEMMA DeliverKeeps ==
  ASSUME BusInv, NEW s \in Subscribers, Deliver(s)
  PROVE  BusInv'
<1> USE DEF BusInv
<1>1. /\ s \in busTo /\ busTo' = busTo \ {s}
      /\ UNCHANGED <<busRoom, busEvents, busCh, busDone, busPc, busEvent, subVars, clVars>>
  BY DEF Deliver, InTurn
<1>2. busEvent \in Ids /\ busEvent \in Nat
  BY <1>1, IdsAreNumbers DEF ChannelInv, BusTypeOK
<1>3. \/ /\ Len(busQueue[s]) < BufSize /\ UNCHANGED missed
         /\ busQueue' = [busQueue EXCEPT ![s] = Append(@, busEvent)]
      \/ UNCHANGED busQueue /\ missed' = [missed EXCEPT ![s] = @ \cup {busEvent}]
  BY DEF Deliver
<1>4. /\ busQueue \in [Subscribers -> Seq(Ids)] /\ missed \in [Subscribers -> SUBSET Ids]
      /\ BufSize \in Nat /\ Len(busQueue[s]) \in Nat
      /\ \A t \in Subscribers : Len(busQueue[t]) <= BufSize
  BY IdsAreNumbers, LenProperties DEF BusTypeOK
<1>5. \A t \in Subscribers \ {s} : busQueue'[t] = busQueue[t] /\ missed'[t] = missed[t]
  BY <1>3, <1>4
<1>6. \/ /\ busQueue'[s] = Append(busQueue[s], busEvent) /\ Len(busQueue[s]) < BufSize
         /\ missed'[s] = missed[s]
         /\ busQueue'[s] \in Seq(Ids) /\ Len(busQueue'[s]) = Len(busQueue[s]) + 1
         /\ Range(busQueue'[s]) = Range(busQueue[s]) \cup {busEvent}
      \/ busQueue'[s] = busQueue[s] /\ missed'[s] = missed[s] \cup {busEvent}
  <2>1. Append(busQueue[s], busEvent) \in Seq(Ids)
        /\ Len(Append(busQueue[s], busEvent)) = Len(busQueue[s]) + 1
        /\ Range(Append(busQueue[s], busEvent)) = Range(busQueue[s]) \cup {busEvent}
    BY <1>2, <1>4, Appended
  <2> QED BY <1>3, <1>4, <2>1
<1>7. BusTypeOK'
  <2>1. busQueue' \in [Subscribers -> Seq(Ids)] /\ missed' \in [Subscribers -> SUBSET Ids]
    BY <1>2, <1>3, <1>4, <1>6
  <2>2. Len(busQueue'[s]) <= BufSize
    BY <1>4, <1>6
  <2>3. \A t \in Subscribers : Len(busQueue'[t]) <= BufSize
    BY <1>4, <1>5, <2>2
  <2> QED BY <1>1, <2>1, <2>3 DEF BusTypeOK, subVars, clVars
<1>8. ChannelInv'
  BY <1>1 DEF ChannelInv
<1>9. \A id : Wants(id)' = Wants(id)
  BY <1>1 DEF Wants
<1>10. ASSUME NEW t \in Subscribers \ {s} PROVE SubscriberInv(t)'
  <2>1. handled'[t] = handled[t] /\ subCall'[t] = subCall[t] /\ (t \in busTo' <=> t \in busTo)
    BY <1>1 DEF subVars
  <2> QED BY <1>1, <1>5, <1>9, <2>1, SubscriberUndisturbed
<1>11. SubscriberInv(s)'
  <2>1. SubscriberInv(s) /\ handled'[s] = handled[s] /\ subCall'[s] = subCall[s] /\ s \notin busTo'
        /\ busEvent' = busEvent /\ Called(s)' = Called(s)
    BY <1>1 DEF subVars, Called
  <2>2. \A id \in Got(s) \cup missed[s] : id < busEvent /\ id \in Nat
    BY <1>1, <1>2, IdsAreNumbers DEF SubscriberInv, Got, Called
  <2>3. \/ Got(s)' = Got(s) \cup {busEvent} /\ missed'[s] = missed[s]
        \/ Got(s)' = Got(s) /\ missed'[s] = missed[s] \cup {busEvent}
    BY <1>6, <2>1 DEF Got, Called
  <2>4. (Got(s) \cap missed[s] = {})'
    BY <1>2, <2>1, <2>2, <2>3 DEF SubscriberInv
  <2>5. \A id \in Got(s)' \cup missed'[s] : id <= busEvent
    BY <1>2, <2>2, <2>3
  <2>6. \A id \in 1..busEvent : s \in Wants(id) => id \in Got(s)' \cup missed'[s]
    BY <1>2, <2>1, <2>3 DEF SubscriberInv
  <2>7. Increasing(busQueue[s])' /\ Precede(Called(s), Range(busQueue[s]))'
        /\ Precede(Range(handled[s]), Called(s) \cup Range(busQueue[s]))'
    <3>1. CASE busQueue'[s] = busQueue[s]
      BY <2>1, <3>1 DEF SubscriberInv
    <3>2. CASE /\ busQueue'[s] = Append(busQueue[s], busEvent)
               /\ Range(busQueue'[s]) = Range(busQueue[s]) \cup {busEvent}
      <4>1. Increasing(busQueue'[s])
        BY <1>2, <2>1, <2>2, <3>2, AppendedInOrder, IdsAreNumbers DEF SubscriberInv, Precede, Got
      <4>2. Precede(Called(s), Range(busQueue'[s]))
            /\ Precede(Range(handled[s]), Called(s) \cup Range(busQueue'[s]))
        BY <2>1, <2>2, <3>2 DEF SubscriberInv, Precede, Got
      <4> QED BY <2>1, <4>1, <4>2
    <3> QED BY <1>6, <3>1, <3>2
  <2> QED BY <1>9, <2>1, <2>4, <2>5, <2>6, <2>7 DEF SubscriberInv
<1>12. \A c \in Clients : ClientInv(c)'
  BY <1>1, ClientsUndisturbed DEF clVars, subVars
<1> QED BY <1>7, <1>8, <1>10, <1>11, <1>12

LEMMA ReceiveKeeps ==
  ASSUME BusInv, NEW s \in Subscribers, SubReceive(s)
  PROVE  BusInv'
<1> USE DEF BusInv
<1> DEFINE id == Head(busQueue[s])
<1>1. /\ subCall[s] = 0 /\ busQueue[s] # <<>>
      /\ subCall' = [subCall EXCEPT ![s] = id] /\ busQueue' = [busQueue EXCEPT ![s] = Tail(@)]
      /\ UNCHANGED <<busRoom, busEvents, busCh, busDone, dispatchVars, missed, subExited, handled, clVars>>
  BY DEF SubReceive
<1>2. /\ busQueue \in [Subscribers -> Seq(Ids)] /\ subCall \in [Subscribers -> Ids \cup {0}]
      /\ BufSize \in Nat /\ Len(busQueue[s]) \in Nat
      /\ \A t \in Subscribers : Len(busQueue[t]) <= BufSize
  BY IdsAreNumbers, LenProperties DEF BusTypeOK
<1>3. /\ id \in Ids /\ Tail(busQueue[s]) \in Seq(Ids) /\ Len(Tail(busQueue[s])) = Len(busQueue[s]) - 1
      /\ Range(busQueue[s]) = {id} \cup Range(Tail(busQueue[s]))
  BY <1>1, <1>2, Taken
<1>4. /\ \A t \in Subscribers \ {s} : busQueue'[t] = busQueue[t] /\ subCall'[t] = subCall[t]
      /\ busQueue'[s] = Tail(busQueue[s]) /\ subCall'[s] = id
  BY <1>1, <1>2
<1>5. BusTypeOK'
  <2>1. busQueue' \in [Subscribers -> Seq(Ids)] /\ subCall' \in [Subscribers -> Ids \cup {0}]
    BY <1>1, <1>2, <1>3
  <2>2. \A t \in Subscribers : Len(busQueue'[t]) <= BufSize
    BY <1>2, <1>3, <1>4
  <2> QED BY <1>1, <2>1, <2>2 DEF BusTypeOK, dispatchVars, clVars
<1>6. ChannelInv'
  BY <1>1 DEF ChannelInv, dispatchVars
<1>7. \A n : Wants(n)' = Wants(n)
  BY <1>1 DEF Wants
<1>8. ASSUME NEW t \in Subscribers \ {s} PROVE SubscriberInv(t)'
  BY <1>1, <1>4, <1>7, SubscriberUndisturbed DEF dispatchVars
<1>9. SubscriberInv(s)'
  <2>1. SubscriberInv(s) /\ handled'[s] = handled[s] /\ missed'[s] = missed[s] /\ busTo' = busTo
        /\ busEvent' = busEvent
    BY <1>1 DEF dispatchVars
  <2>2. id # 0 /\ Called(s) = {} /\ Called(s)' = {id}
    BY <1>1, <1>3, <1>4 DEF Called, Ids
  <2>3. Got(s)' = Got(s)
    BY <1>3, <1>4, <2>1, <2>2 DEF Got
  <2>4. Increasing(busQueue'[s]) /\ Precede({id}, Range(busQueue'[s]))
    BY <1>1, <1>4, IdsAreNumbers, TakenInOrder DEF SubscriberInv
  <2>5. Precede(Range(handled[s]), {id} \cup Range(busQueue'[s]))
    BY <1>3, <1>4, <2>1 DEF SubscriberInv, Precede
  <2> QED BY <1>7, <2>1, <2>2, <2>3, <2>4, <2>5 DEF SubscriberInv
<1>10. \A c \in Clients : ClientInv(c)'
  BY <1>1, ClientsUndisturbed DEF clVars
<1> QED BY <1>5, <1>6, <1>8, <1>9, <1>10

\* The handler of s is done with its event; the broker's has put it before the browsers.
LEMMA ReturnKeeps ==
  ASSUME BusInv, NEW s \in Subscribers, SubReturn(s)
  PROVE  BusInv'
<1> USE DEF BusInv
<1> DEFINE id == subCall[s]
<1>1. /\ id # 0
      /\ handled' = [handled EXCEPT ![s] = Append(@, id)] /\ subCall' = [subCall EXCEPT ![s] = 0]
      /\ UNCHANGED <<busRoom, busEvents, busCh, busDone, dispatchVars, busQueue, missed, subExited, clOpen, clSeen>>
  BY DEF SubReturn
<1>2. /\ handled \in [Subscribers -> Seq(Ids)] /\ subCall \in [Subscribers -> Ids \cup {0}]
      /\ clQueue \in [Clients -> Seq(Ids)] /\ id \in Ids /\ Broker \in Subscribers
  BY <1>1, BusAssumption DEF BusTypeOK
<1>3. /\ Append(handled[s], id) \in Seq(Ids)
      /\ Range(Append(handled[s], id)) = Range(handled[s]) \cup {id}
  BY <1>2, Appended
<1>4. /\ \A t \in Subscribers \ {s} : handled'[t] = handled[t] /\ subCall'[t] = subCall[t]
      /\ handled'[s] = Append(handled[s], id) /\ subCall'[s] = 0
  BY <1>2, <1>1
<1>5. \A c \in Clients : \/ clQueue'[c] = clQueue[c]
                         \/ s = Broker /\ clQueue'[c] = Append(clQueue[c], id)
  BY DEF SubReturn, Broadcast
<1>6. ASSUME NEW c \in Clients
      PROVE  /\ Append(clQueue[c], id) \in Seq(Ids)
             /\ Range(Append(clQueue[c], id)) = Range(clQueue[c]) \cup {id}
  BY <1>2, Appended
<1>7. BusTypeOK'
  <2>1. handled' \in [Subscribers -> Seq(Ids)] /\ subCall' \in [Subscribers -> Ids \cup {0}]
    BY <1>1, <1>2, <1>3
  <2>2. clQueue' \in [Clients -> Seq(Ids)]
    <3>1. \A c \in Clients : clQueue'[c] \in Seq(Ids)
      BY <1>2, <1>5, <1>6
    <3>2. clQueue' = clQueue \/ clQueue' = [c \in Clients |-> clQueue'[c]]
      BY DEF SubReturn, Broadcast
    <3> QED BY <1>2, <3>1, <3>2
  <2> QED BY <1>1, <2>1, <2>2 DEF BusTypeOK, dispatchVars
<1>8. ChannelInv'
  BY <1>1 DEF ChannelInv, dispatchVars
<1>9. \A n : Wants(n)' = Wants(n)
  BY <1>1 DEF Wants
<1>10. ASSUME NEW t \in Subscribers \ {s} PROVE SubscriberInv(t)'
  BY <1>1, <1>4, <1>9, SubscriberUndisturbed DEF dispatchVars
<1>11. SubscriberInv(s)'
  <2>1. SubscriberInv(s) /\ busQueue'[s] = busQueue[s] /\ missed'[s] = missed[s] /\ busTo' = busTo
        /\ busEvent' = busEvent
    BY <1>1 DEF dispatchVars
  <2>2. Called(s) = {id} /\ Called(s)' = {}
    BY <1>1, <1>4 DEF Called
  <2>3. Got(s)' = Got(s)
    BY <1>3, <1>4, <2>1, <2>2 DEF Got
  <2>4. Increasing(handled'[s])
    BY <1>4, <2>1, <2>2, AppendedInOrder, IdsAreNumbers DEF SubscriberInv, Precede
  <2>5. Precede(Range(handled'[s]), Range(busQueue[s]))
    BY <1>3, <1>4, <2>1, <2>2 DEF SubscriberInv, Precede
  <2>6. Precede({}, Range(busQueue[s]))
    BY DEF Precede
  <2> QED BY <1>9, <2>1, <2>2, <2>3, <2>4, <2>5, <2>6 DEF SubscriberInv
<1>12. ASSUME NEW c \in Clients PROVE ClientInv(c)'
  <2>1. Range(handled[Broker]) \subseteq Range(handled[Broker])'
    BY <1>2, <1>3, <1>4
  <2>2. clSeen'[c] = clSeen[c] /\ ClientInv(c)
    BY <1>1
  <2>3. CASE clQueue'[c] = clQueue[c]
    BY <2>1, <2>2, <2>3, ClientsUndisturbed
  <2>4. CASE s = Broker /\ clQueue'[c] = Append(clQueue[c], id)
    <3>1. Range(handled[Broker])' = Range(handled[Broker]) \cup {id}
      BY <1>3, <1>4, <2>4
    <3>2. \A n \in Range(handled[Broker]) : n < id
      BY <1>1, <1>2, <2>4 DEF SubscriberInv, Precede, Called
    <3>3. Increasing(clQueue'[c])
      BY <2>2, <2>4, <3>2, AppendedInOrder, IdsAreNumbers DEF ClientInv, Precede
    <3>4. Precede(Range(clSeen[c]), Range(clQueue'[c]))
      BY <1>6, <2>2, <2>4, <3>2 DEF ClientInv, Precede
    <3>5. Range(clSeen[c]) \cup Range(clQueue'[c]) \subseteq Range(handled[Broker])'
      BY <1>6, <2>2, <2>4, <3>1 DEF ClientInv
    <3> QED BY <2>2, <3>3, <3>4, <3>5 DEF ClientInv
  <2> QED BY <1>5, <2>3, <2>4
<1> QED BY <1>7, <1>8, <1>10, <1>11, <1>12

\* What moves neither events nor what was handled.
LEMMA SignalKeeps ==
  ASSUME BusInv,
         \/ BusSeesDone \/ BusExits \/ CloseDone \/ UNCHANGED busVars
         \/ \E s \in Subscribers : SubExit(s)
  PROVE  BusInv'
<1>1. /\ UNCHANGED <<busRoom, busEvents, busCh, busEvent, busTo, busQueue, subCall, handled, missed, clVars>>
      /\ busDone' \in BOOLEAN /\ busPc' \in {"route", "drain", "exited"}
      /\ subExited' \subseteq Subscribers
  BY DEF BusInv, BusTypeOK, BusSeesDone, BusExits, CloseDone, SubExit, busVars, dispatchVars, subVars
<1> QED BY <1>1 DEF BusInv, BusTypeOK, ChannelInv, SubscriberInv, ClientInv, Got, Called, Wants, clVars

LEMMA BrowserKeeps ==
  ASSUME BusInv, NEW c \in Clients, Connect(c) \/ Write(c) \/ Disconnect(c)
  PROVE  BusInv'
<1> USE DEF BusInv
<1>1. UNCHANGED <<busRoom, busEvents, busCh, busDone, dispatchVars, busQueue, missed, subVars>>
  BY DEF Connect, Write, Disconnect
<1>2. /\ clQueue \in [Clients -> Seq(Ids)] /\ clSeen \in [Clients -> Seq(Ids)] /\ clOpen \subseteq Clients
  BY DEF BusTypeOK
<1>3. \A d \in Clients \ {c} : clQueue'[d] = clQueue[d] /\ clSeen'[d] = clSeen[d]
  BY <1>2 DEF Connect, Write, Disconnect
<1>4. ChannelInv' /\ \A s \in Subscribers : SubscriberInv(s)'
  BY <1>1 DEF ChannelInv, SubscriberInv, Got, Called, Wants, dispatchVars, subVars
<1>5. \A d \in Clients \ {c} : ClientInv(d)'
  BY <1>1, <1>3, ClientsUndisturbed DEF subVars
<1>6. CASE Connect(c)
  <2>1. clOpen' \subseteq Clients /\ UNCHANGED <<clQueue, clSeen>>
    BY <1>2, <1>6 DEF Connect
  <2>2. BusTypeOK'
    BY <1>1, <2>1 DEF BusTypeOK, dispatchVars, subVars
  <2>3. ClientInv(c)'
    BY <1>1, <2>1, ClientsUndisturbed DEF subVars
  <2> QED BY <1>4, <1>5, <2>2, <2>3
<1>7. CASE Write(c)
  <2> DEFINE id == Head(clQueue[c])
  <2>1. /\ clQueue[c] # <<>> /\ UNCHANGED clOpen
        /\ clSeen' = [clSeen EXCEPT ![c] = Append(@, id)] /\ clQueue' = [clQueue EXCEPT ![c] = Tail(@)]
    BY <1>7 DEF Write
  <2>2. /\ id \in Ids /\ Tail(clQueue[c]) \in Seq(Ids) /\ Range(clQueue[c]) = {id} \cup Range(Tail(clQueue[c]))
    BY <1>2, <2>1, Taken
  <2>3. Append(clSeen[c], id) \in Seq(Ids) /\ Range(Append(clSeen[c], id)) = Range(clSeen[c]) \cup {id}
    BY <1>2, <2>2, Appended
  <2>4. clQueue'[c] = Tail(clQueue[c]) /\ clSeen'[c] = Append(clSeen[c], id)
    BY <1>2, <2>1
  <2>5. BusTypeOK'
    <3>1. clQueue' \in [Clients -> Seq(Ids)] /\ clSeen' \in [Clients -> Seq(Ids)]
      BY <1>2, <2>1, <2>2, <2>3
    <3> QED BY <1>1, <2>1, <3>1 DEF BusTypeOK, dispatchVars, subVars
  <2>6. Increasing(clQueue'[c]) /\ Precede({id}, Range(clQueue'[c]))
    BY <2>1, <2>4, TakenInOrder, IdsAreNumbers DEF ClientInv
  <2>7. Increasing(clSeen'[c])
    BY <2>2, <2>4, AppendedInOrder, IdsAreNumbers DEF ClientInv, Precede
  <2>8. Precede(Range(clSeen'[c]), Range(clQueue'[c]))
    BY <2>2, <2>3, <2>4, <2>6 DEF ClientInv, Precede
  <2>9. ClientInv(c)'
    BY <1>1, <2>2, <2>3, <2>4, <2>6, <2>7, <2>8 DEF ClientInv, subVars
  <2> QED BY <1>4, <1>5, <2>5, <2>9
<1>8. CASE Disconnect(c)
  <2>1. /\ clOpen' \subseteq Clients /\ clQueue' = [clQueue EXCEPT ![c] = <<>>]
        /\ clSeen' = [clSeen EXCEPT ![c] = <<>>]
    BY <1>2, <1>8 DEF Disconnect
  <2>2. clQueue'[c] = <<>> /\ clSeen'[c] = <<>>
    BY <1>2, <2>1
  <2>3. clQueue' \in [Clients -> Seq(Ids)] /\ clSeen' \in [Clients -> Seq(Ids)]
    BY <1>2, <2>1, EmptyQueue
  <2>4. BusTypeOK'
    BY <1>1, <2>1, <2>3 DEF BusTypeOK, dispatchVars, subVars
  <2>5. ClientInv(c)'
    BY <2>2, EmptyQueue DEF ClientInv, Precede
  <2> QED BY <1>4, <1>5, <2>4, <2>5
<1> QED BY <1>6, <1>7, <1>8

-----------------------------------------------------------------------------
(* The loops                                                               *)

\* Updates to come, and those stored and not announced yet, stay within the bound.
UpdatesInv == \A w \in Loops : unsaid[w] + updates <= MaxUpdates

LoopInv == LpTypeOK /\ UpdatesInv /\ IntervalCurrentOrTold

RuntimeInv == TypeOK /\ BusInv /\ StopInv /\ LoopInv

LEMMA LoopsInitially == LpInit => LoopInv
<1> SUFFICES ASSUME LpInit PROVE LoopInv
  OBVIOUS
<1>1. setting \in [Loops -> Intervals] /\ lpInterval \in [Loops -> Intervals]
  BY LoopAssumption DEF LpInit
<1>2. \A w \in Loops : lpKeys[w] \in Seq(BOOLEAN) /\ Len(lpKeys[w]) <= SettingsBuf
  BY LoopAssumption, EmptySeq DEF LpInit
<1>3. lpKeys \in [Loops -> Seq(BOOLEAN)]
  BY EmptyQueue DEF LpInit
<1>4. LpTypeOK
  BY <1>1, <1>2, <1>3, LoopAssumption DEF LpInit, LpTypeOK
<1>5. UpdatesInv
  BY LoopAssumption DEF LpInit, UpdatesInv
<1>6. IntervalCurrentOrTold
  BY DEF LpInit, IntervalCurrentOrTold
<1> QED BY <1>4, <1>5, <1>6 DEF LoopInv

\* A loop that goes on, or is told to stop, keeps its interval and its channel.
LEMMA LoopMovesOn ==
  ASSUME LoopInv, NEW w \in Loops,
         \/ LpSubscribe(w) \/ LpTick(w) \/ LpTriggered(w) \/ LpBegin(w) \/ LpWorkDone(w) \/ LpEnd(w)
         \/ RunNow(w) \/ CloseStop(w)
  PROVE  LoopInv'
<1>1. UNCHANGED <<lpInterval, lpKeys, setVars>>
  BY DEF LpSubscribe, LpTick, LpTriggered, LpBegin, LpWorkDone, LpEnd, RunNow, CloseStop
<1>2. /\ lpPc' = lpPc \/ \E pc \in Subscribed :
           /\ lpPc' = [lpPc EXCEPT ![w] = pc]
           /\ pc = "read" \/ lpPc[w] \in Subscribed \ {"read"}
      /\ lpTrigger' \in [Loops -> BOOLEAN] /\ lpStop' \in [Loops -> BOOLEAN]
  BY DEF LpSubscribe, LpTick, LpTriggered, LpBegin, LpWorkDone, LpEnd, RunNow, CloseStop, LpGoto,
         Subscribed, LoopInv, LpTypeOK
<1>3. /\ lpPc' \in [Loops -> Subscribed \cup {"start", "exited"}]
      /\ \A v \in Loops : lpPc'[v] \in Subscribed \ {"read"} => lpPc[v] \in Subscribed \ {"read"}
  BY <1>2 DEF LoopInv, LpTypeOK
<1> QED BY <1>1, <1>2, <1>3 DEF LoopInv, LpTypeOK, UpdatesInv, IntervalCurrentOrTold, setVars

LEMMA LoopReads ==
  ASSUME LoopInv, NEW w \in Loops, LpRead(w) \/ LpExit(w)
  PROVE  LoopInv'
<1> USE DEF LoopInv, LpTypeOK
<1>1. /\ lpPc' \in [Loops -> Subscribed \cup {"start", "exited"}]
      /\ \A v \in Loops \ {w} : lpPc'[v] = lpPc[v]
      /\ UNCHANGED <<lpTrigger, lpStop, setting, unsaid, updates>>
  BY DEF LpRead, LpExit, LpGoto, Subscribed, setVars
<1>2. CASE LpRead(w)
  <2>1. /\ UNCHANGED lpKeys /\ lpInterval' = [lpInterval EXCEPT ![w] = setting[w]]
        /\ lpLost' = lpLost \ {w}
    BY <1>2 DEF LpRead, ReadInterval
  <2>2. lpInterval' \in [Loops -> Intervals] /\ lpInterval'[w] = setting[w]
        /\ \A v \in Loops \ {w} : lpInterval'[v] = lpInterval[v]
    BY <2>1
  <2> QED BY <1>1, <2>1, <2>2 DEF UpdatesInv, IntervalCurrentOrTold
<1>3. CASE LpExit(w)
  <2>1. /\ lpKeys' = [lpKeys EXCEPT ![w] = <<>>] /\ UNCHANGED <<lpInterval, lpLost>>
        /\ lpPc'[w] = "exited"
    BY <1>3 DEF LpExit, LpGoto, setVars
  <2>2. lpKeys' \in [Loops -> Seq(BOOLEAN)] /\ lpKeys'[w] = <<>>
        /\ \A v \in Loops \ {w} : lpKeys'[v] = lpKeys[v]
    BY <2>1, EmptyQueue
  <2>3. Len(lpKeys'[w]) <= SettingsBuf
    BY <2>2, EmptySeq, LoopAssumption
  <2>4. \A v \in Loops : Len(lpKeys'[v]) <= SettingsBuf
    BY <2>2, <2>3
  <2>5. IntervalCurrentOrTold'
    BY <1>1, <2>1, <2>2 DEF IntervalCurrentOrTold, Subscribed
  <2> QED BY <1>1, <2>1, <2>2, <2>4, <2>5 DEF UpdatesInv
<1> QED BY <1>2, <1>3

\* A key is taken: unless it is the loop's own, what tells the loop stays in the channel.
LEMMA LoopTakesKey ==
  ASSUME LoopInv, NEW w \in Loops, LpKey(w)
  PROVE  LoopInv'
<1> USE DEF LoopInv, LpTypeOK
<1>1. /\ lpKeys[w] # <<>> /\ lpKeys' = [lpKeys EXCEPT ![w] = Tail(@)]
      /\ UNCHANGED <<lpPc, lpTrigger, lpStop, setting, unsaid, updates>>
  BY DEF LpKey
<1>2. /\ Head(lpKeys[w]) \in BOOLEAN /\ Tail(lpKeys[w]) \in Seq(BOOLEAN)
      /\ Len(Tail(lpKeys[w])) = Len(lpKeys[w]) - 1 /\ Len(lpKeys[w]) \in Nat
      /\ Range(lpKeys[w]) = {Head(lpKeys[w])} \cup Range(Tail(lpKeys[w]))
  BY <1>1, Taken, LenProperties
<1>3. /\ lpKeys' \in [Loops -> Seq(BOOLEAN)] /\ lpKeys'[w] = Tail(lpKeys[w])
      /\ \A v \in Loops \ {w} : lpKeys'[v] = lpKeys[v]
  BY <1>1, <1>2
<1>4. \A v \in Loops : Len(lpKeys'[v]) <= SettingsBuf
  <2>1. Len(lpKeys'[w]) <= SettingsBuf
    BY <1>2, <1>3, LoopAssumption
  <2> QED BY <1>3, <2>1
<1>5. CASE Head(lpKeys[w])
  <2>1. lpInterval' = [lpInterval EXCEPT ![w] = setting[w]] /\ lpLost' = lpLost \ {w}
    BY <1>5 DEF LpKey, ReadInterval
  <2>2. lpInterval' \in [Loops -> Intervals] /\ lpInterval'[w] = setting[w]
        /\ \A v \in Loops \ {w} : lpInterval'[v] = lpInterval[v]
    BY <2>1
  <2> QED BY <1>1, <1>3, <1>4, <2>1, <2>2 DEF UpdatesInv, IntervalCurrentOrTold
<1>6. CASE ~Head(lpKeys[w])
  <2>1. UNCHANGED <<lpInterval, lpLost>>
    BY <1>6 DEF LpKey
  <2>2. TRUE \in Range(lpKeys[w]) => TRUE \in Range(lpKeys'[w])
    BY <1>2, <1>3, <1>6
  <2> QED BY <1>1, <1>3, <1>4, <2>1, <2>2 DEF UpdatesInv, IntervalCurrentOrTold
<1> QED BY <1>5, <1>6

\* notify adds a key to a subscribed channel with room, and takes none away.
LEMMA NotifyAdds ==
  ASSUME LpTypeOK, NEW keyOf, Notify(keyOf)
  PROVE  /\ lpKeys' \in [Loops -> Seq(BOOLEAN)]
         /\ \A w \in Loops :
              /\ Len(lpKeys'[w]) <= SettingsBuf
              /\ Range(lpKeys[w]) \subseteq Range(lpKeys'[w])
              /\ lpPc[w] \in Subscribed /\ Len(lpKeys[w]) # SettingsBuf =>
                   (w \in keyOf) \in Range(lpKeys'[w])
<1>1. ASSUME NEW w \in Loops
      PROVE  /\ lpKeys'[w] \in Seq(BOOLEAN) /\ Len(lpKeys'[w]) <= SettingsBuf
             /\ Range(lpKeys[w]) \subseteq Range(lpKeys'[w])
             /\ lpPc[w] \in Subscribed /\ Len(lpKeys[w]) # SettingsBuf =>
                  (w \in keyOf) \in Range(lpKeys'[w])
  <2> DEFINE key == w \in keyOf
  <2>1. key \in BOOLEAN /\ SettingsBuf \in Nat /\ lpKeys[w] \in Seq(BOOLEAN)
        /\ Len(lpKeys[w]) \in Nat /\ Len(lpKeys[w]) <= SettingsBuf
    BY LoopAssumption, LenProperties DEF LpTypeOK
  <2>2. lpKeys'[w] = IF lpPc[w] \in Subscribed /\ Len(lpKeys[w]) < SettingsBuf
                     THEN Append(lpKeys[w], key) ELSE lpKeys[w]
    BY DEF Notify
  <2> HIDE DEF key
  <2>3. /\ Append(lpKeys[w], key) \in Seq(BOOLEAN) /\ Len(Append(lpKeys[w], key)) = Len(lpKeys[w]) + 1
        /\ Range(Append(lpKeys[w], key)) = Range(lpKeys[w]) \cup {key}
    BY <2>1, Appended
  <2>4. CASE lpPc[w] \in Subscribed /\ Len(lpKeys[w]) < SettingsBuf
    <3>1. Len(lpKeys'[w]) <= SettingsBuf /\ key \in Range(lpKeys'[w])
          /\ Range(lpKeys[w]) \subseteq Range(lpKeys'[w]) /\ lpKeys'[w] \in Seq(BOOLEAN)
      BY <2>1, <2>2, <2>3, <2>4
    <3> QED BY <3>1 DEF key
  <2>5. CASE ~(lpPc[w] \in Subscribed /\ Len(lpKeys[w]) < SettingsBuf)
    BY <2>1, <2>2, <2>5
  <2> QED BY <2>4, <2>5
<1> QED BY <1>1 DEF Notify

LEMMA SettingsKeep ==
  ASSUME LoopInv,
         \/ UpdateOther
         \/ \E w \in Loops : NotifyInterval(w) \/ \E value \in Intervals : StoreInterval(w, value)
  PROVE  LoopInv'
<1> USE DEF LoopInv
<1>1. CASE UpdateOther
  <2>1. /\ Notify({}) /\ updates \in 0..MaxUpdates /\ updates > 0 /\ updates' = updates - 1
        /\ UNCHANGED <<lpPc, lpTrigger, lpStop, lpInterval, setting, unsaid, lpLost>>
    BY <1>1 DEF UpdateOther, LpTypeOK
  <2>2. updates' \in 0..MaxUpdates /\ \A w \in Loops : unsaid[w] + updates' <= MaxUpdates
    BY <2>1, LoopAssumption DEF UpdatesInv, LpTypeOK
  <2> QED BY <2>1, <2>2, NotifyAdds DEF LpTypeOK, UpdatesInv, IntervalCurrentOrTold
<1>2. ASSUME NEW w \in Loops, NotifyInterval(w) PROVE LoopInv'
  <2>1. /\ Notify({w}) /\ unsaid[w] > 0 /\ unsaid' = [unsaid EXCEPT ![w] = @ - 1]
        /\ lpLost' = IF lpPc[w] \in Subscribed /\ Len(lpKeys[w]) = SettingsBuf
                     THEN lpLost \cup {w} ELSE lpLost
        /\ UNCHANGED <<lpPc, lpTrigger, lpStop, lpInterval, setting, updates>>
    BY <1>2 DEF NotifyInterval
  <2>2. /\ unsaid' \in [Loops -> 0..MaxUpdates] /\ unsaid'[w] = unsaid[w] - 1
        /\ \A v \in Loops \ {w} : unsaid'[v] = unsaid[v]
    BY <2>1, LoopAssumption DEF LpTypeOK
  <2>3. \A v \in Loops : unsaid'[v] + updates <= MaxUpdates
    <3>1. unsaid[w] \in Nat /\ updates \in Nat /\ unsaid[w] + updates <= MaxUpdates /\ MaxUpdates \in Nat
      BY LoopAssumption DEF UpdatesInv, LpTypeOK
    <3>2. unsaid'[w] + updates <= MaxUpdates
      BY <2>2, <3>1
    <3>3. \A v \in Loops \ {w} : unsaid'[v] + updates <= MaxUpdates
      BY <2>2 DEF UpdatesInv
    <3> QED BY <3>2, <3>3
  <2>4. lpPc[w] \in Subscribed => TRUE \in Range(lpKeys'[w]) \/ w \in lpLost'
    <3>1. (w \in {w}) = TRUE
      OBVIOUS
    <3> QED BY <2>1, <3>1, NotifyAdds
  <2>5. IntervalCurrentOrTold'
    BY <2>1, <2>2, <2>4, NotifyAdds DEF IntervalCurrentOrTold
  <2>6. lpLost' \subseteq Loops
    BY <2>1 DEF LpTypeOK
  <2> QED BY <2>1, <2>2, <2>3, <2>5, <2>6, NotifyAdds DEF LpTypeOK, UpdatesInv
<1>3. ASSUME NEW w \in Loops, NEW value \in Intervals, StoreInterval(w, value) PROVE LoopInv'
  <2>1. /\ updates \in 0..MaxUpdates /\ updates > 0 /\ updates' = updates - 1
        /\ setting' = [setting EXCEPT ![w] = value] /\ unsaid' = [unsaid EXCEPT ![w] = @ + 1]
        /\ UNCHANGED <<lpVars, lpLost>>
    BY <1>3 DEF StoreInterval, LpTypeOK
  <2>2. unsaid[w] \in Nat /\ unsaid[w] + updates <= MaxUpdates /\ MaxUpdates \in Nat
    BY LoopAssumption DEF UpdatesInv, LpTypeOK
  <2>3. /\ unsaid' \in [Loops -> 0..MaxUpdates] /\ unsaid'[w] = unsaid[w] + 1
        /\ \A v \in Loops \ {w} : unsaid'[v] = unsaid[v]
    BY <2>1, <2>2 DEF LpTypeOK
  <2>4. updates' \in 0..MaxUpdates /\ \A v \in Loops : unsaid'[v] + updates' <= MaxUpdates
    BY <2>1, <2>2, <2>3 DEF UpdatesInv, LpTypeOK
  <2>5. setting' \in [Loops -> Intervals] /\ \A v \in Loops \ {w} : setting'[v] = setting[v]
    BY <2>1 DEF LpTypeOK
  <2>6. unsaid'[w] > 0
    BY <2>2, <2>3
  <2>7. IntervalCurrentOrTold'
    BY <2>1, <2>3, <2>5, <2>6 DEF lpVars, IntervalCurrentOrTold
  <2>8. LpTypeOK' /\ UpdatesInv'
    BY <2>1, <2>3, <2>4, <2>5 DEF lpVars, LpTypeOK, UpdatesInv
  <2> QED BY <2>7, <2>8
<1> QED BY <1>1, <1>2, <1>3

LEMMA LoopFrame ==
  ASSUME LoopInv, UNCHANGED <<lpVars, setVars>>
  PROVE  LoopInv'
BY DEF LoopInv, LpTypeOK, UpdatesInv, IntervalCurrentOrTold, lpVars, setVars

-----------------------------------------------------------------------------
(* The server                                                              *)

\* Every step as the bus, and as the loops, see it.
Publishing == \E type \in EventTypes : Publish(type)
Dispatching == Dispatch \/ \E s \in Subscribers : SubStep(s)
Browsing == \E c \in Clients : Connect(c) \/ Write(c) \/ Disconnect(c)

LoopMoves ==
  \E w \in Loops : \/ LpSubscribe(w) \/ LpTick(w) \/ LpTriggered(w) \/ LpBegin(w) \/ LpWorkDone(w)
                   \/ LpEnd(w) \/ RunNow(w) \/ CloseStop(w) \/ LpRead(w) \/ LpExit(w) \/ LpKey(w)

SettingsMove ==
  \/ UpdateOther
  \/ \E w \in Loops : NotifyInterval(w) \/ \E value \in Intervals : StoreInterval(w, value)

LEMMA RuntimeSteps ==
  ASSUME [Next]_vars
  PROVE  /\ \/ Publishing \/ Dispatching \/ Browsing \/ CloseDone \/ UNCHANGED busVars
         /\ LoopMoves \/ SettingsMove \/ UNCHANGED <<lpVars, setVars>>
<1>1. CASE UNCHANGED vars
  BY <1>1 DEF vars
<1>2. CASE Request
  BY <1>2, RuntimeAssumption DEF Request, RequestSettings, RequestPublish, RequestRun, RunNow,
     UpdateOther, NotifyInterval, StoreInterval, Publishing, LoopMoves, SettingsMove
<1>3. CASE Browse \/ Bus
  BY <1>3 DEF Browse, Bus, Browsing, Dispatching
<1>4. CASE Signal \/ HttpDrained \/ HttpTimeout \/ StopBus \/ CloseDatabase
  BY <1>4 DEF Signal, HttpDrained, HttpTimeout, StopBus, CloseDatabase
<1>5. ASSUME NEW w \in Loops, StopLoop(w)
      PROVE  UNCHANGED busVars /\ LoopMoves
  BY <1>5 DEF StopLoop, CloseStop, LoopMoves
<1>6. ASSUME NEW w \in Loops, Loop(w)
      PROVE  /\ Publishing \/ UNCHANGED busVars
             /\ LoopMoves \/ UNCHANGED <<lpVars, setVars>>
  <2>1. CASE WorkPublish(w)
    BY <2>1, RuntimeAssumption DEF WorkPublish, Publishing
  <2>2. CASE LpStep(w)
    <3>1. LoopMoves
      BY <2>2 DEF LpStep, LpGoesOn, LoopMoves
    <3>2. Publishing \/ UNCHANGED busVars
      BY <2>2, LoopAssumption DEF LpStep, LpGoesOn, LpSubscribe, LpTick, LpTriggered, LpBegin,
         LpWorkDone, LpEnd, LpRead, LpExit, LpKey, Announce, Publishing
    <3> QED BY <3>1, <3>2
  <2> QED BY <1>6, <2>1, <2>2 DEF Loop
<1> QED BY <1>1, <1>2, <1>3, <1>4, <1>5, <1>6 DEF Next, Shutdown

LEMMA BusKept ==
  ASSUME BusInv, Publishing \/ Dispatching \/ Browsing \/ CloseDone \/ UNCHANGED busVars
  PROVE  BusInv'
<1>1. CASE Publishing
  BY <1>1, PublishKeeps DEF Publishing
<1>2. CASE Dispatching
  BY <1>2, RouteKeeps, DeliverKeeps, ReceiveKeeps, ReturnKeeps, SignalKeeps
     DEF Dispatching, Dispatch, SubStep
<1>3. CASE Browsing
  BY <1>3, BrowserKeeps DEF Browsing
<1>4. CASE CloseDone \/ UNCHANGED busVars
  BY <1>4, SignalKeeps
<1> QED BY <1>1, <1>2, <1>3, <1>4

LEMMA LoopsKept ==
  ASSUME LoopInv, LoopMoves \/ SettingsMove \/ UNCHANGED <<lpVars, setVars>>
  PROVE  LoopInv'
<1>1. CASE LoopMoves
  BY <1>1, LoopMovesOn, LoopReads, LoopTakesKey DEF LoopMoves
<1>2. CASE SettingsMove
  BY <1>2, SettingsKeep DEF SettingsMove
<1> QED BY <1>1, <1>2, LoopFrame

\* A loop that has exited does nothing, and nobody but the loops and the requests publishes.
LEMMA ExitedLoopsRest ==
  ASSUME LpTypeOK, [Next]_vars, rtPc \in {"bus", "closed"}, \A w \in Loops : lpPc[w] = "exited"
  PROVE  /\ \A w \in Loops : lpPc'[w] = "exited"
         /\ rtServing \/ UNCHANGED busEvents
<1>1. ASSUME NEW w \in Loops, LpStep(w) \/ WorkPublish(w) PROVE FALSE
  BY <1>1 DEF LpStep, LpGoesOn, LpSubscribe, LpRead, LpTriggered, LpBegin, LpWorkDone, LpEnd, LpTick,
     LpKey, LpExit, WorkPublish
<1>2. CASE Request
  BY <1>2 DEF Request, RequestSettings, RequestPublish, RequestRun, RunNow, UpdateOther,
     NotifyInterval, StoreInterval, lpVars
<1>3. CASE Browse
  BY <1>3 DEF Browse, Connect, Write, Disconnect, lpVars
<1>4. CASE Bus
  BY <1>4 DEF Bus, Dispatch, Route, BusSeesDone, BusExits, Deliver, SubStep, SubReceive, SubReturn,
     SubExit, lpVars
<1>5. CASE Signal \/ CloseDatabase \/ UNCHANGED vars
  BY <1>5 DEF Signal, CloseDatabase, vars, busVars, lpVars
<1>6. ~HttpDrained /\ ~HttpTimeout /\ ~StopBus /\ \A w \in Loops : ~StopLoop(w)
  BY DEF HttpDrained, HttpTimeout, StopBus, StopLoop
<1> QED BY <1>1, <1>2, <1>3, <1>4, <1>5, <1>6 DEF Next, Loop, Shutdown

\* What the shutdown goes by, and what leaves it alone.
LEMMA QuietSteps ==
  ASSUME BusInv, StopInv, LpTypeOK, rtMark \in Nat, [Next]_vars,
         UNCHANGED <<busDone, dispatchVars, busQueue, subCall, subExited, rtVars>>,
         Len(busEvents) <= Len(busEvents')
  PROVE  StopInv'
<1>1. Len(busEvents) \in Nat /\ Len(busEvents') \in Nat
  <2>1. BusInv'
    BY RuntimeSteps, BusKept
  <2> QED BY <2>1, LenProperties DEF BusInv, BusTypeOK
<1>2. rtPc \in {"bus", "closed"} =>
        /\ \A w \in Loops : lpPc'[w] = "exited"
        /\ rtServing \/ UNCHANGED busEvents
  BY ExitedLoopsRest DEF StopInv
<1>3. rtPc' \in {"bus", "closed"} =>
        /\ \A w \in Loops : lpPc'[w] = "exited"
        /\ rtMark' <= Len(busEvents')
        /\ rtServing' \/ rtMark' = Len(busEvents')
  BY <1>1, <1>2 DEF StopInv, rtVars
<1> QED BY <1>3 DEF StopInv, rtVars, dispatchVars, BusStopped

LEMMA DispatchKeepsStop ==
  ASSUME BusInv, StopInv, rtMark \in Nat, rtPc # "closed", Dispatch, UNCHANGED <<lpVars, rtVars>>
  PROVE  StopInv'
<1> USE DEF StopInv
<1>1. UNCHANGED <<busEvents, busDone, subCall, subExited>>
  BY DEF Dispatch, Route, BusSeesDone, BusExits, Deliver, subVars
<1>2. rtPc' \in {"bus", "closed"} =>
        /\ \A w \in Loops : lpPc'[w] = "exited"
        /\ rtMark' <= Len(busEvents')
        /\ rtServing' \/ rtMark' = Len(busEvents')
  BY <1>1 DEF rtVars, lpVars
<1>3. busDone' => rtPc' \in {"bus", "closed"}
  BY <1>1 DEF rtVars
<1>4. busPc # "exited" /\ subExited = {}
  <2>1. busPc # "exited"
    BY DEF Dispatch, Route, BusSeesDone, BusExits, Deliver, InTurn
  <2> QED BY <2>1
<1>5. CASE Route \/ BusSeesDone \/ \E s \in Subscribers : Deliver(s)
  <2>1. busPc' # "exited" /\ (busPc' # "route" => busDone)
    BY <1>4, <1>5 DEF Route, BusSeesDone, Deliver, BusInv, BusTypeOK
  <2> QED BY <1>1, <1>2, <1>3, <1>4, <2>1 DEF rtVars
<1>6. CASE BusExits
  <2>1. busDone /\ busTo = {} /\ busCh = <<>> /\ UNCHANGED <<busEvent, busTo>> /\ busPc' = "exited"
    BY <1>6 DEF BusExits
  <2>2. rtMark <= Len(busEvents) /\ Len(busEvents) \in Nat /\ busEvent \in Nat
    BY <2>1, IdsAreNumbers DEF BusInv
  <2>3. Len(busEvents) <= busEvent
    <3>1. (busEvent + 1)..Len(busEvents) = {}
      BY <2>1, EmptyQueue DEF BusInv, ChannelInv
    <3>2. busEvent + 1 <= Len(busEvents) => busEvent + 1 \in (busEvent + 1)..Len(busEvents)
      BY <2>2
    <3>3. ~(busEvent + 1 <= Len(busEvents))
      BY <3>1, <3>2
    <3> QED BY <2>2, <3>3
  <2>4. rtMark' <= busEvent'
    BY <2>1, <2>2, <2>3 DEF rtVars
  <2> QED BY <1>1, <1>2, <1>3, <1>4, <2>1, <2>4 DEF rtVars
<1> QED BY <1>5, <1>6 DEF Dispatch

LEMMA SubscribersKeepStop ==
  ASSUME BusInv, StopInv, rtPc # "closed", NEW s \in Subscribers, SubStep(s), UNCHANGED <<lpVars, rtVars>>
  PROVE  StopInv'
<1> USE DEF StopInv
<1>1. UNCHANGED <<busEvents, busDone, dispatchVars>>
  BY DEF SubStep, SubReceive, SubReturn, SubExit
<1>2. CASE SubReceive(s) \/ SubReturn(s)
  <2>1. /\ s \notin subExited /\ UNCHANGED subExited
        /\ \A t \in Subscribers \ {s} : busQueue'[t] = busQueue[t] /\ subCall'[t] = subCall[t]
    BY <1>2 DEF SubReceive, SubReturn, BusInv, BusTypeOK
  <2>2. \A t \in subExited : busQueue'[t] = <<>> /\ subCall'[t] = 0
    BY <2>1 DEF BusInv, BusTypeOK
  <2> QED BY <1>1, <2>1, <2>2 DEF rtVars, lpVars, dispatchVars
<1>3. CASE SubExit(s)
  <2>1. /\ subExited' = subExited \cup {s} /\ UNCHANGED <<busQueue, subCall>>
        /\ subCall[s] = 0 /\ busPc = "exited" /\ busQueue[s] = <<>>
    BY <1>3 DEF SubExit
  <2> QED BY <1>1, <2>1 DEF rtVars, lpVars, dispatchVars
<1> QED BY <1>2, <1>3 DEF SubStep

LEMMA MainKeepsStop ==
  ASSUME BusInv, StopInv, LpTypeOK, Signal \/ HttpDrained \/ HttpTimeout \/ StopBus \/ CloseDatabase
  PROVE  StopInv'
<1> USE DEF StopInv
<1>1. CASE Signal \/ HttpDrained \/ HttpTimeout
  <2>1. rtPc \notin {"bus", "closed"} /\ rtPc' \notin {"bus", "closed"}
        /\ UNCHANGED <<busVars, lpVars, rtMark>>
    BY <1>1 DEF Signal, HttpDrained, HttpTimeout, RtGoto
  <2> QED BY <2>1 DEF busVars, dispatchVars, subVars
<1>2. CASE StopBus
  <2>1. /\ rtPc = "stop" /\ rtPc' = "bus" /\ rtMark' = Len(busEvents) /\ busDone' = TRUE
        /\ \A w \in Loops : lpPc[w] = "exited"
        /\ UNCHANGED <<busEvents, dispatchVars, busQueue, subVars, lpVars, rtServing>>
    BY <1>2 DEF StopBus, StopsReturned, CloseDone, RtGoto
  <2>2. Len(busEvents) \in Nat
    BY IdsAreNumbers DEF BusInv
  <2>3. busPc = "route" /\ subExited = {}
    BY <2>1 DEF BusInv, BusTypeOK
  <2> QED BY <2>1, <2>2, <2>3 DEF dispatchVars, subVars, lpVars
<1>3. CASE CloseDatabase
  <2>1. rtPc = "bus" /\ rtPc' = "closed" /\ BusStopped /\ UNCHANGED <<busVars, lpVars, rtServing, rtMark>>
    BY <1>3 DEF CloseDatabase, RtGoto
  <2> QED BY <2>1 DEF busVars, dispatchVars, subVars, lpVars, BusStopped
<1> QED BY <1>1, <1>2, <1>3

-----------------------------------------------------------------------------
(* Every behaviour                                                         *)

LEMMA RuntimeInvInitially == Init => RuntimeInv
<1> SUFFICES ASSUME Init PROVE RuntimeInv
  OBVIOUS
<1>1. BusInv /\ LoopInv
  BY BusInitially, LoopsInitially DEF Init
<1>2. BusTypeOK /\ LpTypeOK /\ IntervalCurrentOrTold
  BY <1>1 DEF BusInv, LoopInv
<1>3. TypeOK
  BY <1>2, BusAssumption DEF Init, TypeOK
<1>4. StopInv
  BY DEF Init, BusInit, StopInv, BusStopped
<1> QED BY <1>1, <1>2, <1>3, <1>4 DEF RuntimeInv, LoopInv

LEMMA RuntimeInvKept == RuntimeInv /\ [Next]_vars => RuntimeInv'
<1> SUFFICES ASSUME RuntimeInv, [Next]_vars PROVE RuntimeInv'
  OBVIOUS
<1>1. /\ BusInv /\ LoopInv /\ StopInv /\ rtMark \in 0..MaxEvents /\ rtServing \in BOOLEAN
      /\ rtPc \in {"up", "drain", "stop", "bus", "closed"}
      /\ BusTypeOK /\ LpTypeOK /\ MaxEvents \in Nat
  BY BusAssumption DEF RuntimeInv, TypeOK, BusInv, LoopInv
<1>2. BusInv' /\ LoopInv'
  BY <1>1, RuntimeSteps, BusKept, LoopsKept
<1>3. BusTypeOK' /\ LpTypeOK' /\ UpdatesInv' /\ IntervalCurrentOrTold'
  BY <1>2 DEF BusInv, LoopInv
<1>4. TypeOK'
  <2>1. CASE UNCHANGED rtVars
    BY <1>1, <1>3, <2>1 DEF TypeOK, rtVars
  <2>2. CASE Signal \/ HttpDrained \/ HttpTimeout \/ CloseDatabase
    BY <1>1, <1>3, <2>2 DEF Signal, HttpDrained, HttpTimeout, CloseDatabase, RtGoto, TypeOK
  <2>3. CASE StopBus
    <3>1. rtMark' \in 0..MaxEvents
      BY <1>1, <2>3, IdsAreNumbers DEF StopBus, BusTypeOK
    <3> QED BY <1>1, <1>3, <2>3, <3>1 DEF StopBus, RtGoto, TypeOK
  <2> QED BY <2>1, <2>2, <2>3 DEF Next, Request, Browse, Bus, Loop, WorkPublish, Shutdown, StopLoop, vars
<1>5. StopInv'
  <2>1. CASE Signal \/ HttpDrained \/ HttpTimeout \/ StopBus \/ CloseDatabase
    BY <1>1, <2>1, MainKeepsStop
  <2>2. CASE Bus /\ rtPc # "closed"
    BY <1>1, <2>2, DispatchKeepsStop, SubscribersKeepStop DEF Bus
  <2>3. CASE \/ Request \/ Browse \/ UNCHANGED vars
             \/ \E w \in Loops : Loop(w) \/ StopLoop(w)
    <3>1. UNCHANGED rtVars /\ (Publishing \/ Browsing \/ UNCHANGED busVars)
      <4>1. UNCHANGED rtVars
        BY <2>3 DEF Request, Browse, Loop, WorkPublish, StopLoop, vars
      <4>2. CASE Request
        BY <4>2, RuntimeAssumption DEF Request, RequestSettings, RequestPublish, RequestRun, RunNow,
           UpdateOther, NotifyInterval, StoreInterval, Publishing
      <4>3. CASE Browse
        BY <4>3 DEF Browse, Browsing
      <4>4. ASSUME NEW w \in Loops, Loop(w) \/ StopLoop(w) PROVE Publishing \/ UNCHANGED busVars
        BY <4>4, LoopAssumption, RuntimeAssumption
           DEF Loop, WorkPublish, StopLoop, CloseStop, LpStep, LpGoesOn, LpSubscribe, LpTick,
               LpTriggered, LpBegin, LpWorkDone, LpEnd, LpRead, LpExit, LpKey, Announce, Publishing
      <4> QED BY <2>3, <4>1, <4>2, <4>3, <4>4 DEF vars
    <3>2. UNCHANGED <<busDone, dispatchVars, busQueue, subCall, subExited>>
      BY <3>1 DEF Publishing, Publish, Browsing, Connect, Write, Disconnect, busVars, subVars
    <3>3. Len(busEvents) <= Len(busEvents')
      <4>1. Len(busEvents) \in Nat /\ busEvents \in Seq(EventTypes)
        BY <1>1, IdsAreNumbers DEF BusTypeOK
      <4>2. ASSUME NEW type \in EventTypes, Publish(type) PROVE Len(busEvents) <= Len(busEvents')
        BY <4>1, <4>2, AppendProperties DEF Publish
      <4>3. CASE Browsing \/ UNCHANGED busVars
        BY <4>1, <4>3 DEF Browsing, Connect, Write, Disconnect, busVars
      <4> QED BY <3>1, <4>2, <4>3 DEF Publishing
    <3> QED BY <1>1, <3>1, <3>2, <3>3, QuietSteps
  <2> QED BY <2>1, <2>2, <2>3 DEF Next, Shutdown
<1> QED BY <1>2, <1>3, <1>4, <1>5 DEF RuntimeInv

\* Every variable of the server stays within its type: no more events than the bound, no
\* queue and no settings channel beyond its capacity.
THEOREM RuntimeTypes == Spec => []TypeOK
<1>1. RuntimeInv => TypeOK
  BY DEF RuntimeInv
<1> QED BY <1>1, RuntimeInvInitially, RuntimeInvKept, PTL DEF Spec

LEMMA AccountedFor == BusInv => EventsAccountedFor
<1> SUFFICES ASSUME BusInv, NEW s \in Subscribers, NEW id \in 1..Len(busEvents), s \in Wants(id)
             PROVE  \/ id \in OnTheWay(s) /\ id \notin Range(handled[s]) \cup missed[s]
                    \/ id \notin OnTheWay(s) /\ (id \in Range(handled[s]) <=> id \notin missed[s])
  BY DEF EventsAccountedFor
<1> USE DEF BusInv
<1>1. /\ id \in Nat /\ id # 0 /\ busEvent \in Nat /\ Len(busEvents) \in Nat
      /\ Got(s) \cup missed[s] \subseteq Nat
  BY IdsAreNumbers DEF Got, Called
<1>2. /\ Range(busCh) = (busEvent + 1)..Len(busEvents) /\ busEvent <= Len(busEvents)
      /\ SubscriberInv(s)
  BY DEF ChannelInv
<1>3. id \in OnTheWay(s) <=> \/ id > busEvent
                             \/ s \in busTo /\ id = busEvent
                             \/ id \in Range(busQueue[s]) \cup Called(s)
  BY <1>1, <1>2 DEF OnTheWay, Called
<1>4. CASE id > busEvent \/ (s \in busTo /\ id = busEvent)
  <2>1. \A n \in Got(s) \cup missed[s] : n <= busEvent /\ (s \in busTo => n < busEvent)
    BY <1>2 DEF SubscriberInv
  <2>2. id \notin Got(s) \cup missed[s]
    BY <1>1, <1>4, <2>1
  <2> QED BY <1>3, <1>4, <2>2 DEF Got
<1>5. CASE ~(id > busEvent \/ (s \in busTo /\ id = busEvent))
  <2>1. id \in 1..busEvent
    BY <1>1, <1>5
  <2>2. id \in Got(s) \cup missed[s]
    BY <1>2, <1>5, <2>1 DEF SubscriberInv
  <2>3. Got(s) \cap missed[s] = {}
    BY <1>2 DEF SubscriberInv
  <2>4. id \in Range(handled[s]) => id \notin Range(busQueue[s]) \cup Called(s)
    BY <1>1, <1>2 DEF SubscriberInv, Precede
  <2> QED BY <1>3, <1>5, <2>2, <2>3, <2>4 DEF Got
<1> QED BY <1>4, <1>5

LEMMA Drained == TypeOK /\ BusInv /\ StopInv => DrainedAtStop
<1> SUFFICES ASSUME TypeOK, BusInv, StopInv, rtPc = "closed", NEW s \in Subscribers, NEW id \in OnTheWay(s)
             PROVE  rtServing /\ id > rtMark
  BY DEF DrainedAtStop
<1>1. busPc = "exited" /\ busTo = {} /\ rtMark <= busEvent /\ busQueue[s] = <<>> /\ subCall[s] = 0
      /\ rtMark <= Len(busEvents) /\ (rtServing \/ rtMark = Len(busEvents))
  BY DEF StopInv, BusStopped
<1>2. id \in (busEvent + 1)..Len(busEvents)
  BY <1>1, EmptyQueue DEF OnTheWay, BusInv, ChannelInv
<1>3. busEvent \in Nat /\ Len(busEvents) \in Nat /\ rtMark <= busEvent
  BY <1>1, IdsAreNumbers DEF BusInv
<1>4. id > busEvent /\ id <= Len(busEvents) /\ id \in Nat /\ rtMark \in Nat
  BY <1>2, <1>3, BusAssumption DEF TypeOK
<1> QED BY <1>1, <1>3, <1>4

\* eventbus and the shutdown in main: every subscriber handles, and every browser is sent,
\* its events in the order of publication and once; an accepted event is lost for a
\* subscriber only to that subscriber's own full queue; and bus.Stop returns with all
\* handled that was published before it was called.
THEOREM EventsAlwaysDelivered == Spec => []EventsDelivered
<1>1. RuntimeInv => EventsDelivered
  <2>1. RuntimeInv => EventsInOrder
    BY DEF RuntimeInv, BusInv, SubscriberInv, ClientInv, EventsInOrder
  <2> QED BY <2>1, AccountedFor, Drained DEF RuntimeInv, EventsDelivered
<1> QED BY <1>1, RuntimeInvInitially, RuntimeInvKept, PTL DEF Spec

\* worker.Loop and settings.Service: a loop that goes by an interval other than the stored
\* one has a key to take that makes it read again, or a notification is still to come, or
\* one found its channel full.
THEOREM IntervalAlwaysTold == Spec => []IntervalCurrentOrTold
<1>1. RuntimeInv => IntervalCurrentOrTold
  BY DEF RuntimeInv, LoopInv
<1> QED BY <1>1, RuntimeInvInitially, RuntimeInvKept, PTL DEF Spec
=============================================================================
