----------------------------- MODULE WorkerLoop -----------------------------
(***************************************************************************)
(* worker.Loop, worker.Registry and the notifications of settings.Service: *)
(* a loop runs its Process on ticks and on RunNow, publishes the start and *)
(* the end of each run, and follows the stored setting of its interval,    *)
(* told of changes by a channel that drops what it cannot hold.            *)
(***************************************************************************)
EXTENDS EventBus

CONSTANTS
  Loops,         \* the workers
  Registered,    \* those in the registry, which are those with a start-up delay
  Intervals,     \* values of an interval
  SettingsBuf,   \* capacity of a loop's settings channel
  MaxUpdates     \* bound: updates of settings in this instance

ASSUME LoopAssumption ==
  /\ Registered \subseteq Loops
  /\ "worker" \in EventTypes
  /\ Intervals # {}
  /\ SettingsBuf \in Nat \ {0}
  /\ MaxUpdates \in Nat

VARIABLES
  lpPc,        \* where each loop stands
  lpTrigger,   \* the one slot of runCh is filled
  lpStop,      \* stopCh is closed
  lpInterval,  \* the interval the loop goes by
  lpKeys,      \* the settings channel: for each key whether it is the loop's own
  setting,     \* the stored interval of each loop
  unsaid,      \* of each loop: notifications of its interval that are still to come
  lpLost,      \* loops that a notification of their interval did not reach
  updates      \* bound: how many more settings this behaviour updates

lpVars == <<lpPc, lpTrigger, lpStop, lpInterval, lpKeys>>
setVars == <<setting, unsaid, lpLost, updates>>

Subscribed == {"read", "delay", "select", "begin", "work", "end"}

LpTypeOK ==
  /\ lpPc \in [Loops -> Subscribed \cup {"start", "exited"}]
  /\ lpTrigger \in [Loops -> BOOLEAN]
  /\ lpStop \in [Loops -> BOOLEAN]
  /\ lpInterval \in [Loops -> Intervals]
  /\ lpKeys \in [Loops -> Seq(BOOLEAN)]
  /\ \A w \in Loops : Len(lpKeys[w]) <= SettingsBuf
  /\ setting \in [Loops -> Intervals]
  /\ unsaid \in [Loops -> 0..MaxUpdates]
  /\ lpLost \subseteq Loops
  /\ updates \in 0..MaxUpdates

LpInit ==
  /\ lpPc = [w \in Loops |-> "start"]
  /\ lpTrigger = [w \in Loops |-> FALSE]
  /\ lpStop = [w \in Loops |-> FALSE]
  /\ setting = [w \in Loops |-> CHOOSE value \in Intervals : TRUE]
  /\ lpInterval = setting
  /\ lpKeys = [w \in Loops |-> <<>>]
  /\ unsaid = [w \in Loops |-> 0] /\ lpLost = {}
  /\ updates \in 0..MaxUpdates

LpGoto(w, pc) == lpPc' = [lpPc EXCEPT ![w] = pc]

\* The loop adopts the interval stored now.
ReadInterval(w) ==
  /\ lpInterval' = [lpInterval EXCEPT ![w] = setting[w]]
  /\ lpLost' = lpLost \ {w}

\* OnStateChange is there for registered loops only.
Announce(w) == IF w \in Registered THEN Publish("worker") ELSE UNCHANGED busVars

-----------------------------------------------------------------------------
(* run                                                                     *)

LpSubscribe(w) ==
  /\ lpPc[w] = "start"
  /\ LpGoto(w, "read")
  /\ UNCHANGED <<lpTrigger, lpStop, lpInterval, lpKeys, setVars, busVars>>

LpRead(w) ==
  /\ lpPc[w] = "read"
  /\ ReadInterval(w)
  /\ LpGoto(w, IF w \in Registered THEN "delay" ELSE "select")
  /\ UNCHANGED <<lpTrigger, lpStop, lpKeys, setting, unsaid, updates, busVars>>

\* Mutant: a run begins with an empty settings channel.
LpTickDrains(w) ==
  /\ lpPc[w] \in {"delay", "select"}
  /\ LpGoto(w, "begin")
  /\ lpKeys' = [lpKeys EXCEPT ![w] = <<>>]
  /\ UNCHANGED <<lpTrigger, lpStop, lpInterval, setVars, busVars>>

\* A tick, or the end of the start-up delay.
LpTick(w) ==
  /\ lpPc[w] \in {"delay", "select"}
  /\ LpGoto(w, "begin")
  /\ UNCHANGED <<lpTrigger, lpStop, lpInterval, lpKeys, setVars, busVars>>

\* The slot is emptied before the run begins: a trigger during the run leads to another.
LpTriggered(w) ==
  /\ lpPc[w] \in {"delay", "select"}
  /\ lpTrigger[w]
  /\ lpTrigger' = [lpTrigger EXCEPT ![w] = FALSE]
  /\ LpGoto(w, "begin")
  /\ UNCHANGED <<lpStop, lpInterval, lpKeys, setVars, busVars>>

\* process: running is set and the start published; Process runs; running is
\* cleared and the end published.
LpBegin(w) ==
  /\ lpPc[w] = "begin"
  /\ Announce(w)
  /\ LpGoto(w, "work")
  /\ UNCHANGED <<lpTrigger, lpStop, lpInterval, lpKeys, setVars>>

LpWorkDone(w) ==
  /\ lpPc[w] = "work"
  /\ LpGoto(w, "end")
  /\ UNCHANGED <<lpTrigger, lpStop, lpInterval, lpKeys, setVars, busVars>>

\* Mutant: the slot is emptied after the run.
LpEndForgets(w) ==
  /\ lpPc[w] = "end"
  /\ Announce(w)
  /\ LpGoto(w, "select")
  /\ lpTrigger' = [lpTrigger EXCEPT ![w] = FALSE]
  /\ UNCHANGED <<lpStop, lpInterval, lpKeys, setVars>>

LpEnd(w) ==
  /\ lpPc[w] = "end"
  /\ Announce(w)
  /\ LpGoto(w, "select")
  /\ UNCHANGED <<lpTrigger, lpStop, lpInterval, lpKeys, setVars>>

\* A key arrives; the value is the one stored now, not the one that was announced.
LpKey(w) ==
  /\ lpPc[w] = "select"
  /\ lpKeys[w] # <<>>
  /\ lpKeys' = [lpKeys EXCEPT ![w] = Tail(@)]
  /\ IF Head(lpKeys[w]) THEN ReadInterval(w) ELSE UNCHANGED <<lpInterval, lpLost>>
  /\ UNCHANGED <<lpPc, lpTrigger, lpStop, setting, unsaid, updates, busVars>>

\* Mutant: the start-up delay is slept through.
LpExitNotDelayed(w) ==
  /\ lpPc[w] = "select"
  /\ lpStop[w]
  /\ LpGoto(w, "exited")
  /\ lpKeys' = [lpKeys EXCEPT ![w] = <<>>]
  /\ UNCHANGED <<lpTrigger, lpStop, lpInterval, setVars, busVars>>

\* The loop unsubscribes, and doneCh is closed.
LpExit(w) ==
  /\ lpPc[w] \in {"delay", "select"}
  /\ lpStop[w]
  /\ LpGoto(w, "exited")
  /\ lpKeys' = [lpKeys EXCEPT ![w] = <<>>]
  /\ UNCHANGED <<lpTrigger, lpStop, lpInterval, setVars, busVars>>

\* What the goroutine goes on with; ticks, keys and the stop are events.
LpGoesOn(w) ==
  LpSubscribe(w) \/ LpRead(w) \/ LpTriggered(w) \/ LpBegin(w) \/ LpWorkDone(w) \/ LpEnd(w)

LpStep(w) == LpGoesOn(w) \/ LpTick(w) \/ LpKey(w) \/ LpExit(w)

-----------------------------------------------------------------------------
\* Non-blocking: a slot that is filled stays filled.
RunNow(w) ==
  /\ ~lpTrigger[w]
  /\ lpTrigger' = [lpTrigger EXCEPT ![w] = TRUE]
  /\ UNCHANGED <<lpPc, lpStop, lpInterval, lpKeys, setVars, busVars>>

CloseStop(w) ==
  /\ lpStop' = [lpStop EXCEPT ![w] = TRUE]
  /\ UNCHANGED <<lpPc, lpTrigger, lpInterval, lpKeys, setVars, busVars>>

\* Settings.Update stores a value, and notifies the subscribers afterwards.
StoreInterval(w, value) ==
  /\ updates > 0
  /\ updates' = updates - 1
  /\ setting' = [setting EXCEPT ![w] = value]
  /\ unsaid' = [unsaid EXCEPT ![w] = @ + 1]
  /\ UNCHANGED <<lpVars, lpLost, busVars>>

\* notify: each subscribed channel gets the key, if it has room for it.
Notify(keyOf) ==
  lpKeys' = [w \in Loops |->
    IF lpPc[w] \in Subscribed /\ Len(lpKeys[w]) < SettingsBuf
    THEN Append(lpKeys[w], w \in keyOf) ELSE lpKeys[w]]

NotifyInterval(w) ==
  /\ unsaid[w] > 0
  /\ unsaid' = [unsaid EXCEPT ![w] = @ - 1]
  /\ Notify({w})
  /\ lpLost' = IF lpPc[w] \in Subscribed /\ Len(lpKeys[w]) = SettingsBuf
               THEN lpLost \cup {w} ELSE lpLost
  /\ UNCHANGED <<lpPc, lpTrigger, lpStop, lpInterval, setting, updates, busVars>>

\* Any other setting is stored and announced.
UpdateOther ==
  /\ updates > 0
  /\ updates' = updates - 1
  /\ Notify({})
  /\ UNCHANGED <<lpPc, lpTrigger, lpStop, lpInterval, setting, unsaid, lpLost, busVars>>
=============================================================================
