---------------------------- MODULE ThrottleProofs -----------------------------
(***************************************************************************)
(* Theorems about Throttle: for every set of heights, interval and number  *)
(* of readings.                                                            *)
(***************************************************************************)
EXTENDS Throttle, TLAPS

(* LatestIsKept and NoRepeatPending support each other: Flush may take the *)
(* pending reading for the latest only because nothing waits before there  *)
(* has been a decision, and the goroutines that publish touch neither.     *)
IInv == TypeOK /\ LatestIsKept /\ NoRepeatPending

LEMMA InitIInv == Init => IInv
<1> SUFFICES ASSUME Init PROVE IInv
  OBVIOUS
<1>1. serving \in BOOLEAN /\ atRest \in BOOLEAN BY DEF Init
<1>2. since \in 0..MinInterval /\ readings \in 0..MaxReadings
        /\ drops \in 0..MaxDrops /\ connects \in 0..MaxConnects
  BY ThrottleAssumption DEF Init
<1>3. overtaken \in BOOLEAN /\ raced \in BOOLEAN /\ up \in BOOLEAN
  BY DEF Init
<1> QED BY <1>1, <1>2, <1>3 DEF Init, IInv, TypeOK, LatestIsKept,
           NoRepeatPending, Height, Flight

(* A reading of the desk: dropped, published at once or made to wait.      *)
LEMMA SetStep ==
  ASSUME NEW v \in Heights, NEW force \in BOOLEAN, IInv, Set(v, force)
  PROVE  IInv'
<1> USE ThrottleAssumption DEF IInv, throttleVars, outVars, mqttVars, Height
<1>1. readings' \in 0..MaxReadings BY DEF Set, TypeOK
<1>2. atRest' \in BOOLEAN /\ serving' \in BOOLEAN BY Zenon DEF Set, TypeOK
<1>3. inSet' \in Flight /\ inFlush' \in Flight
  BY DEF Set, Unchanged, PublishNow, Coalesce, TypeOK, Flight
<1>4. last' \in Height /\ pending' \in Height /\ since' \in 0..MinInterval
  BY DEF Set, Unchanged, PublishNow, Coalesce, Decide, TypeOK
<1>5. UNCHANGED <<outVars, mqttVars>> BY DEF Set
<1>6. TypeOK'
  BY <1>1, <1>2, <1>3, <1>4, <1>5 DEF Set, TypeOK, Call
<1>7. LatestIsKept' /\ NoRepeatPending'
  BY DEF Set, Unchanged, PublishNow, Coalesce, Decide, LatestIsKept,
         NoRepeatPending
<1> QED BY <1>6, <1>7

(* The pending reading goes out from the ticker.                           *)
LEMMA FlushStep == IInv /\ Flush => IInv'
<1> SUFFICES ASSUME IInv, Flush PROVE IInv'
  OBVIOUS
<1> USE ThrottleAssumption DEF IInv, outVars, mqttVars, deskVars, Decide
<1>1. inFlush' \in Flight BY DEF Flush, TypeOK, Flight, Height
<1>2. TypeOK' BY <1>1 DEF Flush, TypeOK, Height, Call
<1>3. LatestIsKept' /\ NoRepeatPending'
  BY DEF Flush, LatestIsKept, NoRepeatPending
<1> QED BY <1>2, <1>3

(* Publishing changes neither the throttle nor what the desk has sent.     *)
LEMMA PublishStep == IInv /\ (Publishing \/ Broker) => IInv'
<1> SUFFICES ASSUME IInv, Publishing \/ Broker PROVE IInv'
  OBVIOUS
<1> USE DEF IInv, throttleVars, flightVars, outVars, mqttVars, deskVars
<1>1. ASSUME Publishing PROVE IInv'
  <2>1. inSet' \in Flight /\ inFlush' \in Flight
    BY <1>1 DEF Publishing, SetRecords, SetPublishes, FlushRecords,
                FlushPublishes, Flight, Idle, TypeOK
  <2>2. lastHeight' \in Height /\ shown' \in Height
    BY <1>1 DEF Publishing, SetRecords, SetPublishes, FlushRecords,
                FlushPublishes, Flight, Height, Idle, Remember, Publish, TypeOK
  <2>3. overtaken' \in BOOLEAN
    BY <1>1 DEF Publishing, SetRecords, SetPublishes, FlushRecords,
                FlushPublishes, Remember, TypeOK
  <2>4. raced' \in BOOLEAN
    BY <1>1 DEF Publishing, SetRecords, SetPublishes, FlushRecords,
                FlushPublishes, Publish, TypeOK
  <2>5. UNCHANGED <<throttleVars, mqttVars, deskVars>>
    BY <1>1 DEF Publishing, SetRecords, SetPublishes, FlushRecords,
                FlushPublishes
  <2>6. TypeOK' BY <2>1, <2>2, <2>3, <2>4, <2>5 DEF TypeOK, Height, Call
  <2> QED BY <2>5, <2>6 DEF LatestIsKept, NoRepeatPending
<1>2. ASSUME ConnectSucceeds PROVE IInv'
  <2>1. connects' \in 1..MaxConnects /\ connects' \in 0..MaxConnects
    BY <1>2, ThrottleAssumption DEF ConnectSucceeds, TypeOK
  <2>2. calls' \subseteq Call
    <3>1. [connect |-> connects', value |-> None] \in Call
      BY <2>1 DEF Call, Height
    <3> QED BY <1>2, <3>1 DEF ConnectSucceeds, TypeOK
  <2>3. up' \in BOOLEAN BY <1>2 DEF ConnectSucceeds
  <2>4. UNCHANGED <<throttleVars, flightVars, outVars, deskVars>>
    BY <1>2 DEF ConnectSucceeds
  <2>5. TypeOK'
    BY <2>1, <2>2, <2>3, <2>4 DEF TypeOK, Height, Flight, Call
  <2> QED BY <2>4, <2>5 DEF LatestIsKept, NoRepeatPending
<1>3. ASSUME ConnectionDrops PROVE IInv'
  <2>1. shown' \in Height /\ up' \in BOOLEAN
    BY <1>3 DEF ConnectionDrops, TypeOK, Height
  <2>2. UNCHANGED <<throttleVars, flightVars, lastHeight, overtaken, raced,
                    calls, connects, deskVars>>
    BY <1>3 DEF ConnectionDrops
  <2>3. TypeOK' BY <2>1, <2>2 DEF TypeOK, Height, Flight, Call
  <2> QED BY <2>2, <2>3 DEF LatestIsKept, NoRepeatPending
<1>4. ASSUME NEW call \in calls, ReadState(call) PROVE IInv'
  <2>1. UNCHANGED <<throttleVars, flightVars, outVars, up, connects, deskVars>>
    BY <1>4 DEF ReadState
  <2>2. call \in Call BY DEF TypeOK
  <2>3. [call EXCEPT !.value = lastHeight] \in Call BY <2>2 DEF Call, TypeOK
  <2>4. calls' \subseteq Call BY <1>4, <2>3 DEF ReadState, TypeOK
  <2>5. TypeOK' BY <2>1, <2>4 DEF TypeOK, Height, Flight, Call
  <2> QED BY <2>1, <2>5 DEF LatestIsKept, NoRepeatPending
<1>5. ASSUME NEW call \in calls, RepublishState(call) PROVE IInv'
  <2>1. UNCHANGED <<throttleVars, flightVars, lastHeight, overtaken, up,
                    connects, deskVars>>
    BY <1>5 DEF RepublishState
  <2>2. call.value \in Height BY DEF TypeOK, Call
  <2>3. shown' \in Height BY <1>5, <2>2 DEF RepublishState, Publish, TypeOK
  <2>4. raced' \in BOOLEAN BY <1>5 DEF RepublishState, Publish, TypeOK
  <2>5. calls' \subseteq Call BY <1>5 DEF RepublishState, TypeOK
  <2>6. TypeOK'
    BY <2>1, <2>3, <2>4, <2>5 DEF TypeOK, Height, Flight, Call
  <2> QED BY <2>1, <2>6 DEF LatestIsKept, NoRepeatPending
<1> QED BY <1>1, <1>2, <1>3, <1>4, <1>5 DEF Broker, OnConnect

(* The end of a connection and its beginning.                              *)
LEMMA OtherSteps ==
  IInv /\ (Drop \/ Reset \/ Tick \/ UNCHANGED vars) => IInv'
<1> USE ThrottleAssumption
    DEF IInv, TypeOK, LatestIsKept, NoRepeatPending, throttleVars, flightVars,
        outVars, mqttVars, deskVars, vars
<1>1. ASSUME IInv, Drop PROVE IInv'
  <2>1. serving' \in BOOLEAN BY <1>1 DEF Drop
  <2> QED BY <1>1, <2>1 DEF Drop
<1>2. ASSUME IInv, Reset PROVE IInv'
  <2>1. serving' \in BOOLEAN BY <1>2 DEF Reset
  <2> QED BY <1>2, <2>1 DEF Reset, Height
<1>3. ASSUME IInv, Tick PROVE IInv' BY <1>3 DEF Tick
<1>4. ASSUME IInv, UNCHANGED vars PROVE IInv' BY <1>4
<1> QED BY <1>1, <1>2, <1>3, <1>4

LEMMA IInvStep == IInv /\ [Next]_vars => IInv'
  BY SetStep, FlushStep, PublishStep, OtherSteps DEF Next

LEMMA Invariance == Spec => []IInv
  BY InitIInv, IInvStep, PTL DEF Spec

(* Coalescing never loses the newest reading of a connection, and a        *)
(* reading taken at rest never waits, whatever sequence of readings,       *)
(* flushes and resets came before (throttle.go:38-86).                     *)
THEOREM NewestIsKept == Spec => []LatestIsKept
<1>1. IInv => LatestIsKept BY DEF IInv
<1> QED BY <1>1, Invariance, PTL

(* Flush never repeats the height that was decided on last: what waits     *)
(* differs from it (throttle.go:38-77).                                    *)
THEOREM NothingIsRepeated == Spec => []NoRepeatPending
<1>1. IInv => NoRepeatPending BY DEF IInv
<1> QED BY <1>1, Invariance, PTL

(* The throttle's state and the values in flight stay well formed: no      *)
(* goroutine ever publishes the absence of a height.                       *)
THEOREM TypeCorrect == Spec => []TypeOK
<1>1. IInv => TypeOK BY DEF IInv
<1> QED BY <1>1, Invariance, PTL

-----------------------------------------------------------------------------
(* What the broker shows.                                                  *)

(* A goroutine still has the throttle's decision to remember, to publish.  *)
ToRecord ==
  \/ inSet.stage = "recording" /\ inSet.value = last
  \/ inFlush.stage = "recording" /\ inFlush.value = last
ToPublish ==
  \/ inSet.stage # "idle" /\ inSet.value = last
  \/ inFlush.stage # "idle" /\ inFlush.value = last

(* What republishState would read is the throttle's decision, or about to  *)
(* be; and the topic shows that decision, unless it is about to.           *)
Remembered ==
  /\ last # None /\ ~overtaken /\ ~ToRecord => lastHeight = last
  /\ overtaken => lastHeight # None
Shown ==
  up /\ calls = {} /\ last # None /\ ~raced /\ ~ToPublish => shown = last

BInv == Remembered /\ Shown

LEMMA BStep == IInv /\ BInv /\ [Next]_vars => BInv'
<1> SUFFICES ASSUME IInv, BInv, [Next]_vars PROVE BInv'
  OBVIOUS
<1> USE DEF BInv, Remembered, Shown, ToRecord, ToPublish, throttleVars,
            flightVars, outVars, mqttVars, deskVars
<1>1. /\ last \in Height /\ lastHeight \in Height /\ None \notin Heights
      /\ inSet \in Flight /\ inFlush \in Flight
  BY ThrottleAssumption DEF IInv, TypeOK
<1>2. ASSUME NEW v \in Heights, NEW force \in BOOLEAN, Set(v, force)
      PROVE  BInv'
  BY <1>1, <1>2 DEF Set, Unchanged, PublishNow, Coalesce, Decide, Idle
<1>3. ASSUME Flush PROVE BInv'
  BY <1>1, <1>3 DEF Flush, Decide, Idle
<1>4. ASSUME SetRecords PROVE BInv'
  <2>1. inSet.stage = "recording" /\ inSet.value # None
    BY <1>1, <1>4 DEF SetRecords, Flight, Idle
  <2>2. inSet'.stage = "publishing" /\ inSet'.value = inSet.value
    BY <1>1, <1>4 DEF SetRecords, Flight, Idle
  <2>3. Remembered' BY <1>4, <2>1 DEF SetRecords, Remember
  <2>4. Shown' BY <1>4, <2>1, <2>2 DEF SetRecords
  <2> QED BY <2>3, <2>4
<1>5. ASSUME SetPublishes PROVE BInv'
  <2>1. inSet'.stage = "idle" BY <1>5 DEF SetPublishes, Idle
  <2>2. CASE up BY <1>1, <1>5, <2>1, <2>2 DEF SetPublishes, Publish
  <2>3. CASE ~up BY <1>1, <1>5, <2>1, <2>3 DEF SetPublishes, Publish
  <2> QED BY <2>2, <2>3
<1>6. ASSUME FlushRecords PROVE BInv'
  <2>1. inFlush.stage = "recording" /\ inFlush.value # None
    BY <1>1, <1>6 DEF FlushRecords, Flight, Idle
  <2>2. inFlush'.stage = "publishing" /\ inFlush'.value = inFlush.value
    BY <1>1, <1>6 DEF FlushRecords, Flight, Idle
  <2>3. Remembered' BY <1>6, <2>1 DEF FlushRecords, Remember
  <2>4. Shown' BY <1>6, <2>1, <2>2 DEF FlushRecords
  <2> QED BY <2>3, <2>4
<1>7. ASSUME FlushPublishes PROVE BInv'
  <2>1. inFlush'.stage = "idle" BY <1>7 DEF FlushPublishes, Idle
  <2>2. CASE up BY <1>1, <1>7, <2>1, <2>2 DEF FlushPublishes, Publish
  <2>3. CASE ~up BY <1>1, <1>7, <2>1, <2>3 DEF FlushPublishes, Publish
  <2> QED BY <2>2, <2>3
<1>8. ASSUME ConnectSucceeds PROVE BInv'
  BY <1>8 DEF ConnectSucceeds
<1>9. ASSUME ConnectionDrops PROVE BInv'
  BY <1>9 DEF ConnectionDrops
<1>10. ASSUME NEW call \in calls, ReadState(call) PROVE BInv'
  <2>1. Remembered' BY <1>10 DEF ReadState
  <2>2. CASE lastHeight = None BY <1>1, <1>10, <2>2 DEF ReadState
  <2>3. CASE lastHeight # None
    <3>1. calls' # {} BY <1>10, <2>3 DEF ReadState
    <3> QED BY <2>1, <3>1
  <2> QED BY <2>2, <2>3
<1>11. ASSUME NEW call \in calls, RepublishState(call) PROVE BInv'
  <2>1. Remembered' BY <1>11 DEF RepublishState
  <2>2. CASE up BY <1>1, <1>11, <2>1, <2>2 DEF RepublishState, Publish
  <2>3. CASE ~up BY <1>11, <2>1, <2>3 DEF RepublishState
  <2> QED BY <2>2, <2>3
<1>12. ASSUME Drop \/ Reset \/ Tick \/ UNCHANGED vars PROVE BInv'
  BY <1>12 DEF Drop, Reset, Tick, vars
<1> QED BY <1>2, <1>3, <1>4, <1>5, <1>6, <1>7, <1>8, <1>9, <1>10, <1>11, <1>12
        DEF Next, Publishing, Broker, OnConnect

(* However readings, flushes, reconnects of the desk and of the broker,    *)
(* and restarts of the broker fall, the topic shows the height decided on  *)
(* last when all has settled, unless one goroutine overtook another        *)
(* (desk.go:402-407, 485-497).                                             *)
THEOREM ShowsTheLastHeight == Spec => []ShowsTheHeight
<1>1. Init => BInv
  BY DEF Init, BInv, Remembered, Shown
<1>2. BInv /\ IInv => ShowsTheHeight
  BY DEF BInv, Shown, ShowsTheHeight, Settled, ToPublish, Idle
<1> QED BY <1>1, <1>2, BStep, Invariance, PTL DEF Spec
=============================================================================
