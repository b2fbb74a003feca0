-------------------------- MODULE AvailabilityProofs --------------------------
(***************************************************************************)
(* Theorems about Availability: for any number of desks, of connections on *)
(* both sides, of drops, broker restarts and kills.                        *)
(***************************************************************************)
EXTENDS Availability, TLAPS

-----------------------------------------------------------------------------
(* Types.                                                                  *)

Flags ==
  /\ online \in [Desks -> BOOLEAN] /\ up \in BOOLEAN /\ ctxDone \in BOOLEAN
  /\ willDue \in BOOLEAN
  /\ raced \in [Desks -> BOOLEAN] /\ overtaken \in BOOLEAN

(* A call that has read a desk's state is at a desk.                       *)
CallsPlaced == \A call \in onConnect : call.read # None => call.at # 0

Shapes ==
  /\ mpc \in [Desks -> Places]
  /\ run \in {"connecting", "connected", "stopped"}
  /\ session \in Nat /\ onConnect \in SUBSET Call
  /\ farewell \in 0..Closed
  /\ shown \in [0..N -> {None, "online", "offline"}]
  /\ attempts \in Nat /\ faults \in Nat /\ kills \in Nat
  /\ CallsPlaced

LEMMA FlagsStep == Flags /\ [Next]_vars => Flags'
<1> SUFFICES ASSUME Flags, [Next]_vars PROVE Flags'
  OBVIOUS
<1> USE DEF Flags, deskVars, clientVars, bridgeVars, brokerVars, historyVars,
            bounds
<1>1. ASSUME NEW d \in Desks, Manager(d) PROVE Flags'
  <2>1. online' = [online EXCEPT ![d] = TRUE]
          \/ online' = [online EXCEPT ![d] = FALSE] \/ online' = online
    BY <1>1, Zenon
       DEF Manager, Attempt, Rise, Fall, TellOnline, TellOffline, StopManager
  <2>2. raced' = [raced EXCEPT ![d] = @ /\ ~up] \/ raced' = raced
    BY <1>1, Zenon DEF Manager, Attempt, Rise, Fall, TellOnline, TellOffline,
                       StopManager, Tell
  <2>3. UNCHANGED <<up, ctxDone, willDue, overtaken>>
    BY <1>1, Zenon DEF Manager, Attempt, Rise, Fall, TellOnline, TellOffline,
                       StopManager, Tell
  <2> QED BY <2>1, <2>2, <2>3, Zenon
<1>2. CASE ConnectSucceeds \/ Reconnect \/ StopRun
  BY <1>2, Zenon DEF ConnectSucceeds, Reconnect, StopRun
<1>3. ASSUME NEW call \in onConnect, AnnounceBridge(call) PROVE Flags'
  BY <1>3, Zenon DEF AnnounceBridge
<1>4. ASSUME NEW call \in onConnect, ReadState(call) PROVE Flags'
  BY <1>4, Zenon DEF ReadState
<1>5. ASSUME NEW call \in onConnect, RepublishState(call) PROVE Flags'
  <2>1. raced' = [raced EXCEPT ![call.at] =
                    IF up THEN call.read # Payload(call.at) ELSE @]
    BY <1>5, Zenon DEF RepublishState
  <2>2. UNCHANGED <<online, up, ctxDone, willDue, overtaken>>
    BY <1>5, Zenon DEF RepublishState
  <2> QED BY <2>1, <2>2, Zenon
<1>6. CASE Cancel \/ WaitReturns \/ Close
  BY <1>6, Zenon DEF Cancel, WaitReturns, Close
<1>7. CASE SayGoodbye
  BY <1>7, Zenon DEF SayGoodbye
<1>8. CASE ConnectionDrops \/ WillIsPublished \/ BrokerRestarts
  BY <1>8, Zenon DEF ConnectionDrops, WillIsPublished, BrokerRestarts
<1>9. CASE Killed
  BY <1>9, Zenon DEF Killed
<1>10. CASE UNCHANGED vars
  BY <1>10, Zenon DEF vars
<1> QED BY <1>1, <1>2, <1>3, <1>4, <1>5, <1>6, <1>7, <1>8, <1>9, <1>10
        DEF Next, OnConnect, Shutdown

(* What a call becomes when it is at the next topic.                       *)
LEMMA CallAdvances ==
  ASSUME NEW call \in Call, NEW n \in 0..N
  PROVE  /\ [call EXCEPT !.at = n] \in Call
         /\ [call EXCEPT !.at = n].read = call.read
         /\ [call EXCEPT !.at = n].at = n
         /\ [call EXCEPT !.at = n, !.read = None] \in Call
         /\ [call EXCEPT !.at = n, !.read = None].read = None
         /\ [call EXCEPT !.at = n, !.read = None].at = n
BY DEF Call

LEMMA ShapesStep == Flags /\ Shapes /\ [Next]_vars => Shapes'
<1> SUFFICES ASSUME Flags, Shapes, [Next]_vars PROVE Shapes'
  OBVIOUS
<1> USE CountsAssumption
    DEF Shapes, CallsPlaced, Call, deskVars, clientVars, bridgeVars,
        brokerVars, historyVars, bounds, Desks, Closed, Publish, Becomes
<1>1. ASSUME NEW d \in Desks, Manager(d) PROVE Shapes'
  <2>1. mpc' \in [Desks -> Places]
    BY <1>1 DEF Manager, Attempt, Rise, Fall, TellOnline, TellOffline,
                StopManager, Goes, Places
  <2>2. shown' \in [0..N -> {None, "online", "offline"}]
    BY <1>1 DEF Manager, Attempt, Rise, Fall, TellOnline, TellOffline,
                StopManager, Tell
  <2>3. attempts' \in Nat
    BY <1>1 DEF Manager, Attempt, Rise, Fall, TellOnline, TellOffline,
                StopManager, Tell
  <2>4. UNCHANGED <<run, session, onConnect, farewell, faults, kills>>
    BY <1>1 DEF Manager, Attempt, Rise, Fall, TellOnline, TellOffline,
                StopManager, Tell
  <2> QED BY <2>1, <2>2, <2>3, <2>4
<1>2. CASE ConnectSucceeds BY <1>2 DEF ConnectSucceeds
<1>3. CASE Reconnect \/ StopRun BY <1>3 DEF Reconnect, StopRun
<1>4. ASSUME NEW call \in onConnect, AnnounceBridge(call) PROVE Shapes'
  <2> DEFINE next == [call EXCEPT !.at = 1]
  <2>0. call \in Call /\ 1 \in 0..N
    OBVIOUS
  <2>1. next \in Call /\ next.at = 1
    BY <2>0, CallAdvances
  <2> HIDE DEF next
  <2>2. onConnect' = (onConnect \ {call}) \cup {next}
    BY <1>4, Zenon DEF AnnounceBridge, next
  <2>3. shown' \in [0..N -> {None, "online", "offline"}]
    BY <1>4 DEF AnnounceBridge
  <2>4. UNCHANGED <<mpc, run, session, farewell, attempts, faults, kills>>
    BY <1>4, Zenon DEF AnnounceBridge
  <2> QED BY <2>1, <2>2, <2>3, <2>4
<1>5. ASSUME NEW call \in onConnect, ReadState(call) PROVE Shapes'
  BY <1>5 DEF ReadState, Payload, None
<1>6. ASSUME NEW call \in onConnect, RepublishState(call) PROVE Shapes'
  <2>1. call \in Call
    OBVIOUS
  <2>2. shown' \in [0..N -> {None, "online", "offline"}]
    BY <1>6, <2>1 DEF RepublishState
  <2>3. onConnect' \in SUBSET Call /\ CallsPlaced'
    <3> DEFINE next == [call EXCEPT !.at = @ + 1, !.read = None]
    <3>1. call.at # N => call.at + 1 \in 0..N
      BY <2>1
    <3>2. call.at # N => next \in Call /\ next.read = None
      BY <2>1, <3>1, CallAdvances
    <3> HIDE DEF next
    <3>3. \/ onConnect' = onConnect \ {call}
          \/ call.at # N /\ onConnect' = (onConnect \ {call}) \cup {next}
      BY <1>6, Zenon DEF RepublishState, next
    <3> QED BY <3>2, <3>3
  <2>4. UNCHANGED <<mpc, run, session, farewell, attempts, faults, kills>>
    BY <1>6, Zenon DEF RepublishState
  <2> QED BY <2>2, <2>3, <2>4
<1>7. CASE Cancel \/ WaitReturns \/ Close
  BY <1>7 DEF Cancel, WaitReturns, Close
<1>8. CASE SayGoodbye
  <2>1. /\ farewell' \in 0..Closed
        /\ UNCHANGED <<deskVars, clientVars, bounds>>
    BY <1>8 DEF SayGoodbye
  <2>2. shown' \in [0..N -> {None, "online", "offline"}]
    BY <1>8 DEF SayGoodbye
  <2> QED BY <2>1, <2>2
<1>9. CASE ConnectionDrops \/ WillIsPublished \/ BrokerRestarts
  <2>1. shown' \in [0..N -> {None, "online", "offline"}]
    BY <1>9 DEF ConnectionDrops, WillIsPublished, BrokerRestarts
  <2>2. faults' \in Nat
    BY <1>9 DEF ConnectionDrops, WillIsPublished, BrokerRestarts
  <2>3. UNCHANGED <<deskVars, run, session, onConnect, bridgeVars, attempts,
                    historyVars, kills>>
    BY <1>9, Zenon DEF ConnectionDrops, WillIsPublished, BrokerRestarts
  <2> QED BY <2>1, <2>2, <2>3
<1>10. CASE Killed BY <1>10 DEF Killed, Places
<1>11. CASE UNCHANGED vars BY <1>11 DEF vars
<1> QED BY <1>1, <1>2, <1>3, <1>4, <1>5, <1>6, <1>7, <1>8, <1>9, <1>10, <1>11
        DEF Next, OnConnect, Shutdown

LEMMA Typed == Spec => [](Flags /\ Shapes)
<1>1. Init => Flags
  BY Zenon DEF Init, Started, Flags
<1>2. Init => Shapes
  BY CountsAssumption
     DEF Init, Started, Shapes, CallsPlaced, Places, Desks, Closed
<1> QED BY <1>1, <1>2, FlagsStep, ShapesStep, PTL DEF Spec

(* The state stays well formed: in particular no OnConnect call goes past  *)
(* the last desk (bridge.go:179-184).                                      *)
THEOREM TypeCorrect == Spec => []TypeOK
<1>1. Flags /\ Shapes => TypeOK
  BY DEF Flags, Shapes, TypeOK
<1> QED BY <1>1, Typed, PTL

-----------------------------------------------------------------------------
(* The inductive invariant.                                                *)

(* Where each desk manager, the client and Bridge.Run can be together.     *)
Structure ==
  /\ \A d \in Desks : online[d] <=> mpc[d] \in {"rising", "serving"}
  /\ farewell > 0 => run = "stopped" /\ \A d \in Desks : mpc[d] = "stopped"
  /\ up => ~willDue
  /\ farewell = Closed => ~up /\ onConnect = {}

(* A desk's topic that is wrong while its manager is at rest is yet to be  *)
(* corrected by an OnConnect call, or was raced.                           *)
DesksAgree ==
  up => \A d \in Desks :
          mpc[d] \notin {"rising", "falling"} /\ ~raced[d] =>
            shown[d] = Payload(d) \/ \E call \in onConnect : call.at <= d

(* So is the bridge's until its goodbye.                                   *)
BridgeAgrees ==
  up /\ farewell <= N + 1 =>
    shown[0] = "online" \/ \E call \in onConnect : call.at = 0

(* Whenever the connection is down while the broker says online, the will  *)
(* is still to come; after the goodbye the broker no longer says it.       *)
WillMakesUp ==
  /\ ~up /\ farewell # Closed => willDue \/ shown[0] # "online"
  /\ farewell = N + 2 /\ up /\ ~overtaken => shown[0] # "online"
  /\ farewell = Closed /\ ~overtaken /\ ~willDue => shown[0] # "online"

LEMMA StructureStep ==
  Flags /\ Shapes /\ Structure /\ [Next]_vars => Structure'
<1> SUFFICES ASSUME Flags, Shapes, Structure, [Next]_vars PROVE Structure'
  OBVIOUS
<1> USE CountsAssumption
    DEF Flags, Shapes, Structure, deskVars, clientVars, bridgeVars,
        brokerVars, historyVars, bounds, Desks, Closed
<1>1. ASSUME NEW d \in Desks, Manager(d) PROVE Structure'
  <2>1. CASE Attempt(d) BY <2>1 DEF Attempt, Goes, Places
  <2>2. CASE Rise(d) BY <2>2 DEF Rise, Goes, Places
  <2>3. CASE Fall(d) BY <2>3 DEF Fall, Goes, Places
  <2>4. CASE TellOnline(d) BY <2>4 DEF TellOnline, Tell, Goes, Places
  <2>5. CASE TellOffline(d) BY <2>5 DEF TellOffline, Tell, Goes, Places
  <2>6. CASE StopManager(d) BY <2>6 DEF StopManager, Goes, Places
  <2> QED BY <1>1, <2>1, <2>2, <2>3, <2>4, <2>5, <2>6 DEF Manager
<1>2. CASE ConnectSucceeds \/ Reconnect \/ StopRun
  BY <1>2 DEF ConnectSucceeds, Reconnect, StopRun
<1>3. ASSUME NEW call \in onConnect,
             AnnounceBridge(call) \/ ReadState(call) \/ RepublishState(call)
      PROVE  Structure'
  BY <1>3 DEF AnnounceBridge, ReadState, RepublishState
<1>4. CASE Cancel \/ WaitReturns \/ Close
  BY <1>4 DEF Cancel, WaitReturns, Close
<1>5. CASE SayGoodbye
  BY <1>5 DEF SayGoodbye
<1>6. CASE ConnectionDrops \/ WillIsPublished \/ BrokerRestarts \/ Killed
  BY <1>6 DEF ConnectionDrops, WillIsPublished, BrokerRestarts, Killed
<1>7. CASE UNCHANGED vars
  BY <1>7 DEF vars
<1> QED BY <1>1, <1>2, <1>3, <1>4, <1>5, <1>6, <1>7
        DEF Next, OnConnect, Shutdown

LEMMA DesksAgreeStep ==
  Flags /\ Shapes /\ Structure /\ DesksAgree /\ [Next]_vars => DesksAgree'
<1> SUFFICES ASSUME Flags, Shapes, Structure, DesksAgree, [Next]_vars, up',
                    NEW e \in Desks,
                    mpc'[e] \notin {"rising", "falling"}, ~raced'[e]
             PROVE  shown'[e] = Payload(e)'
                      \/ \E call \in onConnect' : call.at <= e
  BY DEF DesksAgree
<1> USE CountsAssumption
    DEF Flags, Shapes, Structure, deskVars, clientVars, bridgeVars,
        brokerVars, historyVars, bounds, Desks, Closed, Payload, Publish
<1>1. ASSUME NEW d \in Desks, Manager(d)
      PROVE  shown'[e] = Payload(e)' \/ \E call \in onConnect' : call.at <= e
  <2>1. UNCHANGED <<up, onConnect>>
    BY <1>1, Zenon DEF Manager, Attempt, Rise, Fall, TellOnline, TellOffline,
                       StopManager, Tell, clientVars
  <2>2. CASE Attempt(d) \/ Rise(d) \/ Fall(d) \/ StopManager(d)
    <3>1. UNCHANGED <<shown, raced>>
      BY <2>2, Zenon DEF Attempt, Rise, Fall, StopManager, brokerVars,
                         historyVars
    <3>2. CASE d = e
      <4>1. mpc[e] \notin {"rising", "falling"} /\ online'[e] = online[e]
        BY <2>2, <3>2 DEF Attempt, Rise, Fall, StopManager, Goes
      <4> QED BY <2>1, <3>1, <4>1 DEF DesksAgree
    <3>3. CASE d # e
      <4>1. mpc'[e] = mpc[e] /\ online'[e] = online[e]
        BY <2>2, <3>3 DEF Attempt, Rise, Fall, StopManager, Goes
      <4> QED BY <2>1, <3>1, <4>1 DEF DesksAgree
    <3> QED BY <3>2, <3>3
  <2>3. CASE TellOnline(d) \/ TellOffline(d)
    <3>1. UNCHANGED online
      BY <2>3, Zenon DEF TellOnline, TellOffline
    <3>2. CASE d = e
      <4>1. up /\ d \in 0..N
        BY <2>1
      <4>2. \/ mpc[d] = "rising" /\ shown' = [shown EXCEPT ![d] = "online"]
            \/ mpc[d] = "falling" /\ shown' = [shown EXCEPT ![d] = "offline"]
        BY <2>3, <4>1, Zenon DEF TellOnline, TellOffline, Tell, Goes
      <4>3. shown'[e] = IF mpc[e] = "rising" THEN "online" ELSE "offline"
        BY <3>2, <4>1, <4>2
      <4> QED BY <3>1, <3>2, <4>2, <4>3
    <3>3. CASE d # e
      <4>1. /\ \E to : mpc' = [mpc EXCEPT ![d] = to]
            /\ \E to : shown' = [shown EXCEPT ![d] = to] \/ shown' = shown
        BY <2>3, Zenon DEF TellOnline, TellOffline, Tell, Goes
      <4>3. mpc'[e] = mpc[e] /\ shown'[e] = shown[e]
        BY <3>3, <4>1
      <4>2. raced'[e] = raced[e]
        BY <2>3, <3>3, Zenon DEF TellOnline, TellOffline, Tell
      <4> QED BY <2>1, <3>1, <4>2, <4>3 DEF DesksAgree
    <3> QED BY <3>2, <3>3
  <2> QED BY <1>1, <2>2, <2>3 DEF Manager
<1>2. CASE ConnectSucceeds
  <2> DEFINE first == [session |-> session', at |-> 0, read |-> None]
  <2>1. first \in onConnect'
    BY <1>2, Zenon DEF ConnectSucceeds
  <2>2. first.at = 0
    OBVIOUS
  <2> HIDE DEF first
  <2> QED BY <2>1, <2>2
<1>3. CASE Reconnect \/ StopRun
  BY <1>3 DEF DesksAgree, Reconnect, StopRun
<1>4. ASSUME NEW call \in onConnect, AnnounceBridge(call)
      PROVE  shown'[e] = Payload(e)' \/ \E c \in onConnect' : c.at <= e
  <2> DEFINE next == [call EXCEPT !.at = 1]
  <2>1. call \in Call /\ 1 \in 0..N
    OBVIOUS
  <2>2. next.at = 1
    BY <2>1 DEF Call
  <2> HIDE DEF next
  <2>3. onConnect' = (onConnect \ {call}) \cup {next}
    BY <1>4, Zenon DEF AnnounceBridge, Becomes, next
  <2>4. UNCHANGED <<online, mpc, up, raced>>
    BY <1>4, Zenon DEF AnnounceBridge, deskVars
  <2>5. shown'[e] = shown[e]
    BY <1>4 DEF AnnounceBridge
  <2> QED BY <2>2, <2>3, <2>4, <2>5 DEF DesksAgree
<1>5. ASSUME NEW call \in onConnect, ReadState(call)
      PROVE  shown'[e] = Payload(e)' \/ \E c \in onConnect' : c.at <= e
  <2> DEFINE next == [call EXCEPT !.read = Payload(call.at)]
  <2>1. next.at = call.at
    BY DEF Call
  <2> HIDE DEF next
  <2>2. onConnect' = (onConnect \ {call}) \cup {next}
    BY <1>5, Zenon DEF ReadState, Becomes, next
  <2>3. UNCHANGED <<online, mpc, up, raced, shown>>
    BY <1>5, Zenon DEF ReadState, brokerVars, historyVars, deskVars
  <2> QED BY <2>1, <2>2, <2>3 DEF DesksAgree
<1>6. ASSUME NEW call \in onConnect, RepublishState(call)
      PROVE  shown'[e] = Payload(e)' \/ \E c \in onConnect' : c.at <= e
  <2> DEFINE next == [call EXCEPT !.at = @ + 1, !.read = None]
  <2>1. call \in Call /\ call.at \in 1..N
    <3>1. call.read # None
      BY <1>6, Zenon DEF RepublishState
    <3>2. call \in Call /\ call.at # 0
      BY <3>1 DEF CallsPlaced
    <3> QED BY <3>2 DEF Call
  <2>2. call.at # N => next.at = call.at + 1
    <3>1. call.at # N => call.at + 1 \in 0..N
      BY <2>1
    <3> QED BY <2>1, <3>1, CallAdvances DEF Call
  <2> HIDE DEF next
  <2>3. \/ call.at = N /\ onConnect' = onConnect \ {call}
        \/ call.at # N /\ onConnect' = (onConnect \ {call}) \cup {next}
    BY <1>6, Zenon DEF RepublishState, Becomes, next
  <2>4. UNCHANGED <<online, mpc, up>>
    BY <1>6, Zenon DEF RepublishState, deskVars
  <2>5. CASE call.at = e
    <3>1. shown' = [shown EXCEPT ![e] = call.read]
      BY <1>6, <2>4, <2>5 DEF RepublishState
    <3>2. raced'[e] <=> call.read # Payload(e)
      <4>1. up
        BY <2>4
      <4>2. raced' = [raced EXCEPT ![e] = call.read # Payload(e)]
        BY <1>6, <2>5, <4>1, Zenon DEF RepublishState
      <4> QED BY <4>2, Zenon
    <3> QED BY <2>4, <3>1, <3>2
  <2>6. CASE call.at # e
    <3>1. shown'[e] = shown[e]
      BY <1>6, <2>1, <2>6 DEF RepublishState
    <3>2. raced'[e] = raced[e]
      BY <1>6, <2>6, Zenon DEF RepublishState
    <3>3. /\ up /\ mpc[e] \notin {"rising", "falling"} /\ ~raced[e]
          /\ Payload(e)' = Payload(e)
      BY <2>4, <3>2, Zenon DEF Payload
    <3>4. shown[e] = Payload(e) \/ \E c \in onConnect : c.at <= e
      BY <3>3, Zenon DEF DesksAgree
    <3>5. ASSUME NEW c \in onConnect, c.at <= e
          PROVE  \E f \in onConnect' : f.at <= e
      <4>1. CASE c # call
        BY <2>3, <3>5, <4>1
      <4>2. CASE c = call
        BY <2>1, <2>2, <2>3, <2>6, <3>5, <4>2
      <4> QED BY <4>1, <4>2
    <3> QED BY <3>1, <3>3, <3>4, <3>5, Zenon
  <2> QED BY <2>5, <2>6
<1>7. CASE Cancel \/ WaitReturns \/ Close
  BY <1>7 DEF DesksAgree, Cancel, WaitReturns, Close
<1>8. CASE SayGoodbye
  <2>1. mpc[e] = "stopped" /\ ~online[e]
    BY <1>8 DEF SayGoodbye
  <2>2. UNCHANGED <<online, mpc, up, onConnect>>
    BY <1>8, Zenon DEF SayGoodbye, deskVars, clientVars
  <2>3. CASE farewell = e
    BY <1>8, <2>1, <2>2, <2>3 DEF SayGoodbye
  <2>4. CASE farewell # e
    <3>1. shown'[e] = shown[e]
      BY <1>8, <2>4 DEF SayGoodbye
    <3>2. raced'[e] = raced[e]
      BY <1>8, <2>4, Zenon DEF SayGoodbye
    <3> QED BY <2>1, <2>2, <3>1, <3>2 DEF DesksAgree
  <2> QED BY <2>3, <2>4
<1>9. CASE ConnectionDrops \/ WillIsPublished \/ BrokerRestarts \/ Killed
  BY <1>9 DEF DesksAgree, ConnectionDrops, WillIsPublished, BrokerRestarts,
              Killed
<1>10. CASE UNCHANGED vars
  BY <1>10 DEF DesksAgree, vars
<1> QED BY <1>1, <1>2, <1>3, <1>4, <1>5, <1>6, <1>7, <1>8, <1>9, <1>10
        DEF Next, OnConnect, Shutdown

LEMMA BridgeAgreesStep ==
  Flags /\ Shapes /\ Structure /\ BridgeAgrees /\ [Next]_vars => BridgeAgrees'
<1> SUFFICES ASSUME Flags, Shapes, Structure, BridgeAgrees, [Next]_vars, up',
                    farewell' <= N + 1
             PROVE  shown'[0] = "online" \/ \E call \in onConnect' : call.at = 0
  BY DEF BridgeAgrees
<1> USE CountsAssumption
    DEF Flags, Shapes, Structure, deskVars, clientVars, bridgeVars,
        brokerVars, historyVars, bounds, Desks, Closed, Publish
<1>1. ASSUME NEW d \in Desks, Manager(d)
      PROVE  shown'[0] = "online" \/ \E call \in onConnect' : call.at = 0
  <2>1. UNCHANGED <<up, onConnect, farewell>>
    BY <1>1, Zenon DEF Manager, Attempt, Rise, Fall, TellOnline, TellOffline,
                       StopManager, Tell, clientVars, bridgeVars
  <2>2. \E to : shown' = [shown EXCEPT ![d] = to] \/ shown' = shown
    BY <1>1, Zenon DEF Manager, Attempt, Rise, Fall, TellOnline, TellOffline,
                       StopManager, Tell, brokerVars
  <2>3. shown'[0] = shown[0]
    BY <2>2
  <2> QED BY <2>1, <2>3 DEF BridgeAgrees
<1>2. CASE ConnectSucceeds
  <2> DEFINE first == [session |-> session', at |-> 0, read |-> None]
  <2>1. first \in onConnect'
    BY <1>2, Zenon DEF ConnectSucceeds
  <2>2. first.at = 0
    OBVIOUS
  <2> HIDE DEF first
  <2> QED BY <2>1, <2>2
<1>3. CASE Reconnect \/ StopRun
  BY <1>3 DEF BridgeAgrees, Reconnect, StopRun
<1>4. ASSUME NEW call \in onConnect, AnnounceBridge(call)
      PROVE  shown'[0] = "online"
  <2>1. up
    BY <1>4, Zenon DEF AnnounceBridge
  <2> QED BY <1>4, <2>1 DEF AnnounceBridge
<1>5. ASSUME NEW call \in onConnect, ReadState(call)
      PROVE  shown'[0] = "online" \/ \E c \in onConnect' : c.at = 0
  <2>1. /\ UNCHANGED <<up, farewell, shown>>
        /\ onConnect \ {call} \subseteq onConnect'
    BY <1>5, Zenon DEF ReadState, Becomes, bridgeVars, brokerVars
  <2>2. call.at # 0
    BY <1>5, Zenon DEF ReadState
  <2> QED BY <2>1, <2>2 DEF BridgeAgrees
<1>6. ASSUME NEW call \in onConnect, RepublishState(call)
      PROVE  shown'[0] = "online" \/ \E c \in onConnect' : c.at = 0
  <2>1. UNCHANGED <<up, farewell>> /\ onConnect \ {call} \subseteq onConnect'
    BY <1>6, Zenon DEF RepublishState, Becomes, bridgeVars
  <2>2. call.at # 0
    <3>1. call.read # None
      BY <1>6, Zenon DEF RepublishState
    <3> QED BY <3>1 DEF CallsPlaced
  <2>3. shown'[0] = shown[0]
    BY <1>6, <2>2 DEF RepublishState
  <2> QED BY <2>1, <2>2, <2>3 DEF BridgeAgrees
<1>7. CASE Cancel \/ WaitReturns \/ Close
  <2>1. ~Close
    BY Zenon DEF Close
  <2>2. UNCHANGED <<up, onConnect, shown>>
    BY <1>7, <2>1, Zenon DEF Cancel, WaitReturns
  <2>3. farewell' = farewell \/ farewell = 0
    BY <1>7, <2>1, Zenon DEF Cancel, WaitReturns
  <2>4. farewell <= N + 1
    BY <2>3
  <2> QED BY <2>2, <2>4, Zenon DEF BridgeAgrees
<1>8. CASE SayGoodbye
  <2>1. UNCHANGED <<up, onConnect>>
    BY <1>8, Zenon DEF SayGoodbye
  <2>2. farewell \in 1..(N + 1) /\ farewell' = farewell + 1
    BY <1>8, Zenon DEF SayGoodbye
  <2>3. farewell \in 1..N /\ farewell <= N + 1
    BY <2>2
  <2>4. shown'[0] = shown[0]
    BY <1>8, <2>3 DEF SayGoodbye
  <2> QED BY <2>1, <2>3, <2>4, Zenon DEF BridgeAgrees
<1>9. CASE ConnectionDrops \/ WillIsPublished \/ BrokerRestarts \/ Killed
  BY <1>9 DEF BridgeAgrees, ConnectionDrops, WillIsPublished, BrokerRestarts,
              Killed
<1>10. CASE UNCHANGED vars
  BY <1>10 DEF BridgeAgrees, vars
<1> QED BY <1>1, <1>2, <1>3, <1>4, <1>5, <1>6, <1>7, <1>8, <1>9, <1>10
        DEF Next, OnConnect, Shutdown

LEMMA WillMakesUpStep ==
  Flags /\ Shapes /\ Structure /\ WillMakesUp /\ [Next]_vars => WillMakesUp'
<1> SUFFICES ASSUME Flags, Shapes, Structure, WillMakesUp, [Next]_vars
             PROVE  WillMakesUp'
  OBVIOUS
<1> USE CountsAssumption
    DEF Flags, Shapes, Structure, deskVars, clientVars, bridgeVars,
        brokerVars, historyVars, bounds, Desks, Closed, Publish
<1>1. ASSUME NEW d \in Desks, Manager(d) PROVE WillMakesUp'
  <2>1. UNCHANGED <<up, farewell, willDue, overtaken>>
    BY <1>1, Zenon DEF Manager, Attempt, Rise, Fall, TellOnline, TellOffline,
                       StopManager, Tell, clientVars, bridgeVars, brokerVars,
                       historyVars
  <2>2. \E to : shown' = [shown EXCEPT ![d] = to] \/ shown' = shown
    BY <1>1, Zenon DEF Manager, Attempt, Rise, Fall, TellOnline, TellOffline,
                       StopManager, Tell, brokerVars
  <2>3. shown'[0] = shown[0]
    BY <2>2
  <2> QED BY <2>1, <2>3, Zenon DEF WillMakesUp
<1>2. CASE ConnectSucceeds \/ Reconnect \/ StopRun
  BY <1>2 DEF WillMakesUp, ConnectSucceeds, Reconnect, StopRun
<1>3. ASSUME NEW call \in onConnect, AnnounceBridge(call) PROVE WillMakesUp'
  <2>1. UNCHANGED <<up, farewell, willDue>>
    BY <1>3, Zenon DEF AnnounceBridge, bridgeVars
  <2>2. ~up => shown' = shown /\ overtaken' = overtaken
    BY <1>3, Zenon DEF AnnounceBridge
  <2>3. up /\ farewell = N + 2 => overtaken'
    <3>1. farewell = N + 2 => farewell > N + 1
      OBVIOUS
    <3> QED BY <1>3, <3>1, Zenon DEF AnnounceBridge
  <2>4. farewell # Closed
    OBVIOUS
  <2> QED BY <2>1, <2>2, <2>3, <2>4, Zenon DEF WillMakesUp
<1>4. ASSUME NEW call \in onConnect, ReadState(call) PROVE WillMakesUp'
  <2>1. UNCHANGED <<up, farewell, willDue, overtaken, shown>>
    BY <1>4, Zenon DEF ReadState, bridgeVars, brokerVars, historyVars
  <2> QED BY <2>1, Zenon DEF WillMakesUp
<1>5. ASSUME NEW call \in onConnect, RepublishState(call) PROVE WillMakesUp'
  <2>1. UNCHANGED <<up, farewell, willDue, overtaken>>
    BY <1>5, Zenon DEF RepublishState, bridgeVars
  <2>2. call.at # 0
    <3>1. call.read # None
      BY <1>5, Zenon DEF RepublishState
    <3> QED BY <3>1 DEF CallsPlaced
  <2>3. shown'[0] = shown[0]
    BY <1>5, <2>2 DEF RepublishState
  <2> QED BY <2>1, <2>3, Zenon DEF WillMakesUp
<1>6. CASE Cancel \/ WaitReturns
  <2>1. UNCHANGED <<up, willDue, overtaken, shown>>
    BY <1>6, Zenon DEF Cancel, WaitReturns, clientVars, brokerVars, historyVars
  <2>2. farewell' = farewell \/ (farewell = 0 /\ farewell' = 1)
    BY <1>6, Zenon DEF Cancel, WaitReturns
  <2>3. /\ farewell' # Closed => farewell # Closed
        /\ farewell' = Closed => farewell = Closed
        /\ farewell' = N + 2 => farewell = N + 2
    BY <2>2
  <2> QED BY <2>1, <2>3, Zenon DEF WillMakesUp
<1>7. CASE Close
  BY <1>7 DEF Close, WillMakesUp
<1>8. CASE SayGoodbye
  <2>1. /\ farewell \in 1..(N + 1) /\ farewell' = farewell + 1
        /\ UNCHANGED <<up, willDue, overtaken>>
    BY <1>8 DEF SayGoodbye
  <2>2. ~up => shown' = shown
    BY <1>8 DEF SayGoodbye
  <2>3. up /\ farewell = N + 1 => shown'[0] = "offline"
    BY <1>8 DEF SayGoodbye
  <2> QED BY <2>1, <2>2, <2>3 DEF WillMakesUp
<1>9. CASE ConnectionDrops \/ WillIsPublished \/ BrokerRestarts
  BY <1>9 DEF WillMakesUp, ConnectionDrops, WillIsPublished, BrokerRestarts,
              None
<1>10. CASE Killed
  BY <1>10 DEF WillMakesUp, Killed
<1>11. CASE UNCHANGED vars
  BY <1>11 DEF WillMakesUp, vars
<1> QED BY <1>1, <1>2, <1>3, <1>4, <1>5, <1>6, <1>7, <1>8, <1>9, <1>10, <1>11
        DEF Next, OnConnect, Shutdown

LEMMA Agreed ==
  Spec => [](Structure /\ DesksAgree /\ BridgeAgrees /\ WillMakesUp)
<1>1. Init => Structure /\ DesksAgree /\ BridgeAgrees /\ WillMakesUp
  BY CountsAssumption
     DEF Init, Started, Structure, DesksAgree, BridgeAgrees, WillMakesUp,
         Desks, Closed, None
<1> QED BY <1>1, Typed, StructureStep, DesksAgreeStep, BridgeAgreesStep,
           WillMakesUpStep, PTL DEF Spec

(* Once the OnConnect calls are done, each desk's topic shows what its     *)
(* manager thinks, but where a call published a state it had read before   *)
(* (desk.go:127-129, 268-270, 485-494; bridge.go:179-184).                 *)
THEOREM DesksAreShown == Spec => []ShowsTheDesks
<1>1. DesksAgree => ShowsTheDesks
  BY DEF DesksAgree, ShowsTheDesks
<1> QED BY <1>1, Agreed, PTL

(* A connected bridge is shown online until its goodbye, whatever wills of *)
(* earlier connections the broker still publishes (bridge.go:117-118,      *)
(* 179-180; mqttc.go:133-145).                                             *)
THEOREM BridgeIsShown == Spec => []ShowsTheBridge
<1>1. BridgeAgrees => ShowsTheBridge
  BY DEF BridgeAgrees, ShowsTheBridge
<1> QED BY <1>1, Agreed, PTL

(* A clean shutdown does not leave the bridge shown online, unless a       *)
(* belated OnConnect call overtook the goodbye (bridge.go:131-142).        *)
THEOREM GoodbyeIsShown == Spec => []NotLeftOnline
<1>1. WillMakesUp => NotLeftOnline
  BY DEF WillMakesUp, NotLeftOnline
<1> QED BY <1>1, Agreed, PTL
=============================================================================
