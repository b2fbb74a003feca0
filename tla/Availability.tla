---------------------------- MODULE Availability -----------------------------
(***************************************************************************)
(* What the broker shows on the availability topics, and who writes it:    *)
(* each deskManager when its connection comes and goes (desk.go), the      *)
(* OnConnect handler, which says it all again after every MQTT connect on  *)
(* a goroutine of its own (mqttc.go, Bridge.republishAll), and Bridge.Run, *)
(* which says goodbye and closes the client (bridge.go).                   *)
(*                                                                         *)
(* A desk is its index in the configuration; index 0 is the bridge's own   *)
(* topic.  The broker, its retained messages and the last will, the        *)
(* network and the process being killed are external.                      *)
(***************************************************************************)
EXTENDS Naturals

CONSTANTS
  N,            \* the number of desks
  MaxAttempts,  \* bound: BLE connections attempted, over all desks
  MaxFaults,    \* bound: MQTT connections dropped and broker restarts
  MaxKills      \* bound: times the process is killed and started again

ASSUME CountsAssumption ==
  /\ N \in Nat \ {0}
  /\ MaxAttempts \in Nat /\ MaxFaults \in Nat /\ MaxKills \in Nat

VARIABLES
  \* the desk managers
  mpc,        \* where each is, see Places
  online,     \* m.online, under stateMu
  \* the MQTT client
  run,        \* Client.Run: "connecting", "connected" or "stopped"
  up,         \* IsConnectionOpen
  session,    \* connections made so far
  onConnect,  \* the OnConnect calls in progress: the topic each is at, and the
              \* desk's state it has read (None: not yet)
  \* Bridge.Run
  ctxDone,
  farewell,   \* 0 before wg.Wait returns; then the desk it is saying goodbye
              \* for; N+1 the bridge; N+2 letting it drain; N+3 closed
  \* the broker
  shown,      \* the retained message on each topic
  willDue,    \* the last will is yet to be published
  \* history
  raced,      \* what a desk's topic shows was read before the desk changed
  overtaken,  \* an OnConnect call announced the bridge after its goodbye
  attempts, faults, kills

deskVars    == <<mpc, online>>
clientVars  == <<run, up, session, onConnect>>
bridgeVars  == <<ctxDone, farewell>>
brokerVars  == <<shown, willDue>>
historyVars == <<raced, overtaken>>
bounds      == <<attempts, faults, kills>>
vars == <<deskVars, clientVars, bridgeVars, brokerVars, historyVars, bounds>>

Desks == 1..N
Closed == N + 3
None == "none"

Places == {"away", "connecting", "rising", "serving", "falling", "stopped"}

Call == [session : Nat, at : 0..N, read : {None, "online", "offline"}]

TypeOK ==
  /\ mpc \in [Desks -> Places] /\ online \in [Desks -> BOOLEAN]
  /\ run \in {"connecting", "connected", "stopped"} /\ up \in BOOLEAN
  /\ session \in Nat /\ onConnect \in SUBSET Call
  /\ ctxDone \in BOOLEAN /\ farewell \in 0..Closed
  /\ shown \in [0..N -> {None, "online", "offline"}] /\ willDue \in BOOLEAN
  /\ raced \in [Desks -> BOOLEAN] /\ overtaken \in BOOLEAN
  /\ attempts \in Nat /\ faults \in Nat /\ kills \in Nat

Started ==
  /\ mpc = [d \in Desks |-> "away"] /\ online = [d \in Desks |-> FALSE]
  /\ run = "connecting" /\ up = FALSE /\ onConnect = {}
  /\ ctxDone = FALSE /\ farewell = 0

(* Run's own announcement of the bridge, made before the client is told to *)
(* connect, goes nowhere.                                                  *)
Init ==
  /\ Started
  /\ session = 0
  /\ shown = [t \in 0..N |-> None] /\ willDue = FALSE
  /\ raced = [d \in Desks |-> FALSE] /\ overtaken = FALSE
  /\ attempts = 0 /\ faults = 0 /\ kills = 0

(* publish drops the message unless the connection is up.                  *)
Publish(t, payload) ==
  shown' = IF up THEN [shown EXCEPT ![t] = payload] ELSE shown

Payload(d) == IF online[d] THEN "online" ELSE "offline"

-----------------------------------------------------------------------------
(* A desk manager.                                                         *)

Goes(d, from, to) == mpc[d] = from /\ mpc' = [mpc EXCEPT ![d] = to]

Attempt(d) ==
  /\ ~ctxDone
  /\ attempts < MaxAttempts /\ attempts' = attempts + 1
  /\ Goes(d, "away", "connecting")
  /\ UNCHANGED <<online, clientVars, bridgeVars, brokerVars, historyVars,
                 faults, kills>>

(* connectAndServe gets through: setOnline(true).                          *)
Rise(d) ==
  /\ Goes(d, "connecting", "rising")
  /\ online' = [online EXCEPT ![d] = TRUE]
  /\ UNCHANGED <<clientVars, bridgeVars, brokerVars, historyVars, bounds>>

(* connectAndServe returns: setOnline(false).                              *)
Fall(d) ==
  /\ Goes(d, "connecting", "falling") \/ Goes(d, "serving", "falling")
  /\ online' = [online EXCEPT ![d] = FALSE]
  /\ UNCHANGED <<clientVars, bridgeVars, brokerVars, historyVars, bounds>>

Tell(d, payload) ==
  /\ Publish(d, payload)
  /\ raced' = [raced EXCEPT ![d] = @ /\ ~up]
  /\ UNCHANGED <<clientVars, bridgeVars, willDue, overtaken, bounds>>

TellOnline(d) ==
  /\ Goes(d, "rising", "serving")
  /\ Tell(d, "online")
  /\ UNCHANGED online

TellOffline(d) ==
  /\ Goes(d, "falling", IF ctxDone THEN "stopped" ELSE "away")
  /\ Tell(d, "offline")
  /\ UNCHANGED online

(* The loop condition, resolve or the wait between attempts sees ctx.      *)
StopManager(d) ==
  /\ ctxDone
  /\ Goes(d, "away", "stopped")
  /\ UNCHANGED <<online, clientVars, bridgeVars, brokerVars, historyVars,
                 bounds>>

Manager(d) ==
  Attempt(d) \/ Rise(d) \/ Fall(d) \/ TellOnline(d) \/ TellOffline(d)
    \/ StopManager(d)

-----------------------------------------------------------------------------
(* The MQTT client.                                                        *)

(* Run's attempt succeeds: paho calls OnConnect.  A broker that was still  *)
(* holding the connection before publishes its will first.                 *)
ConnectSucceeds ==
  /\ run = "connecting" /\ ~up
  /\ up' = TRUE /\ run' = "connected"
  /\ session' = session + 1
  /\ onConnect' =
       onConnect \cup {[session |-> session', at |-> 0, read |-> None]}
  /\ shown' = IF willDue THEN [shown EXCEPT ![0] = "offline"] ELSE shown
  /\ willDue' = FALSE
  /\ UNCHANGED <<deskVars, bridgeVars, historyVars, bounds>>

(* Run is told that the connection is lost and goes back to its loop.      *)
Reconnect ==
  /\ run = "connected" /\ ~up
  /\ run' = "connecting"
  /\ UNCHANGED <<deskVars, up, session, onConnect, bridgeVars, brokerVars,
                 historyVars, bounds>>

StopRun_NotWhileConnected ==
  /\ ctxDone /\ run = "connecting"
  /\ run' = "stopped"
  /\ UNCHANGED <<deskVars, up, session, onConnect, bridgeVars, brokerVars,
                 historyVars, bounds>>

StopRun ==
  /\ ctxDone /\ run # "stopped"
  /\ run' = "stopped"
  /\ UNCHANGED <<deskVars, up, session, onConnect, bridgeVars, brokerVars,
                 historyVars, bounds>>

Becomes(call, then) == onConnect' = (onConnect \ {call}) \cup then

AnnounceBridge_Once(call) ==
  /\ call.at = 0
  /\ IF call.session = 1 THEN Publish(0, "online") ELSE UNCHANGED shown
  /\ Becomes(call, {[call EXCEPT !.at = 1]})
  /\ UNCHANGED <<deskVars, run, up, session, bridgeVars, willDue, historyVars,
                 bounds>>

(* republishAll: the bridge's topic,                                       *)
AnnounceBridge(call) ==
  /\ call.at = 0
  /\ Publish(0, "online")
  /\ overtaken' = (overtaken \/ (up /\ farewell > N + 1))
  /\ Becomes(call, {[call EXCEPT !.at = 1]})
  /\ UNCHANGED <<deskVars, run, up, session, bridgeVars, willDue, raced,
                 bounds>>

(* then for each desk republishState, which reads the desk's state under   *)
(* stateMu                                                                 *)
ReadState(call) ==
  /\ call.at # 0 /\ call.read = None
  /\ Becomes(call, {[call EXCEPT !.read = Payload(call.at)]})
  /\ UNCHANGED <<deskVars, run, up, session, bridgeVars, brokerVars,
                 historyVars, bounds>>

RepublishState_PastTheLast(call) ==
  /\ call.read # None
  /\ Publish(call.at, call.read)
  /\ raced' = [raced EXCEPT ![call.at] =
                 IF up THEN call.read # Payload(call.at) ELSE @]
  /\ Becomes(call, {[call EXCEPT !.at = @ + 1, !.read = None]})
  /\ UNCHANGED <<deskVars, run, up, session, bridgeVars, willDue, overtaken,
                 bounds>>

(* Republishing only what the broker would not show by itself.             *)
RepublishState_OnlyOnline(call) ==
  /\ call.read # None
  /\ IF call.read = "online" THEN Publish(call.at, call.read)
                             ELSE UNCHANGED shown
  /\ raced' = [raced EXCEPT ![call.at] =
                 IF up /\ call.read = "online" THEN ~online[call.at] ELSE @]
  /\ Becomes(call, IF call.at = N THEN {}
                   ELSE {[call EXCEPT !.at = @ + 1, !.read = None]})
  /\ UNCHANGED <<deskVars, run, up, session, bridgeVars, willDue, overtaken,
                 bounds>>

(* and publishes it after the unlock.                                      *)
RepublishState(call) ==
  /\ call.read # None
  /\ Publish(call.at, call.read)
  /\ raced' = [raced EXCEPT ![call.at] =
                 IF up THEN call.read # Payload(call.at) ELSE @]
  /\ Becomes(call, IF call.at = N THEN {}
                   ELSE {[call EXCEPT !.at = @ + 1, !.read = None]})
  /\ UNCHANGED <<deskVars, run, up, session, bridgeVars, willDue, overtaken,
                 bounds>>

OnConnect == \E call \in onConnect :
  AnnounceBridge(call) \/ ReadState(call) \/ RepublishState(call)

-----------------------------------------------------------------------------
(* Bridge.Run, from the cancelled context on.                              *)

Cancel ==
  /\ ~ctxDone
  /\ ctxDone' = TRUE
  /\ UNCHANGED <<deskVars, clientVars, farewell, brokerVars, historyVars,
                 bounds>>

(* wg.Wait: the managers and Client.Run are waited for, paho's goroutines  *)
(* are not.                                                                *)
WaitReturns ==
  /\ farewell = 0 /\ ctxDone
  /\ run = "stopped" /\ \A d \in Desks : mpc[d] = "stopped"
  /\ farewell' = 1
  /\ UNCHANGED <<deskVars, clientVars, ctxDone, brokerVars, historyVars,
                 bounds>>

SayGoodbye_DesksOnly ==
  /\ farewell \in 1..(N + 1)
  /\ IF farewell = N + 1 THEN UNCHANGED shown ELSE Publish(farewell, "offline")
  /\ raced' = [d \in Desks |-> raced[d] /\ ~(up /\ farewell = d)]
  /\ farewell' = farewell + 1
  /\ UNCHANGED <<deskVars, clientVars, ctxDone, willDue, overtaken, bounds>>

SayGoodbye ==
  /\ farewell \in 1..(N + 1)
  /\ Publish(IF farewell = N + 1 THEN 0 ELSE farewell, "offline")
  /\ raced' = [d \in Desks |-> raced[d] /\ ~(up /\ farewell = d)]
  /\ farewell' = farewell + 1
  /\ UNCHANGED <<deskVars, clientVars, ctxDone, willDue, overtaken, bounds>>

(* The deferred Close: a clean disconnect cancels the will.  The process   *)
(* ends.                                                                   *)
Close ==
  /\ farewell = N + 2
  /\ farewell' = Closed
  /\ up' = FALSE /\ onConnect' = {}
  /\ UNCHANGED <<deskVars, run, session, ctxDone, brokerVars, historyVars,
                 bounds>>

Shutdown == WaitReturns \/ SayGoodbye \/ Close

-----------------------------------------------------------------------------
(* The surroundings.                                                       *)

ConnectionDrops ==
  /\ up
  /\ faults < MaxFaults /\ faults' = faults + 1
  /\ up' = FALSE /\ willDue' = TRUE
  /\ UNCHANGED <<deskVars, run, session, onConnect, bridgeVars, shown,
                 historyVars, attempts, kills>>

WillIsPublished ==
  /\ willDue
  /\ willDue' = FALSE
  /\ shown' = [shown EXCEPT ![0] = "offline"]
  /\ UNCHANGED <<deskVars, clientVars, bridgeVars, historyVars, bounds>>

(* It comes back without its retained messages.                            *)
BrokerRestarts ==
  /\ faults < MaxFaults /\ faults' = faults + 1
  /\ up' = FALSE /\ willDue' = FALSE
  /\ shown' = [t \in 0..N |-> None]
  /\ UNCHANGED <<deskVars, run, session, onConnect, bridgeVars, historyVars,
                 attempts, kills>>

(* The process dies where it is and is started again.                      *)
Killed ==
  /\ farewell # Closed
  /\ kills < MaxKills /\ kills' = kills + 1
  /\ mpc' = [d \in Desks |-> "away"] /\ online' = [d \in Desks |-> FALSE]
  /\ run' = "connecting" /\ up' = FALSE /\ onConnect' = {}
  /\ ctxDone' = FALSE /\ farewell' = 0
  /\ willDue' = (willDue \/ up)
  /\ UNCHANGED <<session, shown, historyVars, attempts, faults>>

Next ==
  \/ \E d \in Desks : Manager(d)
  \/ ConnectSucceeds \/ Reconnect \/ StopRun \/ OnConnect
  \/ Cancel \/ Shutdown
  \/ ConnectionDrops \/ WillIsPublished \/ BrokerRestarts \/ Killed

(* Once ctx is done every wait is left, and an attempt, of either kind,    *)
(* ends by its timeout.                                                    *)
Fairness ==
  /\ \A d \in Desks : WF_vars(ctxDone /\ Manager(d))
  /\ WF_vars(StopRun) /\ WF_vars(Shutdown)

Spec == Init /\ [][Next]_vars
FairSpec == Spec /\ Fairness

-----------------------------------------------------------------------------

(* Once the OnConnect calls are done, each topic shows what the desk's     *)
(* manager thinks, however the connects, drops and restarts on both sides  *)
(* fell, but for what a call published of a state it had read before that  *)
(* state changed (desk.go:127-129, 268-270, 485-494; bridge.go:179-184).   *)
ShowsTheDesks ==
  up /\ onConnect = {} =>
    \A d \in Desks :
      mpc[d] \notin {"rising", "falling"} /\ ~raced[d] => shown[d] = Payload(d)

(* While the client is connected and no OnConnect call is in progress, the *)
(* bridge is shown online until its goodbye: an earlier connection's will  *)
(* is always made up for (bridge.go:117-118, 179-180; mqttc.go:133-145).   *)
ShowsTheBridge ==
  up /\ onConnect = {} /\ farewell <= N + 1 => shown[0] = "online"

(* After a clean shutdown the bridge is not shown online for ever: either  *)
(* the goodbye went out or the will does, unless an OnConnect call came    *)
(* between the goodbye and Close (bridge.go:131-142; mqttc.go:318-320).    *)
NotLeftOnline ==
  farewell = Closed /\ ~willDue /\ ~overtaken => shown[0] # "online"

(* Told to stop, Run says its goodbyes and returns (bridge.go:131-142).    *)
ShutsDown == ctxDone ~> (farewell = Closed \/ ~ctxDone)
=============================================================================
