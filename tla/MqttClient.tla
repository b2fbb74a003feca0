----------------------------- MODULE MqttClient ------------------------------
(***************************************************************************)
(* mqttc.Client: its own connect loop (Run), with paho's reconnecting      *)
(* switched off, and the two handlers paho calls on goroutines of its own, *)
(* OnConnect (resubscribe, then republish) and ConnectionLost.             *)
(* The broker, the network and paho itself are external.                   *)
(***************************************************************************)
EXTENDS Naturals

CONSTANTS
  Topics,       \* the filters registered with Subscribe before Run starts
  MinBackoff,   \* 2 s, in abstract units
  MaxBackoff,   \* 60 s
  MaxFaults,    \* bound: connections lost and attempts that fail
  MaxRefusals   \* bound: subscriptions that fail or time out

ASSUME BackoffAssumption ==
  MinBackoff \in Nat \ {0} /\ MaxBackoff \in Nat /\ MinBackoff <= MaxBackoff

ASSUME BudgetAssumption == MaxFaults \in Nat /\ MaxRefusals \in Nat

VARIABLES
  pc,          \* where Run is, see Places
  backoff,
  waited,      \* history: the sleep before, since the last connection; or 0
  lost,        \* c.lost, a channel of capacity 1: is there a token in it?
  up,          \* IsConnectionOpen
  subscribed,  \* the filters the broker holds for this connection
  onConnect,   \* the OnConnect calls in progress: what each has left to
               \* subscribe, and the connection it was made for
  session,     \* how many connections have been made
  announced,   \* history: the last connection on which republishAll ran
  lostCalls,   \* ConnectionLost calls that have not run yet
  stale,       \* history: a connection that Run did not see come up, or its
               \* ConnectionLost call, is still about
  faults, refusals,
  ctxDone

runVars    == <<pc, backoff, waited>>
brokerVars == <<up, subscribed, session, stale>>
callVars   == <<onConnect, announced, lostCalls>>
vars == <<runVars, lost, brokerVars, callVars, faults, refusals, ctxDone>>

SmallerOf(a, b) == IF a <= b THEN a ELSE b

Places ==
  {"draining", "connecting", "connected", "waiting", "sleeping", "stopped"}

Call == [todo : SUBSET Topics, session : Nat]

TypeOK ==
  /\ pc \in Places
  /\ backoff \in MinBackoff..MaxBackoff /\ waited \in 0..MaxBackoff
  /\ lost \in BOOLEAN /\ up \in BOOLEAN /\ subscribed \in SUBSET Topics
  /\ onConnect \in SUBSET Call
  /\ session \in Nat /\ announced \in Nat /\ lostCalls \in Nat
  /\ stale \in BOOLEAN
  /\ faults \in Nat /\ refusals \in Nat /\ ctxDone \in BOOLEAN

Init ==
  /\ pc = "draining" /\ backoff = MinBackoff /\ waited = 0
  /\ lost = FALSE /\ up = FALSE /\ subscribed = {} /\ onConnect = {}
  /\ session = 0 /\ announced = 0 /\ lostCalls = 0 /\ stale = FALSE
  /\ faults = 0 /\ refusals = 0 /\ ctxDone = FALSE

-----------------------------------------------------------------------------
(* Run.                                                                    *)

(* What is left of a connection Run did not see is a token at most.        *)
Forgotten == stale' = (stale /\ (up \/ lostCalls > 0))

Drain_KeepsToken ==
  /\ pc = "draining" /\ ~ctxDone
  /\ Forgotten
  /\ pc' = "connecting"
  /\ UNCHANGED <<backoff, waited, lost, up, subscribed, session, callVars,
                 faults, refusals, ctxDone>>

(* The loop condition, then discard a drop reported for the previous       *)
(* connection.                                                             *)
Drain ==
  /\ pc = "draining" /\ ~ctxDone
  /\ lost' = FALSE
  /\ Forgotten
  /\ pc' = "connecting"
  /\ UNCHANGED <<backoff, waited, up, subscribed, session, callVars, faults,
                 refusals, ctxDone>>

ComeUp_SubscribesOnce ==
  /\ up' = TRUE /\ subscribed' = {} /\ session' = session + 1
  /\ onConnect' = onConnect \cup
       {[todo |-> IF session = 0 THEN Topics ELSE {}, session |-> session']}

(* A clean session has no subscriptions; paho calls OnConnect.             *)
ComeUp ==
  /\ up' = TRUE /\ subscribed' = {} /\ session' = session + 1
  /\ onConnect' = onConnect \cup {[todo |-> Topics, session |-> session']}

(* The token of the attempt completes: the connection is up, and may be    *)
(* lost again before Run looks.                                            *)
ConnectSucceeds ==
  /\ pc = "connecting" /\ ~up
  /\ ComeUp
  /\ pc' = "connected"
  /\ UNCHANGED <<backoff, waited, lost, stale, announced, lostCalls, faults,
                 refusals, ctxDone>>

Succeed_KeepsBackoff ==
  /\ pc = "connected"
  /\ waited' = 0
  /\ pc' = "waiting"
  /\ UNCHANGED <<backoff, lost, brokerVars, callVars, faults, refusals,
                 ctxDone>>

(* connectOnce returns no error.                                           *)
Succeed ==
  /\ pc = "connected"
  /\ backoff' = MinBackoff /\ waited' = 0
  /\ pc' = "waiting"
  /\ UNCHANGED <<lost, brokerVars, callVars, faults, refusals, ctxDone>>

(* The wait for the token may time out just before the connection is made; *)
(* while a connection is up, paho refuses another.  ctx does not interrupt *)
(* the attempt.                                                            *)
ConnectFails ==
  /\ pc = "connecting"
  /\ \/ up /\ UNCHANGED <<up, subscribed, session, stale, onConnect, faults>>
     \/ /\ ~up /\ faults < MaxFaults /\ faults' = faults + 1
        /\ UNCHANGED <<up, subscribed, session, stale, onConnect>>
     \/ /\ ~up /\ faults < MaxFaults /\ faults' = faults + 1
        /\ ComeUp
        /\ stale' = TRUE
  /\ pc' = "sleeping"
  /\ UNCHANGED <<backoff, waited, lost, announced, lostCalls, refusals,
                 ctxDone>>

WaitEnds ==
  /\ pc = "waiting"
  /\ lost
  /\ lost' = FALSE
  /\ pc' = "draining"
  /\ UNCHANGED <<backoff, waited, brokerVars, callVars, faults, refusals,
                 ctxDone>>

SleepEnds_Uncapped ==
  /\ pc = "sleeping"
  /\ waited' = backoff
  /\ backoff' = 2 * backoff
  /\ pc' = "draining"
  /\ UNCHANGED <<lost, brokerVars, callVars, faults, refusals, ctxDone>>

SleepEnds ==
  /\ pc = "sleeping"
  /\ waited' = backoff
  /\ backoff' = SmallerOf(2 * backoff, MaxBackoff)
  /\ pc' = "draining"
  /\ UNCHANGED <<lost, brokerVars, callVars, faults, refusals, ctxDone>>

Stop_NotWhileWaiting ==
  /\ ctxDone
  /\ pc \in {"draining", "sleeping"}
  /\ pc' = "stopped"
  /\ UNCHANGED <<backoff, waited, lost, brokerVars, callVars, faults, refusals,
                 ctxDone>>

Stop ==
  /\ ctxDone
  /\ pc \in {"draining", "waiting", "sleeping"}
  /\ pc' = "stopped"
  /\ UNCHANGED <<backoff, waited, lost, brokerVars, callVars, faults, refusals,
                 ctxDone>>

Run ==
  \/ Drain \/ ConnectSucceeds \/ Succeed \/ ConnectFails
  \/ WaitEnds \/ SleepEnds \/ Stop

-----------------------------------------------------------------------------
(* paho's handlers.                                                        *)

(* resubscribe goes through the filters, on whatever connection is up by   *)
(* then.  A subscription that fails is logged.                             *)
Subscribes(call, t) ==
  /\ t \in call.todo
  /\ \/ up /\ subscribed' = subscribed \cup {t} /\ UNCHANGED refusals
     \/ ~up /\ UNCHANGED <<subscribed, refusals>>
     \/ /\ up /\ refusals < MaxRefusals
        /\ refusals' = refusals + 1
        /\ UNCHANGED subscribed
  /\ onConnect' = (onConnect \ {call}) \cup {[call EXCEPT !.todo = @ \ {t}]}
  /\ UNCHANGED <<runVars, lost, up, session, stale, announced, lostCalls,
                 faults, ctxDone>>

(* Then onReconnect, whose publishes go nowhere unless a connection is up. *)
Announces(call) ==
  /\ call.todo = {}
  /\ announced' = IF up THEN session ELSE announced
  /\ onConnect' = onConnect \ {call}
  /\ UNCHANGED <<runVars, lost, brokerVars, lostCalls, faults, refusals,
                 ctxDone>>

OnConnect == \E call \in onConnect :
  Announces(call) \/ \E t \in Topics : Subscribes(call, t)

(* With a channel of capacity 0 the poke would need Run at its select.     *)
OnConnectionLost_Unbuffered ==
  /\ lostCalls > 0
  /\ lostCalls' = lostCalls - 1
  /\ lost' = (pc = "waiting")
  /\ UNCHANGED <<runVars, brokerVars, onConnect, announced, faults, refusals,
                 ctxDone>>

OnConnectionLost ==
  /\ lostCalls > 0
  /\ lostCalls' = lostCalls - 1
  /\ lost' = TRUE
  /\ UNCHANGED <<runVars, brokerVars, onConnect, announced, faults, refusals,
                 ctxDone>>

-----------------------------------------------------------------------------
(* The surroundings.                                                       *)

ConnectionDrops ==
  /\ up
  /\ faults < MaxFaults /\ faults' = faults + 1
  /\ up' = FALSE /\ subscribed' = {}
  /\ lostCalls' = lostCalls + 1
  /\ UNCHANGED <<runVars, lost, session, stale, onConnect, announced, refusals,
                 ctxDone>>

Cancel ==
  /\ ~ctxDone
  /\ ctxDone' = TRUE
  /\ UNCHANGED <<runVars, lost, brokerVars, callVars, faults, refusals>>

Next ==
  Run \/ OnConnect \/ OnConnectionLost \/ ConnectionDrops \/ Cancel

(* Run's goroutine and paho's go on; select does not ignore ctx for ever.  *)
Fairness ==
  /\ WF_vars(Run) /\ SF_vars(Stop)
  /\ WF_vars(OnConnect) /\ WF_vars(OnConnectionLost)

Spec == Init /\ [][Next]_vars
FairSpec == Spec /\ Fairness

-----------------------------------------------------------------------------

(* While Run waits for the connection to be lost, either it is up or the   *)
(* loss has a call or a token on its way: the discard at the top of the    *)
(* loop never swallows the loss of the connection that follows it          *)
(* (mqttc.go:146-151, 167-171, 186-191).                                   *)
LossIsSeen == pc = "waiting" /\ ~up => lost \/ lostCalls > 0

(* Conversely, Run never gives up a connection that is up because of an     *)
(* earlier one.  The exception is a connection whose attempt had timed out: *)
(* its ConnectionLost call may come after the discard (mqttc.go:203-211).  *)
NoFalseAlarm ==
  pc = "waiting" /\ up /\ ~stale => ~lost /\ lostCalls = 0

(* The first sleep after a connection is the minimum, every further one    *)
(* twice the one before, up to the maximum (mqttc.go:185, 194-199).        *)
RetriesArePaced ==
  pc = "sleeping" =>
    backoff = IF waited = 0 THEN MinBackoff
                            ELSE SmallerOf(2 * waited, MaxBackoff)

(* A filter that is not subscribed on the connection that is up has an     *)
(* OnConnect call on its way to do so, unless the broker has refused one,  *)
(* and what is to be announced on it has a call that will: no reconnect in *)
(* the middle of an earlier call's work leaves a gap                       *)
(* (mqttc.go:137-145, 246-283).                                            *)
ServedOrOnTheWay ==
  up =>
    /\ \/ refusals > 0
       \/ \A t \in Topics : \/ t \in subscribed
                            \/ \E call \in onConnect : t \in call.todo
    /\ announced = session \/ \E call \in onConnect : call.session = session

(* Run as the owner of a supervised connection: trying until connectOnce   *)
(* has returned, then holding.  Excused is a connection made after its     *)
(* attempt had timed out, for as long as something of it is about.         *)
OwnerOf ==
  CASE pc = "draining" -> "away"
    [] pc \in {"connecting", "connected"} -> "trying"
    [] pc = "waiting" -> "holding"
    [] pc = "sleeping" -> "resting"
    [] pc = "stopped" -> "stopped"

ToldOf == OwnerOf \in {"trying", "holding"} /\ (lost \/ lostCalls > 0)

Supervised == INSTANCE SupervisedLink
                WITH MinWait <- MinBackoff, MaxWait <- MaxBackoff,
                     owner <- OwnerOf, alive <- up, told <- ToldOf,
                     wait <- waited, done <- ctxDone, excused <- stale

(* The client keeps its connection as SupervisedLink promises, like a      *)
(* desk's manager its link, but tries again at once after a loss           *)
(* (mqttc.go:157-211).                                                     *)
SupervisesLink == Supervised!Spec

(* Once the faults are over, the client is connected for good, with every  *)
(* filter subscribed on the connection it has, unless the broker has       *)
(* refused one, and what was published has been announced again on it      *)
(* (mqttc.go:137-145, 246-283).                                            *)
ComesBack ==
  <>[](\/ ctxDone
       \/ /\ up /\ announced = session
          /\ subscribed = Topics \/ refusals > 0)

(* Told to stop, Run returns (mqttc.go:166, 187-196).                      *)
RunReturns == ctxDone ~> pc = "stopped"
=============================================================================
