----------------------------- MODULE DeskManager -----------------------------
(***************************************************************************)
(* The life of one deskManager (internal/bridge/desk.go): resolve the      *)
(* peripheral, connect, set the session up, serve until the link drops,    *)
(* back off, repeat.  Its neighbours run concurrently with it: the event   *)
(* pump that reports drops and discoveries, the paho callbacks that submit *)
(* commands, the Bluetooth link itself, and the shutdown of the process.   *)
(*                                                                         *)
(* Time is abstract: a held connection is "young" until it has lasted      *)
(* stableConnection, and a sleep may end at any moment.  What a command    *)
(* carries, what is published and the keepalive are not in this module.    *)
(***************************************************************************)
EXTENDS Naturals, Sequences

CONSTANTS
  Peripherals,   \* the peripherals that match this desk's entry in the config
  Dead,          \* those of them that never accept a connection
  NoPeripheral,  \* the empty peripheral ID
  QueueCap,      \* capacity of m.commands (8)
  RescanAfter,   \* consecutive failures that discard the peripheral ID (3)
  MinBackoff,    \* reconnect_min_backoff, in abstract units
  MaxBackoff,    \* reconnect_max_backoff
  MaxFaults,     \* bound: link drops and failed Bluetooth calls
  MaxLost,       \* bound: disconnections the BLE client drops
  MaxLate,       \* bound: backoff sleeps that end with a disconnection unread
  MaxCommands,   \* bound: commands that arrive from MQTT
  HelperMayDie   \* bound: whether the Bluetooth helper may die, once

ASSUME PeripheralsAssumption ==
  /\ NoPeripheral \notin Peripherals
  /\ Dead \subseteq Peripherals

ASSUME NumbersAssumption ==
  /\ QueueCap \in Nat \ {0}
  /\ RescanAfter \in Nat \ {0}
  /\ MinBackoff \in Nat \ {0}
  /\ MaxBackoff \in Nat
  /\ MinBackoff <= MaxBackoff
  /\ MaxFaults \in Nat
  /\ MaxLost \in Nat
  /\ MaxLate \in Nat
  /\ MaxCommands \in Nat
  /\ HelperMayDie \in BOOLEAN

VARIABLES
  \* the manager's goroutine
  pc,             \* where run, resolve and connectAndServe are
  err,            \* how connectAndServe ended: "nil", "failed", "disconnected"
  peripheralID,
  consecFailure,
  backoff,
  waited,         \* history: the backoff last slept, 0 before the first sleep
  lastHeld,       \* m.lastHeld: "short" or "stable"
  \* state shared with other goroutines
  online,
  age,            \* how long ago onlineAt was: "none" when it is zero
  left,           \* history: has a connection ended with its link still up?
  wantResolve,
  resolved,       \* channel of capacity 1: {} or the one ID in it
  disconnected,   \* channel of capacity 1: is there a token in it?
  routed,         \* the peripherals byPeripheral maps to this manager
  \* commands
  commands,       \* m.commands, each tagged with the session that accepted it
  submitting,     \* commands past submit's isOnline check, not yet sent
  submissions,    \* how many commands have passed that check
  current,        \* the command apply is working on, a set of at most one
  \* what dpg holds for this desk, outlasting connections
  subsSet,
  deskDevice,     \* the peripheral m.desk was built for
  callbacks,      \* how often the position callback has been registered
  gatt,           \* session in which the cached GATT handles were found
                  \* (0: none)
  armed,          \* session in which the notifications that the callback
                  \* hears were last enabled
  deaf,           \* history: session whose first subscription failed and
                  \* was not reported (0: none)
  \* the Bluetooth side
  linked,         \* peripherals with a live link to this Mac
  session,        \* how many links have been established
  events,         \* Disconnections of a peripheral the pump has not read yet
  faults, lost, late,
  \* what ends for good
  ctxDone,
  helperGone,     \* the helper has died, and its channels are closed
  pumpDone        \* eventPump has returned

runVars  == <<err, consecFailure, backoff, waited, lastHeld>>
bleVars  == <<linked, session, events, faults, lost, late>>
dpgVars  == <<subsSet, deskDevice, callbacks, gatt, armed, deaf>>
cmdVars  == <<commands, submitting, submissions, current>>
findVars == <<peripheralID, wantResolve, resolved, routed>>
upVars   == <<online, age, left>>
endVars  == <<ctxDone, helperGone, pumpDone>>
vars == <<pc, runVars, findVars, upVars, disconnected, cmdVars, dpgVars,
          bleVars, endVars>>

SmallerOf(a, b) == IF a <= b THEN a ELSE b

Command == [id : Nat, kind : {"height", "base_height"}, session : Nat]

(* The steps of connectAndServe between a successful Connect and the        *)
(* deferred Disconnect, and those of them after setOnline(true).            *)
Online    == {"reading", "serving", "applying", "readback"}
Connected == {"discovering", "subscribing", "opening"} \cup Online

TypeOK ==
  /\ pc \in {"loop", "resolving", "draining", "connecting", "discovering",
             "subscribing", "opening", "reading", "serving", "applying",
             "readback", "teardown", "ended", "backoff", "stopped"}
  /\ err \in {"nil", "failed", "disconnected"}
  /\ peripheralID \in Peripherals \cup {NoPeripheral}
  /\ consecFailure \in Nat /\ backoff \in Nat /\ waited \in Nat
  /\ lastHeld \in {"short", "stable"}
  /\ online \in BOOLEAN /\ age \in {"none", "young", "stable"}
  /\ left \in BOOLEAN
  /\ wantResolve \in BOOLEAN /\ disconnected \in BOOLEAN
  /\ resolved \in SUBSET Peripherals /\ routed \in SUBSET Peripherals
  /\ commands \in Seq(Command) /\ Len(commands) <= QueueCap
  /\ submitting \in SUBSET Command /\ current \in SUBSET Command
  /\ submissions \in Nat
  /\ subsSet \in BOOLEAN /\ deskDevice \in Peripherals \cup {NoPeripheral}
  /\ callbacks \in Nat /\ gatt \in Nat
  /\ armed \in Nat /\ deaf \in Nat
  /\ linked \in SUBSET Peripherals /\ session \in Nat
  /\ events \in [Peripherals -> Nat]
  /\ faults \in Nat /\ lost \in Nat /\ late \in Nat
  /\ ctxDone \in BOOLEAN
  /\ helperGone \in BOOLEAN /\ pumpDone \in BOOLEAN

Init ==
  /\ pc = "loop" /\ err = "nil"
  /\ consecFailure = 0 /\ backoff = MinBackoff /\ waited = 0
  /\ lastHeld = "short" /\ online = FALSE /\ age = "none" /\ left = FALSE
  /\ peripheralID = NoPeripheral
  /\ wantResolve = FALSE /\ resolved = {} /\ routed = {}
  /\ disconnected = FALSE
  /\ commands = <<>> /\ submitting = {} /\ submissions = 0 /\ current = {}
  /\ subsSet = FALSE /\ deskDevice = NoPeripheral
  /\ callbacks = 0 /\ gatt = 0 /\ armed = 0 /\ deaf = 0
  /\ linked = {} /\ session = 0
  /\ events = [p \in Peripherals |-> 0]
  /\ faults = 0 /\ lost = 0 /\ late = 0
  /\ ctxDone = FALSE /\ helperGone = FALSE /\ pumpDone = FALSE

-----------------------------------------------------------------------------
(* run: the supervising loop.                                              *)

LoopHead ==
  /\ pc = "loop" /\ ~ctxDone
  /\ \/ /\ peripheralID = NoPeripheral
        /\ wantResolve' = TRUE
        /\ pc' = "resolving"
     \/ /\ peripheralID # NoPeripheral
        /\ pc' = "draining"
        /\ UNCHANGED wantResolve
  /\ UNCHANGED <<runVars, peripheralID, resolved, routed, upVars, disconnected,
                 cmdVars, dpgVars, bleVars, endVars>>

TakeResolved ==
  /\ pc = "resolving"
  /\ \E p \in resolved : peripheralID' = p
  /\ resolved' = {}
  /\ pc' = "draining"
  /\ UNCHANGED <<runVars, wantResolve, routed, upVars, disconnected, cmdVars,
                 dpgVars, bleVars, endVars>>

StopWaiting_NotInResolve ==
  /\ pc \in {"loop", "backoff"} /\ ctxDone
  /\ pc' = "stopped"
  /\ UNCHANGED <<runVars, findVars, upVars, disconnected, cmdVars, dpgVars,
                 bleVars, endVars>>

(* The loop head, resolve and sleepCtx all return once ctx is done.        *)
StopWaiting ==
  /\ pc \in {"loop", "resolving", "backoff"} /\ ctxDone
  /\ pc' = "stopped"
  /\ UNCHANGED <<runVars, findVars, upVars, disconnected, cmdVars, dpgVars,
                 bleVars, endVars>>

(* connectAndServe returned: go offline, then decide about the backoff and *)
(* about the peripheral ID.                                                *)
SetOffline_KeepsOnlineAt ==
  /\ online' = FALSE
  /\ left' = IF peripheralID \in linked THEN TRUE ELSE left
  /\ lastHeld' = IF age = "stable" THEN "stable" ELSE "short"
  /\ UNCHANGED age

SetOffline ==
  /\ online' = FALSE
  /\ left' = IF peripheralID \in linked THEN TRUE ELSE left
  /\ age' = "none"
  /\ lastHeld' = IF age = "stable" THEN "stable" ELSE "short"

AfterDrop ==
  /\ err = "disconnected"
  /\ backoff' = IF lastHeld' = "stable" THEN MinBackoff ELSE backoff
  /\ UNCHANGED <<consecFailure, peripheralID, routed>>

ForgetPeripheral ==
  /\ routed' = routed \ {peripheralID}
  /\ peripheralID' = NoPeripheral
  /\ consecFailure' = 0

AfterFailure_NeverForgets ==
  /\ err = "failed"
  /\ consecFailure' = SmallerOf(consecFailure + 1, RescanAfter)
  /\ UNCHANGED <<peripheralID, routed, backoff>>

AfterFailure ==
  /\ err = "failed"
  /\ IF consecFailure + 1 >= RescanAfter
       THEN ForgetPeripheral
       ELSE /\ consecFailure' = consecFailure + 1
            /\ UNCHANGED <<peripheralID, routed>>
  /\ UNCHANGED backoff

Ended ==
  /\ pc = "ended"
  /\ SetOffline
  /\ \/ /\ ctxDone
        /\ pc' = "stopped"
        /\ UNCHANGED <<consecFailure, peripheralID, routed, backoff>>
     \/ /\ ~ctxDone
        /\ pc' = "backoff"
        /\ AfterDrop \/ AfterFailure
  /\ err' = "nil"
  /\ UNCHANGED <<waited, wantResolve, resolved, disconnected, cmdVars, dpgVars,
                 bleVars, endVars>>

(* The pump has seconds to read a disconnection before the sleep ends; now *)
(* and then it may take longer, and the sleep ends first.                  *)
SleepEnds ==
  IF helperGone \/ \A p \in Peripherals : events[p] = 0
    THEN UNCHANGED late
    ELSE late < MaxLate /\ late' = late + 1

BackoffOver ==
  /\ pc = "backoff"
  /\ SleepEnds
  /\ waited' = backoff
  /\ backoff' = SmallerOf(2 * backoff, MaxBackoff)
  /\ pc' = "loop"
  /\ UNCHANGED <<err, consecFailure, lastHeld, findVars, upVars, disconnected,
                 cmdVars, dpgVars, linked, session, events, faults, lost,
                 endVars>>

-----------------------------------------------------------------------------
(* connectAndServe.                                                        *)

Drain_KeepsToken ==
  /\ pc = "draining"
  /\ pc' = "connecting"
  /\ UNCHANGED <<runVars, findVars, upVars, disconnected, cmdVars, dpgVars,
                 bleVars, endVars>>

Drain ==
  /\ pc = "draining"
  /\ disconnected' = FALSE
  /\ pc' = "connecting"
  /\ UNCHANGED <<runVars, findVars, upVars, cmdVars, dpgVars, bleVars, endVars>>

Reachable == peripheralID \notin Dead /\ ~helperGone

Link ==
  /\ linked' = linked \cup {peripheralID}
  /\ session' = IF peripheralID \in linked THEN session ELSE session + 1

(* dpg's handles are dropped on every connect (gatt.Disconnect).           *)
Connect ==
  /\ pc = "connecting"
  /\ Reachable
  /\ Link
  /\ gatt' = 0
  /\ pc' = "discovering"
  /\ UNCHANGED <<runVars, findVars, upVars, disconnected, cmdVars, subsSet,
                 deskDevice, callbacks, armed, deaf, events, faults, lost, late,
                 endVars>>

(* One more fault, from the budget.                                        *)
Fault == faults < MaxFaults /\ faults' = faults + 1

(* Connect's error returns before the Disconnect is deferred.  The error   *)
(* may be the caller's own deadline, and the helper may still have made    *)
(* the link.                                                               *)
ConnectFails ==
  /\ pc = "connecting"
  /\ \/ (ctxDone \/ ~Reachable)
        /\ UNCHANGED <<linked, session, faults>>
     \/ Fault /\ UNCHANGED <<linked, session>>
     \/ Fault /\ Reachable /\ Link
  /\ err' = "failed"
  /\ pc' = "ended"
  /\ UNCHANGED <<consecFailure, backoff, waited, lastHeld, findVars, upVars,
                 disconnected, cmdVars, dpgVars, events, lost, late, endVars>>

(* A call fails by itself, or because the link is gone.                    *)
CallFails == Fault \/ (peripheralID \notin linked /\ UNCHANGED faults)

(* A cached handle is returned as it is.                                   *)
Discover ==
  /\ pc = "discovering"
  /\ peripheralID \in linked
  /\ gatt' = IF gatt = 0 THEN session ELSE gatt
  /\ pc' = "subscribing"
  /\ UNCHANGED <<runVars, findVars, upVars, disconnected, cmdVars, subsSet,
                 deskDevice, callbacks, armed, deaf, bleVars, endVars>>

DiscoverFails ==
  /\ pc = "discovering"
  /\ CallFails
  /\ gatt' \in {gatt, session}
  /\ err' = "failed"
  /\ pc' = "teardown"
  /\ UNCHANGED <<consecFailure, backoff, waited, lastHeld, findVars, upVars,
                 disconnected, cmdVars, subsSet, deskDevice, callbacks, armed,
                 deaf, linked, session, events, lost, late, endVars>>

(* ensureSubscriptions, the first time: build m.desk and register the       *)
(* callback, which is for good.  dpg then enables the notifications, and    *)
(* reports nothing if that fails.                                           *)
FirstSubscribe ==
  /\ ~subsSet
  /\ deskDevice' = peripheralID
  /\ callbacks' = callbacks + 1
  /\ subsSet' = TRUE
  /\ \/ /\ peripheralID \in linked
        /\ armed' = session
        /\ UNCHANGED <<deaf, faults>>
     \/ /\ CallFails
        /\ deaf' = session
        /\ UNCHANGED armed

(* Later: only enable them again, on the peripheral that is connected.  The *)
(* callback hears the peripheral it was registered for.                     *)
Enable ==
  IF deskDevice = peripheralID
    THEN armed' = session /\ deaf' = 0
    ELSE UNCHANGED <<armed, deaf>>

Rearm_OnlyOnce ==
  /\ subsSet
  /\ UNCHANGED <<armed, deaf, deskDevice, callbacks, subsSet, faults>>

Rearm ==
  /\ subsSet
  /\ peripheralID \in linked
  /\ Enable
  /\ UNCHANGED <<deskDevice, callbacks, subsSet, faults>>

Subscribe ==
  /\ pc = "subscribing"
  /\ FirstSubscribe \/ Rearm
  /\ pc' = "opening"
  /\ UNCHANGED <<runVars, findVars, upVars, disconnected, cmdVars, gatt,
                 linked, session, events, lost, late, endVars>>

(* The second SetNotify may fail after the first has enabled the stream,   *)
(* and either fails at once when ctx is done.  Building the desk may fail  *)
(* too.                                                                    *)
SubscribeFails ==
  /\ pc = "subscribing"
  /\ CallFails \/ (ctxDone /\ UNCHANGED faults)
  /\ (subsSet /\ Enable) \/ UNCHANGED <<armed, deaf>>
  /\ err' = "failed"
  /\ pc' = "teardown"
  /\ UNCHANGED <<consecFailure, backoff, waited, lastHeld, findVars, upVars,
                 disconnected, cmdVars, subsSet, deskDevice, callbacks, gatt,
                 linked, session, events, lost, late, endVars>>

GoOnline_Drains ==
  /\ pc = "opening"
  /\ consecFailure' = 0
  /\ online' = TRUE
  /\ age' = "young"
  /\ disconnected' = FALSE
  /\ pc' = "reading"
  /\ UNCHANGED <<err, backoff, waited, lastHeld, findVars, left, cmdVars,
                 dpgVars, bleVars, endVars>>

(* Wake-up, stop and take_ownership go out first; none of their errors     *)
(* ends the session.                                                       *)
GoOnline ==
  /\ pc = "opening"
  /\ consecFailure' = 0
  /\ online' = TRUE
  /\ age' = "young"
  /\ pc' = "reading"
  /\ UNCHANGED <<err, backoff, waited, lastHeld, findVars, left, disconnected,
                 cmdVars, dpgVars, bleVars, endVars>>

(* readBaseHeight returns, with a value or with an error that is ignored.  *)
BaseHeightRead ==
  /\ pc \in {"reading", "readback"}
  /\ pc' = "serving"
  /\ current' = {}
  /\ UNCHANGED <<runVars, findVars, upVars, disconnected, commands, submitting,
                 submissions, dpgVars, bleVars, endVars>>

ServeDone ==
  /\ pc = "serving"
  /\ ctxDone
  /\ pc' = "teardown"
  /\ UNCHANGED <<runVars, findVars, upVars, disconnected, cmdVars, dpgVars,
                 bleVars, endVars>>

ServeDisconnected ==
  /\ pc = "serving"
  /\ disconnected
  /\ disconnected' = FALSE
  /\ err' = "disconnected"
  /\ pc' = "teardown"
  /\ UNCHANGED <<consecFailure, backoff, waited, lastHeld, findVars, upVars,
                 cmdVars, dpgVars, bleVars, endVars>>

ServeCommand ==
  /\ pc = "serving"
  /\ commands # <<>>
  /\ current' = {Head(commands)}
  /\ commands' = Tail(commands)
  /\ pc' = "applying"
  /\ UNCHANGED <<runVars, findVars, upVars, disconnected, submitting,
                 submissions, dpgVars, bleVars, endVars>>

(* A move is one write; a base height that was written is read back.       *)
(* Failed writes are logged and dropped.                                   *)
Apply ==
  /\ pc = "applying"
  /\ \/ pc' = "serving" /\ current' = {}
     \/ /\ \E c \in current : c.kind = "base_height"
        /\ pc' = "readback"
        /\ UNCHANGED current
  /\ UNCHANGED <<runVars, findVars, upVars, disconnected, commands, submitting,
                 submissions, dpgVars, bleVars, endVars>>

(* The deferred Disconnect; its error is ignored.  Closing a live link     *)
(* makes the helper report a disconnection as well.                        *)
Unlink(p) ==
  /\ linked' = linked \ {p}
  /\ events' = [events EXCEPT ![p] = @ + 1]

Teardown ==
  /\ pc = "teardown"
  /\ \/ /\ peripheralID \in linked
        /\ Unlink(peripheralID)
        /\ UNCHANGED faults
     \/ Fault /\ UNCHANGED <<linked, events>>
     \/ peripheralID \notin linked /\ UNCHANGED <<linked, events, faults>>
  /\ pc' = "ended"
  /\ UNCHANGED <<runVars, findVars, upVars, disconnected, cmdVars, dpgVars,
                 session, lost, late, endVars>>

-----------------------------------------------------------------------------
(* The event pump.  Its select may find an event and ctx done, or a closed *)
(* channel, at once, and then takes either: it may go on reading a while.  *)

(* onDiscovery, as this manager sees it.                                   *)
OnDiscovery(p) ==
  /\ ~pumpDone
  /\ wantResolve
  /\ wantResolve' = FALSE
  /\ routed' = routed \cup {p}
  /\ resolved' = IF resolved = {} THEN {p} ELSE resolved
  /\ UNCHANGED <<pc, runVars, peripheralID, upVars, disconnected, cmdVars,
                 dpgVars, bleVars, endVars>>

OnDisconnection(p) ==
  /\ ~pumpDone
  /\ events[p] > 0
  /\ events' = [events EXCEPT ![p] = @ - 1]
  /\ disconnected' = IF p \in routed THEN TRUE ELSE disconnected
  /\ UNCHANGED <<pc, runVars, findVars, upVars, cmdVars, dpgVars, linked,
                 session, faults, lost, late, endVars>>

PumpReturns ==
  /\ ~pumpDone
  /\ ctxDone \/ helperGone
  /\ pumpDone' = TRUE
  /\ UNCHANGED <<pc, runVars, findVars, upVars, disconnected, cmdVars, dpgVars,
                 bleVars, ctxDone, helperGone>>

-----------------------------------------------------------------------------
(* submit, on a paho callback goroutine per message.  The session tag is   *)
(* history: the code's commands carry none.                                *)

SubmitCheck(kind) ==
  /\ online
  /\ submissions < MaxCommands
  /\ submissions' = submissions + 1
  /\ submitting' = submitting \cup
       {[id |-> submissions', kind |-> kind, session |-> session]}
  /\ UNCHANGED <<pc, runVars, findVars, upVars, disconnected, commands, current,
                 dpgVars, bleVars, endVars>>

SubmitSend_Unbounded(c) ==
  /\ submitting' = submitting \ {c}
  /\ commands' = Append(commands, c)
  /\ UNCHANGED <<pc, runVars, findVars, upVars, disconnected, submissions,
                 current, dpgVars, bleVars, endVars>>

SubmitSend(c) ==
  /\ submitting' = submitting \ {c}
  /\ commands' = IF Len(commands) < QueueCap THEN Append(commands, c)
                                             ELSE commands
  /\ UNCHANGED <<pc, runVars, findVars, upVars, disconnected, submissions,
                 current, dpgVars, bleVars, endVars>>

-----------------------------------------------------------------------------
(* The surroundings.                                                       *)

LinkDrops(p) ==
  /\ p \in linked
  /\ Fault
  /\ Unlink(p)
  /\ UNCHANGED <<pc, runVars, findVars, upVars, disconnected, cmdVars, dpgVars,
                 session, lost, late, endVars>>

(* The BLE client drops an event rather than block on a full channel.      *)
EventLost(p) ==
  /\ events[p] > 0
  /\ lost < MaxLost
  /\ lost' = lost + 1
  /\ events' = [events EXCEPT ![p] = @ - 1]
  /\ UNCHANGED <<pc, runVars, findVars, upVars, disconnected, cmdVars, dpgVars,
                 linked, session, faults, late, endVars>>

(* The helper dies, and with it every link; nobody starts another, and     *)
(* nothing is reported but what is in its channels already.                *)
HelperDies ==
  /\ HelperMayDie /\ ~helperGone
  /\ helperGone' = TRUE
  /\ linked' = {}
  /\ UNCHANGED <<pc, runVars, findVars, upVars, disconnected, cmdVars, dpgVars,
                 session, events, faults, lost, late, ctxDone, pumpDone>>

(* stableConnection has passed since onlineAt.                             *)
Settle ==
  /\ age = "young"
  /\ age' = "stable"
  /\ UNCHANGED <<pc, runVars, findVars, online, left, disconnected, cmdVars,
                 dpgVars, bleVars, endVars>>

Cancel ==
  /\ ~ctxDone
  /\ ctxDone' = TRUE
  /\ UNCHANGED <<pc, runVars, findVars, upVars, disconnected, cmdVars, dpgVars,
                 bleVars, helperGone, pumpDone>>

Run ==
  \/ LoopHead \/ TakeResolved \/ StopWaiting \/ Drain
  \/ Connect \/ ConnectFails \/ Discover \/ DiscoverFails
  \/ Subscribe \/ SubscribeFails \/ GoOnline \/ BaseHeightRead
  \/ ServeDone \/ ServeDisconnected \/ ServeCommand \/ Apply
  \/ Teardown \/ Ended \/ BackoffOver

Next ==
  \/ Run
  \/ \E p \in Peripherals : \/ OnDiscovery(p) \/ OnDisconnection(p)
                            \/ LinkDrops(p) \/ EventLost(p)
  \/ \E kind \in {"height", "base_height"} : SubmitCheck(kind)
  \/ \E c \in submitting : SubmitSend(c)
  \/ PumpReturns
  \/ Settle
  \/ HelperDies \/ Cancel

(* The goroutines keep running: the manager's own, the pump, and a         *)
(* callback that has passed its check.  A matching peripheral that keeps   *)
(* advertising is seen sooner or later by a scan that goes on, hence the   *)
(* strong fairness of OnDiscovery; the pump's select takes a ready case    *)
(* sooner or later, hence that of PumpReturns.  Drops, failures, commands, *)
(* the helper's death and the shutdown may or may not happen.              *)
Fairness ==
  /\ WF_vars(Run)
  /\ \A p \in Peripherals :
       /\ SF_vars(~ctxDone /\ ~helperGone /\ OnDiscovery(p))
       /\ WF_vars(~ctxDone /\ ~helperGone /\ OnDisconnection(p))
  /\ SF_vars(PumpReturns)
  /\ WF_vars(\E c \in submitting : SubmitSend(c))

Spec == Init /\ [][Next]_vars
FairSpec == Spec /\ Fairness

-----------------------------------------------------------------------------
(* Safety.                                                                 *)

(* While the desk is online, a link that is gone always has a wake-up on    *)
(* its way, also one that went during the set-up: the token in              *)
(* m.disconnected, or an event that the pump will read and route to this    *)
(* manager.  The drain at the top of connectAndServe, which discards a      *)
(* token, must not discard this one, and forgetPeripheral must not unroute  *)
(* it (desk.go:203-208, bridge.go:263).  Lost events and a helper that has  *)
(* died are excepted.                                                       *)
LossPending ==
  \/ disconnected
  \/ peripheralID \in routed /\ events[peripheralID] > 0

DropIsSignalled ==
  lost = 0 /\ ~helperGone /\ pc \in Online /\ peripheralID \notin linked =>
    LossPending

(* While a desk is online over a live link, the GATT handles are those of   *)
(* this link and not of an earlier one, its readings reach the callback,    *)
(* and that is registered exactly once, however many reconnects came before *)
(* and however they ended (desk.go:225-234, 349-387).  Two sessions are     *)
(* excepted, because they are online and hear nothing: the one whose first  *)
(* subscription failed, which AddReferenceOutputCallback does not report,   *)
(* and any with a peripheral found by a re-scan, whose notifications are    *)
(* enabled for a callback that is registered for the first.                 *)
SessionSetUp ==
  pc \in Online =>
    /\ callbacks = 1
    /\ peripheralID \in linked =>
         /\ gatt = session
         /\ armed = session \/ deaf = session \/ deskDevice # peripheralID

(* A disconnection that stems from an earlier connection does not end the  *)
(* present one: as long as the pump reads every disconnection before the   *)
(* sleep it falls into ends, and no link has been left up by a failed      *)
(* Connect or a failed Disconnect, the serve loop only ever gives up a     *)
(* link that is gone (desk.go:203-223, 291).                               *)
EndsForItsOwnLoss ==
  [][late = 0 /\ ~left /\ ServeDisconnected => peripheralID \notin linked]_vars

(* Before each reconnect, the wait is the minimum after a connection that  *)
(* lasted stableConnection, and twice the previous wait, up to the         *)
(* maximum, after anything shorter: a flapping desk never gets the minimum *)
(* twice in a row, and a stable one is never made to wait for the failures *)
(* that came before it (desk.go:134-163, 503-518).                         *)
BackoffPaced ==
  pc = "backoff" =>
    backoff = IF lastHeld = "stable" \/ waited = 0
                THEN MinBackoff
                ELSE SmallerOf(2 * waited, MaxBackoff)

-----------------------------------------------------------------------------
(* The manager as the owner of a supervised connection: trying until the   *)
(* session is set up, then holding.  Excused are a late or a lost event, a *)
(* link left up by a failed Connect or Disconnect, and the helper's death. *)

OwnerOf ==
  CASE pc \in {"loop", "resolving", "draining"} -> "away"
    [] pc = "connecting" \/ pc \in Connected \ Online -> "trying"
    [] pc \in Online -> "holding"
    [] pc \in {"teardown", "ended"} /\ age = "none" -> "failing"
    [] pc \in {"teardown", "ended"} /\ age # "none" -> "closing"
    [] pc = "backoff" -> "resting"
    [] OTHER -> "stopped"

ToldOf == OwnerOf \in {"trying", "holding"} /\ LossPending

WaitOf == IF pc = "backoff" /\ lastHeld = "stable" THEN 0 ELSE waited

Excused == late > 0 \/ lost > 0 \/ left \/ helperGone

Supervised == INSTANCE SupervisedLink
                WITH MinWait <- MinBackoff, MaxWait <- MaxBackoff,
                     owner <- OwnerOf, alive <- peripheralID \in linked,
                     told <- ToldOf, wait <- WaitOf, done <- ctxDone,
                     excused <- Excused

(* The manager keeps its link as SupervisedLink promises: it never tries   *)
(* with an earlier link about, gives a link up only when it is gone, has   *)
(* the loss of every link it uses on its way to it, and rests after every  *)
(* attempt and every connection, twice as long each time unless the        *)
(* connection was stable (desk.go:120-165, 197-330).                       *)
SupervisesLink == Supervised!Spec

-----------------------------------------------------------------------------
(* Liveness, under FairSpec.                                               *)

(* Once the faults are over, the desk is brought back online on a live     *)
(* link and kept there, even if the manager held an ID that no longer      *)
(* accepts a connection: after RescanAfter failures it scans again         *)
(* (desk.go:120-165).  Nothing replaces a helper that has died             *)
(* (bridge.go:200-226): that is excepted.                                  *)
KeptUp ==
  <>[](ctxDone \/ helperGone \/ (online /\ peripheralID \in linked))

(* Wherever the manager's goroutine is when the process is told to stop,   *)
(* and whether the helper is still there or has died with the desk online, *)
(* in its set-up or looked for, the manager and the pump return, so that   *)
(* Bridge.Run gets past wg.Wait (bridge.go:131-133, 194-226).              *)
StopsWhenAsked == ctxDone ~> pc = "stopped" /\ pumpDone

-----------------------------------------------------------------------------
(* What the documentation says and the code does not do.                   *)

(* "Commands while a desk is offline are dropped": a command reaches the   *)
(* desk in the connection that was up when it was accepted, or never       *)
(* (README.md:418, desk.go:551-556, 297).                                  *)
NoCommandCarriedOver ==
  pc = "applying" => \A c \in current : c.session = session

(* "Go back to scanning" when the peripheral ID is stale: the commands     *)
(* then go to the desk that was connected (desk.go:151-157, 373).          *)
ServesItsPeripheral == pc = "serving" => deskDevice = peripheralID

=============================================================================
