------------------------------ MODULE Throttle -------------------------------
(***************************************************************************)
(* The height of one desk on its way to the broker: throttle.go between    *)
(* onReferenceOutput and publishHeight (desk.go).  Readings arrive on the  *)
(* notification goroutine, from the moment the callback is armed and as    *)
(* long as notifications come, served or not; Flush and Reset run on the   *)
(* manager's, the first from its ticker while it serves, the second when a *)
(* connection comes up, after the callback has been armed.                 *)
(* The decision to publish is made under the throttle's lock, publishing   *)
(* happens after it is released: each goroutine carries the value it is    *)
(* about to publish.  On paho's goroutines, republishState says the height *)
(* again after each MQTT connect.  The desk, the broker and the network    *)
(* are external.                                                           *)
(***************************************************************************)
EXTENDS Naturals

CONSTANTS
  Heights,      \* the readings a desk can send
  None,         \* no height
  MinInterval,  \* publish_min_interval, in ticks
  MaxReadings,  \* bound: readings
  MaxDrops,     \* bound: connections to the desk that end
  MaxConnects   \* bound: connections made to the broker

ASSUME ThrottleAssumption ==
  /\ None \notin Heights
  /\ MinInterval \in Nat
  /\ MaxReadings \in Nat /\ MaxDrops \in Nat /\ MaxConnects \in Nat

VARIABLES
  \* the throttle, under its lock; None where has... is false
  last, pending,
  since,        \* time since lastAt, up to MinInterval
  \* a publishHeight in progress on either goroutine, and how far it has got
  inSet, inFlush,
  \* what publishing leaves behind
  lastHeight,   \* m.lastHeight
  shown,        \* the retained height, None if the broker has none
  overtaken,    \* history: lastHeight is older than the throttle's decision
  raced,        \* history: what is shown was published after a newer height
  \* the MQTT connection
  up,           \* IsConnectionOpen
  calls,        \* the republishState calls in progress, each with its
                \* connection and the height it has read (None: not yet)
  connects,
  \* the surroundings
  serving,      \* is the manager past Reset and in its serve loop?
  latest,       \* history: the last reading the desk sent
  atRest,       \* history: was its speed 0?
  readings, drops

throttleVars == <<last, pending, since>>
flightVars   == <<inSet, inFlush>>
outVars      == <<lastHeight, shown, overtaken, raced>>
mqttVars     == <<up, calls, connects>>
deskVars     == <<serving, latest, atRest, readings, drops>>
vars == <<throttleVars, flightVars, outVars, mqttVars, deskVars>>

Height == Heights \cup {None}

Idle == [stage |-> "idle", value |-> None]

Call == [connect : 1..MaxConnects, value : Height]

Flight == {Idle} \cup [stage : {"recording", "publishing"}, value : Heights]

TypeOK ==
  /\ last \in Height /\ pending \in Height /\ since \in 0..MinInterval
  /\ inSet \in Flight /\ inFlush \in Flight
  /\ lastHeight \in Height /\ shown \in Height
  /\ overtaken \in BOOLEAN /\ raced \in BOOLEAN
  /\ up \in BOOLEAN /\ calls \subseteq Call /\ connects \in 0..MaxConnects
  /\ serving \in BOOLEAN /\ latest \in Height /\ atRest \in BOOLEAN
  /\ readings \in 0..MaxReadings /\ drops \in 0..MaxDrops

(* The desk is about to be served for the first time, with or without the  *)
(* broker; an OnConnect that came before has had no height to republish.   *)
Init ==
  /\ last = None /\ pending = None /\ since = MinInterval
  /\ inSet = Idle /\ inFlush = Idle
  /\ lastHeight = None /\ shown = None
  /\ overtaken = FALSE /\ raced = FALSE
  /\ up \in BOOLEAN /\ calls = {} /\ connects = 0
  /\ serving = FALSE /\ latest = None /\ atRest = FALSE
  /\ readings = 0 /\ drops = 0

-----------------------------------------------------------------------------
(* Set, on the notification goroutine.                                     *)

Unchanged_KeepsPending(v) == last = v /\ UNCHANGED <<throttleVars, inSet>>

(* Nothing new to say; a pending duplicate goes too.                       *)
Unchanged(v) ==
  /\ last = v
  /\ pending' = None
  /\ UNCHANGED <<last, since, inSet>>

Decide_KeepsPending(v) ==
  /\ last' = v /\ since' = 0
  /\ UNCHANGED pending

Decide(v) ==
  /\ last' = v /\ since' = 0
  /\ pending' = None

PublishNow(v, force) ==
  /\ last # v
  /\ force \/ last = None \/ since >= MinInterval
  /\ Decide(v)
  /\ inSet' = [stage |-> "recording", value |-> v]

Coalesce(v, force) ==
  /\ last # v
  /\ ~force /\ last # None /\ since < MinInterval
  /\ pending' = v
  /\ UNCHANGED <<last, since, inSet>>

Set(v, force) ==
  /\ inSet = Idle
  /\ readings < MaxReadings
  /\ Unchanged(v) \/ PublishNow(v, force) \/ Coalesce(v, force)
  /\ latest' = v /\ atRest' = force /\ readings' = readings + 1
  /\ UNCHANGED <<inFlush, outVars, mqttVars, serving, drops>>

-----------------------------------------------------------------------------
(* publishHeight, on either goroutine: remember the height, then publish.  *)

Remember_IfConnected(v) ==
  /\ lastHeight' = IF up THEN v ELSE lastHeight
  /\ overtaken' = (last \notin {None, v})

Remember(v) ==
  /\ lastHeight' = v
  /\ overtaken' = (last \notin {None, v})

(* Client.publish drops what it is given while the connection is down.     *)
Publish(v, late) ==
  /\ shown' = IF up THEN v ELSE shown
  /\ raced' = IF up THEN late ELSE raced

SetRecords ==
  /\ inSet.stage = "recording"
  /\ Remember(inSet.value)
  /\ inSet' = [inSet EXCEPT !.stage = "publishing"]
  /\ UNCHANGED <<throttleVars, inFlush, shown, raced, mqttVars, deskVars>>

SetPublishes ==
  /\ inSet.stage = "publishing"
  /\ Publish(inSet.value, last \notin {None, inSet.value})
  /\ inSet' = Idle
  /\ UNCHANGED <<throttleVars, inFlush, lastHeight, overtaken, mqttVars,
                 deskVars>>

FlushRecords ==
  /\ inFlush.stage = "recording"
  /\ Remember(inFlush.value)
  /\ inFlush' = [inFlush EXCEPT !.stage = "publishing"]
  /\ UNCHANGED <<throttleVars, inSet, shown, raced, mqttVars, deskVars>>

FlushPublishes ==
  /\ inFlush.stage = "publishing"
  /\ Publish(inFlush.value, last \notin {None, inFlush.value})
  /\ inFlush' = Idle
  /\ UNCHANGED <<throttleVars, inSet, lastHeight, overtaken, mqttVars,
                 deskVars>>

-----------------------------------------------------------------------------
(* Flush and Reset, on the manager's goroutine.                            *)

Flush_WithoutPending ==
  /\ serving /\ inFlush = Idle
  /\ last = None \/ since >= MinInterval
  /\ inFlush' = [stage |-> "recording", value |-> pending]
  /\ Decide(pending)
  /\ UNCHANGED <<inSet, outVars, mqttVars, deskVars>>

(* The call of publish is forgotten.                                       *)
Flush_Unpublished ==
  /\ serving /\ inFlush = Idle
  /\ pending # None
  /\ last = None \/ since >= MinInterval
  /\ Decide(pending)
  /\ UNCHANGED <<flightVars, outVars, mqttVars, deskVars>>

Flush ==
  /\ serving /\ inFlush = Idle
  /\ pending # None
  /\ last = None \/ since >= MinInterval
  /\ inFlush' = [stage |-> "recording", value |-> pending]
  /\ Decide(pending)
  /\ UNCHANGED <<inSet, outVars, mqttVars, deskVars>>

(* The serve loop ends: no more flushes until the next one.                *)
Drop ==
  /\ serving /\ inFlush = Idle
  /\ drops < MaxDrops
  /\ drops' = drops + 1
  /\ serving' = FALSE
  /\ UNCHANGED <<throttleVars, flightVars, outVars, mqttVars, latest, atRest,
                 readings>>

(* The next connection, whose callback is already armed.                   *)
Reset ==
  /\ ~serving
  /\ last' = None /\ pending' = None
  /\ serving' = TRUE
  /\ UNCHANGED <<since, flightVars, outVars, mqttVars, latest, atRest,
                 readings, drops>>

Tick ==
  /\ since < MinInterval
  /\ since' = since + 1
  /\ UNCHANGED <<last, pending, flightVars, outVars, mqttVars, deskVars>>

-----------------------------------------------------------------------------
(* The MQTT connection, and the height's part of republishState.           *)

ConnectSucceeds ==
  /\ ~up /\ connects < MaxConnects
  /\ up' = TRUE /\ connects' = connects + 1
  /\ calls' = calls \cup {[connect |-> connects', value |-> None]}
  /\ UNCHANGED <<throttleVars, flightVars, outVars, deskVars>>

(* The network fails, or the broker restarts and forgets what it retained. *)
ConnectionDrops ==
  /\ up
  /\ up' = FALSE
  /\ shown' \in {shown, None}
  /\ UNCHANGED <<throttleVars, flightVars, lastHeight, overtaken, raced, calls,
                 connects, deskVars>>

(* It reads lastHeight under stateMu; without one it has nothing to say,   *)
ReadState(call) ==
  /\ call.value = None
  /\ calls' = (calls \ {call}) \cup
       IF lastHeight = None THEN {} ELSE {[call EXCEPT !.value = lastHeight]}
  /\ UNCHANGED <<throttleVars, flightVars, outVars, up, connects, deskVars>>

(* and publishes what it has read after the unlock.                        *)
RepublishState(call) ==
  /\ call.value # None
  /\ Publish(call.value, overtaken \/ call.value # lastHeight)
  /\ calls' = calls \ {call}
  /\ UNCHANGED <<throttleVars, flightVars, lastHeight, overtaken, up, connects,
                 deskVars>>

OnConnect == \E call \in calls : ReadState(call) \/ RepublishState(call)

Broker == ConnectSucceeds \/ ConnectionDrops \/ OnConnect

Publishing == SetRecords \/ SetPublishes \/ FlushRecords \/ FlushPublishes

Next ==
  \/ \E v \in Heights, force \in BOOLEAN : Set(v, force)
  \/ Publishing \/ Flush \/ Drop \/ Reset \/ Tick \/ Broker

(* Time passes, the ticker fires in the serve loop, and a publish that has *)
(* begun is completed.                                                     *)
Fairness ==
  /\ WF_vars(Tick) /\ WF_vars(Flush)
  /\ WF_vars(SetRecords \/ SetPublishes)
  /\ WF_vars(FlushRecords \/ FlushPublishes)

Spec == Init /\ [][Next]_vars
FairSpec == Spec /\ Fairness

-----------------------------------------------------------------------------

(* Coalescing never loses the newest reading: since the last Reset, what   *)
(* waits in the pending slot, or else what was last decided on, is the     *)
(* reading the desk sent last - and nothing waits once it has come to      *)
(* rest (throttle.go:8-18, 38-56).                                         *)
LatestIsKept ==
  /\ last # None => latest = IF pending # None THEN pending ELSE last
  /\ atRest => pending = None

(* "Unchanged values are dropped entirely": the slot never holds the value *)
(* that was published last, so Flush never repeats it (throttle.go:15-16). *)
NoRepeatPending == pending # None => last # None /\ pending # last

(* A stream that stops in the middle of an interval still gets its last    *)
(* value out: a reading that waits while the desk is served is decided on  *)
(* and shown by the broker, unless the desk sends another, the broker is   *)
(* away or the connection ends (throttle.go:58-77, desk.go:293-294).  A    *)
(* reading that waits before the desk is served is not promised that:      *)
(* Reset discards it, also when it came over the new connection, between   *)
(* desk.go:383 and 269.                                                    *)
PendingGetsOut ==
  \A v \in Heights :
    serving /\ pending = v ~>
      (last = v /\ shown = v) \/ latest # v \/ ~up \/ ~serving

Settled ==
  up /\ calls = {} /\ inSet = Idle /\ inFlush = Idle /\ last # None

(* Whatever was dropped while the broker was away, or forgotten by it, is  *)
(* made up for: once the OnConnect calls are done, the topic shows the     *)
(* height the throttle decided on last, unless goroutines overtook one     *)
(* another between a decision or a reading and what they did with it       *)
(* (throttle.go:51, 76; desk.go:402-407, 485-497; mqttc.go:297-301).       *)
ShowsTheHeight == Settled /\ ~raced => shown = last

(* "Still settles on its last value", "the final resting position is       *)
(* always published": with no publish under way and nothing pending, the   *)
(* height topic shows the last reading (throttle.go:16-18, 59-60).         *)
SettlesOnLatest == Settled /\ pending = None => shown = latest
=============================================================================
