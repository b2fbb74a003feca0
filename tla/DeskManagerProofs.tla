-------------------------- MODULE DeskManagerProofs --------------------------
(***************************************************************************)
(* Theorems about DeskManager: for every set of peripherals, capacity,     *)
(* backoff interval and budget of faults.                                  *)
(***************************************************************************)
EXTENDS DeskManager, TLAPS

-----------------------------------------------------------------------------
(* Types.                                                                  *)

(* From the moment run stops looking for its peripheral until the attempt  *)
(* has ended, it has one.  Without this the type of linked would not be    *)
(* inductive: Connect adds peripheralID to it.                             *)
PeripheralHeld ==
  pc \notin {"loop", "resolving", "backoff", "stopped"} =>
    peripheralID \in Peripherals

TypeInv == TypeOK /\ PeripheralHeld

(* One step per action: what it assigns is of the right type.              *)
LEMMA TypeInvariance == Spec => []TypeInv
<1>1. Init => TypeInv
  <2> SUFFICES ASSUME Init PROVE TypeInv
    OBVIOUS
  <2>1. /\ wantResolve \in BOOLEAN /\ disconnected \in BOOLEAN
        /\ online \in BOOLEAN /\ left \in BOOLEAN
        /\ subsSet \in BOOLEAN /\ ctxDone \in BOOLEAN
    BY DEF Init
  <2>2. commands \in Seq(Command) /\ Len(commands) <= QueueCap
    BY NumbersAssumption DEF Init
  <2> QED BY <2>1, <2>2, PeripheralsAssumption, NumbersAssumption
          DEF Init, TypeInv, TypeOK, PeripheralHeld
<1>2. TypeInv /\ [Next]_vars => TypeInv'
  <2> SUFFICES ASSUME TypeInv, [Next]_vars PROVE TypeInv'
    OBVIOUS
  <2> USE PeripheralsAssumption, NumbersAssumption
          DEF TypeInv, TypeOK, PeripheralHeld, runVars, bleVars, dpgVars,
              cmdVars, findVars, upVars, endVars, SmallerOf
  <2>1. CASE LoopHead
    <3>1. wantResolve' \in BOOLEAN BY <2>1 DEF LoopHead
    <3> QED BY <2>1, <3>1 DEF LoopHead
  <2>2. CASE TakeResolved BY <2>2 DEF TakeResolved
  <2>3. CASE StopWaiting BY <2>3 DEF StopWaiting
  <2>4. CASE Drain
    <3>1. disconnected' \in BOOLEAN BY <2>4 DEF Drain
    <3> QED BY <2>4, <3>1 DEF Drain
  <2>5. CASE Connect
    <3>1. linked' \in SUBSET Peripherals /\ session' \in Nat
      BY <2>5 DEF Connect, Link, Reachable
    <3> QED BY <2>5, <3>1 DEF Connect
  <2>6. CASE ConnectFails
    <3>1. linked' \in SUBSET Peripherals /\ session' \in Nat /\ faults' \in Nat
      BY <2>6 DEF ConnectFails, Link, Reachable, Fault
    <3> QED BY <2>6, <3>1 DEF ConnectFails
  <2>7. CASE Discover BY <2>7 DEF Discover
  <2>8. CASE DiscoverFails BY <2>8 DEF DiscoverFails, CallFails, Fault
  <2>9. CASE Subscribe
    <3>1. CASE FirstSubscribe
      <4>1. subsSet' = TRUE BY <3>1 DEF FirstSubscribe
      <4>2. /\ deskDevice' \in Peripherals /\ callbacks' \in Nat
            /\ armed' \in Nat /\ deaf' \in Nat /\ faults' \in Nat
        BY <2>9, <3>1 DEF Subscribe, FirstSubscribe, CallFails, Fault
      <4> QED BY <2>9, <4>1, <4>2 DEF Subscribe
    <3>2. CASE Rearm
      <4>1. UNCHANGED <<subsSet, deskDevice, callbacks, faults>>
        BY <3>2 DEF Rearm
      <4>2. armed' \in Nat /\ deaf' \in Nat
        BY <3>2 DEF Rearm, Enable
      <4> QED BY <2>9, <4>1, <4>2 DEF Subscribe
    <3> QED BY <2>9, <3>1, <3>2 DEF Subscribe
  <2>10. CASE SubscribeFails
    BY <2>10 DEF SubscribeFails, Enable, CallFails, Fault
  <2>11. CASE GoOnline BY <2>11 DEF GoOnline
  <2>12. CASE BaseHeightRead BY <2>12 DEF BaseHeightRead
  <2>13. CASE ServeDone BY <2>13 DEF ServeDone
  <2>14. CASE ServeDisconnected
    <3>1. disconnected' \in BOOLEAN BY <2>14 DEF ServeDisconnected
    <3> QED BY <2>14, <3>1 DEF ServeDisconnected
  <2>15. CASE ServeCommand BY <2>15 DEF ServeCommand
  <2>16. CASE Apply BY <2>16 DEF Apply
  <2>17. CASE Teardown BY <2>17 DEF Teardown, Unlink, Fault
  <2>18. CASE Ended
    <3>1. online' \in BOOLEAN /\ left' \in BOOLEAN
      BY <2>18 DEF Ended, SetOffline
    <3>2. /\ backoff' \in Nat /\ consecFailure' \in Nat
          /\ peripheralID' \in Peripherals \cup {NoPeripheral}
          /\ routed' \in SUBSET Peripherals
          /\ pc' \in {"backoff", "stopped"}
      BY <2>18 DEF Ended, AfterDrop, AfterFailure, ForgetPeripheral
    <3> QED BY <2>18, <3>1, <3>2 DEF Ended, SetOffline
  <2>19. CASE BackoffOver BY <2>19 DEF BackoffOver, SleepEnds
  <2>20. ASSUME NEW p \in Peripherals, OnDiscovery(p) PROVE TypeInv'
    <3>1. wantResolve' \in BOOLEAN BY <2>20 DEF OnDiscovery
    <3> QED BY <2>20, <3>1 DEF OnDiscovery
  <2>21. ASSUME NEW p \in Peripherals, OnDisconnection(p) PROVE TypeInv'
    <3>1. events' \in [Peripherals -> Nat]
      BY <2>21 DEF OnDisconnection
    <3>2. disconnected' = TRUE \/ disconnected' = disconnected
      BY <2>21, Zenon DEF OnDisconnection
    <3>3. disconnected' \in BOOLEAN
      BY <3>2
    <3> HIDE DEF TypeOK
    <3>4. TypeOK'
      <4>1. UNCHANGED <<pc, err, consecFailure, backoff, waited, lastHeld,
                        online, age, left, peripheralID, wantResolve,
                        resolved, routed, commands, submitting, submissions,
                        current, subsSet,
                        deskDevice, callbacks, gatt, armed, deaf, linked,
                        session, faults, lost, late, endVars>>
        BY <2>21 DEF OnDisconnection
      <4> QED BY <3>1, <3>3, <4>1 DEF TypeOK
    <3> QED BY <2>21, <3>4 DEF OnDisconnection
  <2>22. ASSUME NEW p \in Peripherals, LinkDrops(p) PROVE TypeInv'
    BY <2>22 DEF LinkDrops, Unlink, Fault
  <2>23. ASSUME NEW p \in Peripherals, EventLost(p) PROVE TypeInv'
    BY <2>23 DEF EventLost
  <2>24. ASSUME NEW kind \in {"height", "base_height"}, SubmitCheck(kind)
         PROVE  TypeInv'
    BY <2>24 DEF SubmitCheck, Command
  <2>25. ASSUME NEW c \in submitting, SubmitSend(c) PROVE TypeInv'
    BY <2>25 DEF SubmitSend
  <2>26. CASE Settle BY <2>26 DEF Settle
  <2>27. CASE PumpReturns \/ HelperDies \/ Cancel
    <3>1. /\ ctxDone' \in BOOLEAN /\ helperGone' \in BOOLEAN
          /\ pumpDone' \in BOOLEAN
      BY <2>27, Zenon DEF PumpReturns, HelperDies, Cancel
    <3>2. UNCHANGED <<pc, runVars, findVars, upVars, disconnected, cmdVars,
                      dpgVars, session, events, faults, lost, late>>
      BY <2>27, Zenon DEF PumpReturns, HelperDies, Cancel, bleVars
    <3>3. linked' = {} \/ linked' = linked
      BY <2>27, Zenon DEF PumpReturns, HelperDies, Cancel, bleVars
    <3> QED BY <3>1, <3>2, <3>3
  <2>28. CASE UNCHANGED vars BY <2>28 DEF vars
  <2> QED
    BY <2>1, <2>2, <2>3, <2>4, <2>5, <2>6, <2>7, <2>8, <2>9, <2>10, <2>11,
       <2>12, <2>13, <2>14, <2>15, <2>16, <2>17, <2>18, <2>19, <2>20, <2>21,
       <2>22, <2>23, <2>24, <2>25, <2>26, <2>27, <2>28 DEF Next, Run
<1> QED BY <1>1, <1>2, PTL DEF Spec

(* The shape of every variable is preserved: in particular m.commands      *)
(* never holds more than QueueCap commands, whichever callbacks have       *)
(* passed isOnline and not yet sent.                                       *)
THEOREM TypeCorrect == Spec => []TypeOK
<1>1. TypeInv => TypeOK BY DEF TypeInv
<1> QED BY <1>1, TypeInvariance, PTL

-----------------------------------------------------------------------------
(* The loss of a link, the set-up of a session, the backoff.               *)

(* A resolution is only under way while the manager waits for it, and the  *)
(* ID that comes back is routed; an ID the manager holds stays routed      *)
(* until forgetPeripheral drops both.                                      *)
Routing ==
  /\ wantResolve \/ resolved # {} => pc \in {"resolving", "stopped"}
  /\ wantResolve => resolved = {}
  /\ resolved \subseteq routed
  /\ peripheralID # NoPeripheral => peripheralID \in routed

(* What DropIsSignalled says, from the moment Connect has returned.        *)
LossCovered ==
  lost = 0 /\ ~helperGone /\ pc \in Connected /\ peripheralID \notin linked =>
    LossPending

(* How far the set-up has got: subsSet and the callback go together, and   *)
(* each step leaves behind the handles or the notifications of this link,  *)
(* or one of the two reasons why no notification is heard.                 *)
SetUpSoFar ==
  /\ callbacks = IF subsSet THEN 1 ELSE 0
  /\ pc = "discovering" => gatt = 0
  /\ pc \in Connected \ {"discovering"} =>
       (peripheralID \in linked => gatt = session)
  /\ pc \in Connected \ {"discovering", "subscribing"} =>
       /\ subsSet
       /\ peripheralID \in linked =>
            armed = session \/ deaf = session \/ deskDevice # peripheralID

(* The backoff the loop carries is the one due after a short connection,   *)
(* and a connection has a time to count if and only if it was set up.      *)
BackoffDue ==
  backoff = IF waited = 0 THEN MinBackoff
                          ELSE SmallerOf(2 * waited, MaxBackoff)

BackoffCarried ==
  /\ pc \notin {"backoff", "stopped"} => BackoffDue
  /\ pc \notin Online \cup {"teardown", "ended"} => age = "none"
  /\ pc \in Online => age # "none"
  /\ err = "failed" => age = "none"
  /\ pc \notin {"teardown", "ended"} => err = "nil"
  /\ backoff > 0

(* Nothing of an earlier connection is about: no link and no unread        *)
(* disconnection when a new attempt begins, no token once it has drained,  *)
(* and neither until its own link is lost.  Without the helper there is no *)
(* link at all.                                                            *)
NoEvents == \A p \in Peripherals : events[p] = 0

Quiet ==
  /\ helperGone => linked = {}
  /\ late = 0 /\ ~left /\ ~helperGone =>
       /\ linked \subseteq {peripheralID}
       /\ pc \notin Connected \cup {"teardown", "ended"} => linked = {}
       /\ pc \in {"loop", "resolving", "draining", "connecting"} => NoEvents
       /\ pc = "connecting" => ~disconnected
       /\ pc \in Connected /\ peripheralID \in linked =>
            ~disconnected /\ NoEvents

IInv == TypeInv /\ Routing /\ LossCovered /\ SetUpSoFar /\ BackoffCarried
          /\ BackoffPaced /\ Quiet

-----------------------------------------------------------------------------
(* Each part is preserved by every step, one case per action.              *)

(* Only resolve asks for an ID, and only forgetPeripheral unroutes one.    *)
LEMMA RoutingStep ==
  ASSUME PeripheralHeld, Routing, [Next]_vars
  PROVE  Routing'
<1> USE PeripheralsAssumption DEF runVars, bleVars, dpgVars, cmdVars,
           findVars, upVars, endVars, Routing, PeripheralHeld
<1>1. CASE LoopHead BY <1>1 DEF LoopHead
<1>2. CASE TakeResolved BY <1>2 DEF TakeResolved
<1>3. CASE StopWaiting BY <1>3 DEF StopWaiting
<1>4. CASE Drain BY <1>4 DEF Drain
<1>5. CASE Connect BY <1>5 DEF Connect, Link, Reachable
<1>6. CASE ConnectFails BY <1>6 DEF ConnectFails, Link, Reachable, Fault
<1>7. CASE Discover BY <1>7 DEF Discover
<1>8. CASE DiscoverFails BY <1>8 DEF DiscoverFails, CallFails, Fault
<1>9. CASE Subscribe
  BY <1>9 DEF Subscribe, FirstSubscribe, Rearm, Enable, CallFails, Fault
<1>10. CASE SubscribeFails
  BY <1>10 DEF SubscribeFails, Enable, CallFails, Fault
<1>11. CASE GoOnline BY <1>11 DEF GoOnline
<1>12. CASE BaseHeightRead BY <1>12 DEF BaseHeightRead
<1>13. CASE ServeDone BY <1>13 DEF ServeDone
<1>14. CASE ServeDisconnected BY <1>14 DEF ServeDisconnected
<1>15. CASE ServeCommand BY <1>15 DEF ServeCommand
<1>16. CASE Apply BY <1>16 DEF Apply
<1>17. CASE Teardown BY <1>17 DEF Teardown, Unlink, Fault
<1>18. CASE Ended
  BY <1>18 DEF Ended, SetOffline, AfterDrop, AfterFailure, ForgetPeripheral
<1>19. CASE BackoffOver BY <1>19 DEF BackoffOver, SleepEnds
<1>20. ASSUME NEW p \in Peripherals, OnDiscovery(p) PROVE Routing'
  BY <1>20 DEF OnDiscovery
<1>21. ASSUME NEW p \in Peripherals, OnDisconnection(p) PROVE Routing'
  BY <1>21 DEF OnDisconnection
<1>22. ASSUME NEW p \in Peripherals, LinkDrops(p) PROVE Routing'
  BY <1>22 DEF LinkDrops, Unlink, Fault
<1>23. ASSUME NEW p \in Peripherals, EventLost(p) PROVE Routing'
  BY <1>23 DEF EventLost
<1>24. ASSUME NEW kind \in {"height", "base_height"}, SubmitCheck(kind)
       PROVE  Routing'
  BY <1>24 DEF SubmitCheck
<1>25. ASSUME NEW c \in submitting, SubmitSend(c) PROVE Routing'
  BY <1>25 DEF SubmitSend
<1>26. CASE Settle BY <1>26 DEF Settle
<1>27. CASE PumpReturns \/ HelperDies \/ Cancel
  BY <1>27 DEF PumpReturns, HelperDies, Cancel
<1>28. CASE UNCHANGED vars BY <1>28 DEF vars
<1> QED
  BY <1>1, <1>2, <1>3, <1>4, <1>5, <1>6, <1>7, <1>8, <1>9, <1>10, <1>11,
     <1>12, <1>13, <1>14, <1>15, <1>16, <1>17, <1>18, <1>19, <1>20, <1>21,
     <1>22, <1>23, <1>24, <1>25, <1>26, <1>27, <1>28 DEF Next, Run

(* A drop adds an event for the peripheral, the pump turns the event into  *)
(* the token, and only the end of the serve loop takes the token.          *)
LEMMA LossCoveredStep ==
  ASSUME TypeInv, Routing, LossCovered, [Next]_vars
  PROVE  LossCovered'
<1>0. /\ PeripheralHeld /\ events \in [Peripherals -> Nat]
      /\ lost \in Nat
  BY DEF TypeInv, TypeOK
<1> USE <1>0 DEF runVars, bleVars, dpgVars, cmdVars,
           findVars, upVars, endVars, Routing, PeripheralHeld,
           LossCovered, LossPending, Online, Connected
<1>1. CASE LoopHead BY <1>1 DEF LoopHead
<1>2. CASE TakeResolved BY <1>2 DEF TakeResolved
<1>3. CASE StopWaiting BY <1>3 DEF StopWaiting
<1>4. CASE Drain BY <1>4 DEF Drain
<1>5. CASE Connect BY <1>5 DEF Connect, Link, Reachable
<1>6. CASE ConnectFails BY <1>6 DEF ConnectFails, Link, Reachable, Fault
<1>7. CASE Discover BY <1>7 DEF Discover
<1>8. CASE DiscoverFails BY <1>8 DEF DiscoverFails, CallFails, Fault
<1>9. CASE Subscribe
  BY <1>9 DEF Subscribe, FirstSubscribe, Rearm, Enable, CallFails, Fault
<1>10. CASE SubscribeFails
  BY <1>10 DEF SubscribeFails, Enable, CallFails, Fault
<1>11. CASE GoOnline BY <1>11 DEF GoOnline
<1>12. CASE BaseHeightRead BY <1>12 DEF BaseHeightRead
<1>13. CASE ServeDone BY <1>13 DEF ServeDone
<1>14. CASE ServeDisconnected BY <1>14 DEF ServeDisconnected
<1>15. CASE ServeCommand BY <1>15 DEF ServeCommand
<1>16. CASE Apply BY <1>16 DEF Apply
<1>17. CASE Teardown BY <1>17 DEF Teardown, Unlink, Fault
<1>18. CASE Ended
  BY <1>18 DEF Ended, SetOffline, AfterDrop, AfterFailure, ForgetPeripheral
<1>19. CASE BackoffOver BY <1>19 DEF BackoffOver, SleepEnds
<1>20. ASSUME NEW p \in Peripherals, OnDiscovery(p) PROVE LossCovered'
  BY <1>20 DEF OnDiscovery
<1>21. ASSUME NEW p \in Peripherals, OnDisconnection(p) PROVE LossCovered'
  BY <1>21 DEF OnDisconnection
<1>22. ASSUME NEW p \in Peripherals, LinkDrops(p) PROVE LossCovered'
  <2>1. CASE p = peripheralID /\ pc \in Connected
    <3>1. events'[peripheralID] > 0
      BY <1>22, <2>1 DEF LinkDrops, Unlink
    <3>2. peripheralID \in routed
      BY <2>1, PeripheralsAssumption
    <3> QED BY <1>22, <3>1, <3>2 DEF LinkDrops
  <2>2. CASE p # peripheralID /\ pc \in Connected
    <3>1. events'[peripheralID] = events[peripheralID]
      BY <1>22, <2>2 DEF LinkDrops, Unlink
    <3>2. peripheralID \in linked' <=> peripheralID \in linked
      BY <1>22, <2>2 DEF LinkDrops, Unlink
    <3> QED BY <1>22, <3>1, <3>2 DEF LinkDrops
  <2>3. CASE pc \notin Connected
    BY <1>22, <2>3 DEF LinkDrops
  <2> QED BY <2>1, <2>2, <2>3
<1>23. ASSUME NEW p \in Peripherals, EventLost(p) PROVE LossCovered'
  BY <1>23 DEF EventLost
<1>24. ASSUME NEW kind \in {"height", "base_height"}, SubmitCheck(kind)
       PROVE  LossCovered'
  BY <1>24 DEF SubmitCheck
<1>25. ASSUME NEW c \in submitting, SubmitSend(c) PROVE LossCovered'
  BY <1>25 DEF SubmitSend
<1>26. CASE Settle BY <1>26 DEF Settle
<1>27. CASE PumpReturns \/ HelperDies \/ Cancel
  BY <1>27 DEF PumpReturns, HelperDies, Cancel
<1>28. CASE UNCHANGED vars BY <1>28 DEF vars
<1> QED
  BY <1>1, <1>2, <1>3, <1>4, <1>5, <1>6, <1>7, <1>8, <1>9, <1>10, <1>11,
     <1>12, <1>13, <1>14, <1>15, <1>16, <1>17, <1>18, <1>19, <1>20, <1>21,
     <1>22, <1>23, <1>24, <1>25, <1>26, <1>27, <1>28 DEF Next, Run

(* Only Connect makes a link, and it does so before the handles are found. *)
LEMMA SetUpStep ==
  ASSUME TypeInv, SetUpSoFar, [Next]_vars
  PROVE  SetUpSoFar'
<1>0. session \in Nat
  BY DEF TypeInv, TypeOK
<1> USE <1>0 DEF runVars, bleVars, dpgVars, cmdVars,
           findVars, upVars, endVars, SetUpSoFar,
           Online, Connected
<1>1. CASE LoopHead BY <1>1 DEF LoopHead
<1>2. CASE TakeResolved BY <1>2 DEF TakeResolved
<1>3. CASE StopWaiting BY <1>3 DEF StopWaiting
<1>4. CASE Drain BY <1>4 DEF Drain
<1>5. CASE Connect BY <1>5 DEF Connect, Link, Reachable
<1>6. CASE ConnectFails BY <1>6 DEF ConnectFails, Link, Reachable, Fault
<1>7. CASE Discover BY <1>7 DEF Discover
<1>8. CASE DiscoverFails BY <1>8 DEF DiscoverFails, CallFails, Fault
<1>9. CASE Subscribe
  BY <1>9 DEF Subscribe, FirstSubscribe, Rearm, Enable, CallFails, Fault
<1>10. CASE SubscribeFails
  BY <1>10 DEF SubscribeFails, Enable, CallFails, Fault
<1>11. CASE GoOnline BY <1>11 DEF GoOnline
<1>12. CASE BaseHeightRead BY <1>12 DEF BaseHeightRead
<1>13. CASE ServeDone BY <1>13 DEF ServeDone
<1>14. CASE ServeDisconnected BY <1>14 DEF ServeDisconnected
<1>15. CASE ServeCommand BY <1>15 DEF ServeCommand
<1>16. CASE Apply BY <1>16 DEF Apply
<1>17. CASE Teardown BY <1>17 DEF Teardown, Unlink, Fault
<1>18. CASE Ended
  BY <1>18 DEF Ended, SetOffline, AfterDrop, AfterFailure, ForgetPeripheral
<1>19. CASE BackoffOver BY <1>19 DEF BackoffOver, SleepEnds
<1>20. ASSUME NEW p \in Peripherals, OnDiscovery(p) PROVE SetUpSoFar'
  BY <1>20 DEF OnDiscovery
<1>21. ASSUME NEW p \in Peripherals, OnDisconnection(p) PROVE SetUpSoFar'
  BY <1>21 DEF OnDisconnection
<1>22. ASSUME NEW p \in Peripherals, LinkDrops(p) PROVE SetUpSoFar'
  BY <1>22 DEF LinkDrops, Unlink, Fault
<1>23. ASSUME NEW p \in Peripherals, EventLost(p) PROVE SetUpSoFar'
  BY <1>23 DEF EventLost
<1>24. ASSUME NEW kind \in {"height", "base_height"}, SubmitCheck(kind)
       PROVE  SetUpSoFar'
  BY <1>24 DEF SubmitCheck
<1>25. ASSUME NEW c \in submitting, SubmitSend(c) PROVE SetUpSoFar'
  BY <1>25 DEF SubmitSend
<1>26. CASE Settle BY <1>26 DEF Settle
<1>27. CASE PumpReturns \/ HelperDies \/ Cancel
  BY <1>27 DEF PumpReturns, HelperDies, Cancel
<1>28. CASE UNCHANGED vars BY <1>28 DEF vars
<1> QED
  BY <1>1, <1>2, <1>3, <1>4, <1>5, <1>6, <1>7, <1>8, <1>9, <1>10, <1>11,
     <1>12, <1>13, <1>14, <1>15, <1>16, <1>17, <1>18, <1>19, <1>20, <1>21,
     <1>22, <1>23, <1>24, <1>25, <1>26, <1>27, <1>28 DEF Next, Run

(* The backoff changes when a sleep ends and when a connection has lasted. *)
LEMMA BackoffStep ==
  ASSUME TypeInv, BackoffCarried, BackoffPaced, [Next]_vars
  PROVE  (BackoffCarried /\ BackoffPaced)'
<1>0. waited \in Nat /\ backoff \in Nat
  BY DEF TypeInv, TypeOK
<1> USE <1>0, NumbersAssumption DEF runVars, bleVars, dpgVars, cmdVars,
           findVars, upVars, endVars, BackoffCarried,
           BackoffPaced, BackoffDue, SmallerOf, Online
<1>1. CASE LoopHead BY <1>1 DEF LoopHead
<1>2. CASE TakeResolved BY <1>2 DEF TakeResolved
<1>3. CASE StopWaiting BY <1>3 DEF StopWaiting
<1>4. CASE Drain BY <1>4 DEF Drain
<1>5. CASE Connect BY <1>5 DEF Connect, Link, Reachable
<1>6. CASE ConnectFails BY <1>6 DEF ConnectFails, Link, Reachable, Fault
<1>7. CASE Discover BY <1>7 DEF Discover
<1>8. CASE DiscoverFails BY <1>8 DEF DiscoverFails, CallFails, Fault
<1>9. CASE Subscribe
  BY <1>9 DEF Subscribe, FirstSubscribe, Rearm, Enable, CallFails, Fault
<1>10. CASE SubscribeFails
  BY <1>10 DEF SubscribeFails, Enable, CallFails, Fault
<1>11. CASE GoOnline BY <1>11 DEF GoOnline
<1>12. CASE BaseHeightRead BY <1>12 DEF BaseHeightRead
<1>13. CASE ServeDone BY <1>13 DEF ServeDone
<1>14. CASE ServeDisconnected BY <1>14 DEF ServeDisconnected
<1>15. CASE ServeCommand BY <1>15 DEF ServeCommand
<1>16. CASE Apply BY <1>16 DEF Apply
<1>17. CASE Teardown BY <1>17 DEF Teardown, Unlink, Fault
<1>18. CASE Ended
  BY <1>18 DEF Ended, SetOffline, AfterDrop, AfterFailure, ForgetPeripheral
<1>19. CASE BackoffOver BY <1>19 DEF BackoffOver, SleepEnds
<1>20. ASSUME NEW p \in Peripherals, OnDiscovery(p)
       PROVE  (BackoffCarried /\ BackoffPaced)'
  BY <1>20 DEF OnDiscovery
<1>21. ASSUME NEW p \in Peripherals, OnDisconnection(p)
       PROVE  (BackoffCarried /\ BackoffPaced)'
  BY <1>21 DEF OnDisconnection
<1>22. ASSUME NEW p \in Peripherals, LinkDrops(p)
       PROVE  (BackoffCarried /\ BackoffPaced)'
  BY <1>22 DEF LinkDrops, Unlink, Fault
<1>23. ASSUME NEW p \in Peripherals, EventLost(p)
       PROVE  (BackoffCarried /\ BackoffPaced)'
  BY <1>23 DEF EventLost
<1>24. ASSUME NEW kind \in {"height", "base_height"}, SubmitCheck(kind)
       PROVE  (BackoffCarried /\ BackoffPaced)'
  BY <1>24 DEF SubmitCheck
<1>25. ASSUME NEW c \in submitting, SubmitSend(c)
       PROVE  (BackoffCarried /\ BackoffPaced)'
  BY <1>25 DEF SubmitSend
<1>26. CASE Settle BY <1>26 DEF Settle
<1>27. CASE PumpReturns \/ HelperDies \/ Cancel
  BY <1>27 DEF PumpReturns, HelperDies, Cancel
<1>28. CASE UNCHANGED vars BY <1>28 DEF vars
<1> QED
  BY <1>1, <1>2, <1>3, <1>4, <1>5, <1>6, <1>7, <1>8, <1>9, <1>10, <1>11,
     <1>12, <1>13, <1>14, <1>15, <1>16, <1>17, <1>18, <1>19, <1>20, <1>21,
     <1>22, <1>23, <1>24, <1>25, <1>26, <1>27, <1>28 DEF Next, Run

(* A link is only left up by an attempt that failed to connect or to       *)
(* disconnect; any other attempt starts and ends without one.              *)
LEMMA QuietStep ==
  ASSUME TypeInv, Quiet, [Next]_vars
  PROVE  Quiet'
<1>0. /\ PeripheralHeld /\ linked \in SUBSET Peripherals
      /\ events \in [Peripherals -> Nat] /\ late \in Nat
  BY DEF TypeInv, TypeOK
<1> USE <1>0, PeripheralsAssumption DEF runVars, bleVars, dpgVars, cmdVars,
           findVars, upVars, endVars, Quiet, NoEvents,
           PeripheralHeld, Online, Connected
<1>1. CASE LoopHead BY <1>1 DEF LoopHead
<1>2. CASE TakeResolved BY <1>2 DEF TakeResolved
<1>3. CASE StopWaiting BY <1>3 DEF StopWaiting
<1>4. CASE Drain BY <1>4 DEF Drain
<1>5. CASE Connect BY <1>5 DEF Connect, Link, Reachable
<1>6. CASE ConnectFails BY <1>6 DEF ConnectFails, Link, Reachable, Fault
<1>7. CASE Discover BY <1>7 DEF Discover
<1>8. CASE DiscoverFails BY <1>8 DEF DiscoverFails, CallFails, Fault
<1>9. CASE Subscribe
  BY <1>9 DEF Subscribe, FirstSubscribe, Rearm, Enable, CallFails, Fault
<1>10. CASE SubscribeFails
  BY <1>10 DEF SubscribeFails, Enable, CallFails, Fault
<1>11. CASE GoOnline BY <1>11 DEF GoOnline
<1>12. CASE BaseHeightRead BY <1>12 DEF BaseHeightRead
<1>13. CASE ServeDone BY <1>13 DEF ServeDone
<1>14. CASE ServeDisconnected BY <1>14 DEF ServeDisconnected
<1>15. CASE ServeCommand BY <1>15 DEF ServeCommand
<1>16. CASE Apply BY <1>16 DEF Apply
<1>17. CASE Teardown BY <1>17 DEF Teardown, Unlink, Fault
<1>18. CASE Ended
  BY <1>18 DEF Ended, SetOffline, AfterDrop, AfterFailure, ForgetPeripheral
<1>19. CASE BackoffOver BY <1>19 DEF BackoffOver, SleepEnds
<1>20. ASSUME NEW p \in Peripherals, OnDiscovery(p) PROVE Quiet'
  BY <1>20 DEF OnDiscovery
<1>21. ASSUME NEW p \in Peripherals, OnDisconnection(p) PROVE Quiet'
  BY <1>21 DEF OnDisconnection
<1>22. ASSUME NEW p \in Peripherals, LinkDrops(p) PROVE Quiet'
  BY <1>22 DEF LinkDrops, Unlink, Fault
<1>23. ASSUME NEW p \in Peripherals, EventLost(p) PROVE Quiet'
  BY <1>23 DEF EventLost
<1>24. ASSUME NEW kind \in {"height", "base_height"}, SubmitCheck(kind)
       PROVE  Quiet'
  BY <1>24 DEF SubmitCheck
<1>25. ASSUME NEW c \in submitting, SubmitSend(c) PROVE Quiet'
  BY <1>25 DEF SubmitSend
<1>26. CASE Settle BY <1>26 DEF Settle
<1>27. CASE PumpReturns \/ HelperDies \/ Cancel
  BY <1>27 DEF PumpReturns, HelperDies, Cancel
<1>28. CASE UNCHANGED vars BY <1>28 DEF vars
<1> QED
  BY <1>1, <1>2, <1>3, <1>4, <1>5, <1>6, <1>7, <1>8, <1>9, <1>10, <1>11,
     <1>12, <1>13, <1>14, <1>15, <1>16, <1>17, <1>18, <1>19, <1>20, <1>21,
     <1>22, <1>23, <1>24, <1>25, <1>26, <1>27, <1>28 DEF Next, Run

(* The parts together are inductive.                                       *)
LEMMA Invariance == Spec => []IInv
<1>1. Init => Routing /\ LossCovered /\ SetUpSoFar /\ BackoffCarried
                /\ BackoffPaced /\ Quiet
  BY NumbersAssumption
     DEF Init, Routing, LossCovered, LossPending, SetUpSoFar, BackoffCarried,
         BackoffDue, BackoffPaced, Quiet, NoEvents, Connected, Online
<1>2. TypeInv /\ TypeInv' /\ IInv /\ [Next]_vars => IInv'
  BY RoutingStep, LossCoveredStep, SetUpStep, BackoffStep, QuietStep
     DEF IInv, TypeInv
<1> QED BY <1>1, <1>2, TypeInvariance, PTL DEF Spec, IInv

(* A link that goes down while the desk is online always has a wake-up on  *)
(* its way to the serve loop, provided the BLE client loses no event.      *)
THEOREM DropsAreSignalled == Spec => []DropIsSignalled
<1>1. IInv => DropIsSignalled
  BY DEF IInv, LossCovered, DropIsSignalled, Connected
<1> QED BY <1>1, Invariance, PTL

(* An online desk always works with the handles of its present link, its   *)
(* callback is registered once and hears that link, unless the very first  *)
(* subscription failed in this session or the callback is another          *)
(* peripheral's.                                                           *)
THEOREM SessionsAreSetUp == Spec => []SessionSetUp
<1>1. IInv => SessionSetUp
  BY DEF IInv, SetUpSoFar, SessionSetUp, Connected, Online
<1> QED BY <1>1, Invariance, PTL

(* Every sleep is the minimum after a stable connection and otherwise      *)
(* twice the one before, up to the maximum.                                *)
THEOREM BackoffIsPaced == Spec => []BackoffPaced
<1>1. IInv => BackoffPaced BY DEF IInv
<1> QED BY <1>1, Invariance, PTL

(* As long as no event is late and no link was left behind, the serve loop *)
(* never ends a connection whose link is up.                               *)
THEOREM ConnectionsEndForTheirOwnLoss == Spec => EndsForItsOwnLoss
<1>1. IInv => (late = 0 /\ ~left /\ ServeDisconnected =>
                 peripheralID \notin linked)
  BY DEF IInv, Quiet, ServeDisconnected, Connected, Online
<1>2. IInv /\ [Next]_vars =>
        [late = 0 /\ ~left /\ ServeDisconnected =>
           peripheralID \notin linked]_vars
  BY <1>1
<1> QED BY <1>2, Invariance, PTL DEF Spec, EndsForItsOwnLoss

-----------------------------------------------------------------------------
(* The manager as the owner of a supervised connection.                    *)

(* A step that touches none of these is no step of the connection's.       *)
LEMMA LinkUntouched ==
  ASSUME UNCHANGED <<pc, age, peripheralID, linked, disconnected, routed,
                     events, waited, lastHeld, ctxDone, Excused>>
  PROVE  UNCHANGED Supervised!vars
<1>1. UNCHANGED <<OwnerOf, LossPending, WaitOf>>
  BY DEF OwnerOf, LossPending, WaitOf
<1>2. ToldOf' = ToldOf BY <1>1 DEF ToldOf
<1> QED BY <1>1, <1>2 DEF Supervised!vars

(* What of the invariant those steps rest on that have no excuse.          *)
LEMMA Unexcused ==
  ASSUME IInv, ~Excused
  PROVE  /\ late = 0 /\ lost = 0 /\ ~left /\ ~helperGone
         /\ linked \subseteq {peripheralID}
         /\ pc \notin Connected \cup {"teardown", "ended"} => linked = {}
         /\ pc \in {"draining", "connecting"} \cup Connected =>
              peripheralID \in Peripherals /\ peripheralID \in routed
         /\ pc \in {"draining", "connecting"} => NoEvents
         /\ pc = "connecting" => ~disconnected
         /\ pc \in Connected =>
              IF peripheralID \in linked THEN ~LossPending /\ NoEvents
                                         ELSE LossPending
<1>1. late = 0 /\ lost = 0 /\ ~left /\ ~helperGone
  BY DEF Excused, IInv, TypeInv, TypeOK
<1>2. pc \in {"draining", "connecting"} \cup Connected =>
        peripheralID \in Peripherals /\ peripheralID \in routed
  BY PeripheralsAssumption DEF IInv, TypeInv, PeripheralHeld, Routing,
                               Connected, Online
<1>3. pc \in Connected /\ peripheralID \in linked => ~LossPending /\ NoEvents
  BY <1>1, <1>2 DEF IInv, Quiet, NoEvents, LossPending
<1> QED BY <1>1, <1>2, <1>3 DEF IInv, Quiet, LossCovered

(* Every step is one of the owner's or of the connection's, or none.       *)
LEMMA LinkStep ==
  ASSUME IInv, IInv', [Next]_vars
  PROVE  [Supervised!Next]_Supervised!vars
<1> SUFFICES ASSUME ~Excused, ~Excused'
             PROVE  [Supervised!Next]_Supervised!vars
  BY DEF Supervised!Next
<1>0. Excused' = Excused
  BY DEF Excused
<1>a. /\ late = 0 /\ lost = 0 /\ ~left /\ ~helperGone
      /\ linked \subseteq {peripheralID}
      /\ pc \notin Connected \cup {"teardown", "ended"} => linked = {}
      /\ pc \in {"draining", "connecting"} \cup Connected =>
           peripheralID \in Peripherals /\ peripheralID \in routed
      /\ pc \in {"draining", "connecting"} => NoEvents
      /\ pc = "connecting" => ~disconnected
      /\ pc \in Connected =>
           IF peripheralID \in linked THEN ~LossPending /\ NoEvents
                                      ELSE LossPending
  BY Unexcused
<1>b. /\ events \in [Peripherals -> Nat] /\ waited \in Nat
      /\ age \in {"none", "young", "stable"}
      /\ lastHeld \in {"short", "stable"}
      /\ ctxDone \in BOOLEAN /\ BackoffCarried /\ BackoffPaced
  BY DEF IInv, TypeInv, TypeOK
<1>c. ~left' /\ ~helperGone'
  BY DEF Excused
<1> USE <1>a, <1>b DEF Connected, Online, runVars, bleVars, dpgVars, cmdVars,
                       findVars, upVars, endVars
<1>1. CASE LoopHead
  <2>1. /\ OwnerOf' = OwnerOf /\ WaitOf' = WaitOf
        /\ ToldOf = FALSE /\ ToldOf' = FALSE
    BY <1>1 DEF LoopHead, OwnerOf, WaitOf, ToldOf
  <2> QED BY <1>0, <1>1, <2>1 DEF LoopHead, Supervised!vars
<1>2. CASE TakeResolved
  <2>1. /\ OwnerOf' = OwnerOf /\ WaitOf' = WaitOf
        /\ ToldOf = FALSE /\ ToldOf' = FALSE
    BY <1>2 DEF TakeResolved, OwnerOf, WaitOf, ToldOf
  <2>2. (peripheralID \in linked) = FALSE /\ (peripheralID' \in linked') = FALSE
    BY <1>2 DEF TakeResolved
  <2> QED BY <1>0, <1>2, <2>1, <2>2 DEF TakeResolved, Supervised!vars
<1>3. CASE StopWaiting
  <2>1. Supervised!Stop
    BY <1>3 DEF StopWaiting, OwnerOf, Supervised!Stop
  <2> QED BY <1>3, <2>1 DEF StopWaiting, Supervised!Next
<1>4. CASE Drain
  <2>1. OwnerOf = "away" /\ OwnerOf' = "trying" /\ WaitOf' = WaitOf
    BY <1>4 DEF Drain, OwnerOf, WaitOf
  <2>2. ~LossPending'
    BY <1>4 DEF Drain, LossPending, NoEvents
  <2>3. peripheralID \notin linked /\ peripheralID' \notin linked'
    BY <1>4 DEF Drain
  <2>4. Supervised!Try
    BY <2>1, <2>2, <2>3 DEF ToldOf, Supervised!Try, Supervised!Goes
  <2> QED BY <1>4, <2>4 DEF Drain, Supervised!Next
<1>5. CASE Connect
  <2>1. OwnerOf = "trying" /\ OwnerOf' = "trying" /\ WaitOf' = WaitOf
    BY <1>5 DEF Connect, OwnerOf, WaitOf
  <2>2. ~LossPending /\ ~LossPending'
    BY <1>5 DEF Connect, LossPending, NoEvents
  <2>3. peripheralID \notin linked /\ peripheralID' \in linked'
    BY <1>5 DEF Connect, Link
  <2>4. Supervised!Establish
    BY <2>1, <2>2, <2>3 DEF ToldOf, Supervised!Establish
  <2> QED BY <1>5, <2>4 DEF Connect, Supervised!Next
<1>6. CASE ConnectFails \/ DiscoverFails \/ SubscribeFails
  <2>1. OwnerOf = "trying" /\ OwnerOf' = "failing" /\ WaitOf' = WaitOf
    BY <1>6 DEF ConnectFails, DiscoverFails, SubscribeFails, OwnerOf, WaitOf,
                BackoffCarried
  <2>2. \/ (peripheralID' \in linked') = (peripheralID \in linked)
        \/ (peripheralID' \in linked') = TRUE
    BY <1>6 DEF ConnectFails, DiscoverFails, SubscribeFails, Link
  <2>3. ToldOf' = FALSE
    BY <2>1 DEF ToldOf
  <2>4. Supervised!Fail
    BY <2>1, <2>2, <2>3 DEF Supervised!Fail, Supervised!Goes
  <2> QED BY <1>6, <2>4 DEF ConnectFails, DiscoverFails, SubscribeFails,
                            Supervised!Next
<1>7. CASE Discover \/ Subscribe \/ BaseHeightRead \/ ServeCommand \/ Apply
  <2>1. UNCHANGED <<OwnerOf, WaitOf>>
    BY <1>7 DEF Discover, Subscribe, BaseHeightRead, ServeCommand, Apply,
                OwnerOf, WaitOf
  <2>2. UNCHANGED <<LossPending, peripheralID, linked, ctxDone>>
    BY <1>7 DEF Discover, Subscribe, BaseHeightRead, ServeCommand, Apply,
                LossPending
  <2>3. ToldOf' = ToldOf BY <2>1, <2>2 DEF ToldOf
  <2> QED BY <1>0, <2>1, <2>2, <2>3 DEF Supervised!vars
<1>8. CASE GoOnline
  <2>1. OwnerOf = "trying" /\ OwnerOf' = "holding" /\ WaitOf' = WaitOf
    BY <1>8 DEF GoOnline, OwnerOf, WaitOf
  <2>2. UNCHANGED <<LossPending, peripheralID, linked>>
    BY <1>8 DEF GoOnline, LossPending
  <2>3. ToldOf' = ToldOf BY <2>1, <2>2 DEF ToldOf
  <2>4. peripheralID \in linked \/ ToldOf
    BY <1>8, <2>1 DEF GoOnline, ToldOf
  <2>5. Supervised!Hold
    BY <2>1, <2>2, <2>3, <2>4 DEF Supervised!Hold, Supervised!Goes
  <2> QED BY <1>8, <2>5 DEF GoOnline, Supervised!Next
<1>9. CASE ServeDone
  <2>1. OwnerOf = "holding" /\ OwnerOf' = "closing" /\ WaitOf' = WaitOf
    BY <1>9 DEF ServeDone, OwnerOf, WaitOf, BackoffCarried
  <2>2. ToldOf' = FALSE BY <2>1 DEF ToldOf
  <2>3. Supervised!Leave
    BY <1>9, <2>1, <2>2 DEF ServeDone, Supervised!Leave, Supervised!Goes
  <2> QED BY <1>9, <2>3 DEF ServeDone, Supervised!Next
<1>10. CASE ServeDisconnected
  <2>1. OwnerOf = "holding" /\ OwnerOf' = "closing" /\ WaitOf' = WaitOf
    BY <1>10 DEF ServeDisconnected, OwnerOf, WaitOf, BackoffCarried
  <2>2. LossPending /\ peripheralID \notin linked
    BY <1>10 DEF ServeDisconnected, LossPending
  <2>3. ToldOf /\ ToldOf' = FALSE BY <2>1, <2>2 DEF ToldOf
  <2>4. Supervised!Notice
    BY <1>10, <2>1, <2>2, <2>3
       DEF ServeDisconnected, Supervised!Notice, Supervised!Goes
  <2> QED BY <1>10, <2>4 DEF ServeDisconnected, Supervised!Next
<1>11. CASE Teardown
  <2>1. OwnerOf \in {"failing", "closing"} /\ OwnerOf' = OwnerOf
          /\ WaitOf' = WaitOf
    BY <1>11 DEF Teardown, OwnerOf, WaitOf
  <2>2. ToldOf = FALSE /\ ToldOf' = FALSE BY <2>1 DEF ToldOf
  <2>3. CASE UNCHANGED linked
    BY <1>0, <1>11, <2>1, <2>2, <2>3 DEF Teardown, Supervised!vars
  <2>4. CASE peripheralID \in linked /\ Unlink(peripheralID)
    <3>1. /\ (peripheralID' \in linked') = FALSE
          /\ (OwnerOf \in {"trying", "holding"}) = FALSE
      BY <1>11, <2>1, <2>4 DEF Teardown, Unlink
    <3>2. Supervised!Lose
      BY <2>1, <2>2, <2>4, <3>1 DEF Supervised!Lose
    <3> QED BY <1>11, <3>2 DEF Teardown, Supervised!Next
  <2> QED BY <1>11, <2>3, <2>4 DEF Teardown
<1>12. CASE Ended
  <2>1. linked = {} /\ linked' = {}
    BY <1>12, <1>c DEF Ended, SetOffline
  <2>2. CASE ctxDone
    <3>1. Supervised!Stop
      BY <1>12, <2>2 DEF Ended, OwnerOf, Supervised!Stop
    <3> QED BY <1>12, <3>1 DEF Ended, Supervised!Next
  <2>3. CASE ~ctxDone
    <3>1. OwnerOf' = "resting" /\ ToldOf' = FALSE /\ ToldOf = FALSE
      BY <1>12, <2>3 DEF Ended, OwnerOf, ToldOf
    <3>2. \/ OwnerOf = "failing" /\ WaitOf' = WaitOf
          \/ OwnerOf = "closing" /\ WaitOf' \in {0, WaitOf}
      BY <1>12, <2>3 DEF Ended, SetOffline, OwnerOf, WaitOf
    <3>3. /\ (peripheralID \in linked) = FALSE
          /\ (peripheralID' \in linked') = FALSE
      BY <2>1
    <3>4. Supervised!Finish
      BY <3>1, <3>2, <3>3 DEF Supervised!Finish, Supervised!Goes
    <3> QED BY <1>12, <3>4 DEF Ended, Supervised!Next
  <2> QED BY <2>2, <2>3
<1>13. CASE BackoffOver
  <2>1. /\ OwnerOf = "resting" /\ OwnerOf' = "away"
        /\ ToldOf = FALSE /\ ToldOf' = FALSE
    BY <1>13 DEF BackoffOver, OwnerOf, ToldOf
  <2>2. WaitOf' = Supervised!NextWait
    BY <1>13 DEF BackoffOver, WaitOf, BackoffPaced, SmallerOf,
                 Supervised!NextWait, Supervised!Smaller
  <2>3. Supervised!Rest
    BY <1>13, <2>1, <2>2 DEF BackoffOver, Supervised!Rest, Supervised!Goes
  <2> QED BY <1>13, <2>3 DEF BackoffOver, Supervised!Next
<1>14. ASSUME NEW p \in Peripherals, OnDiscovery(p)
       PROVE  UNCHANGED Supervised!vars
  <2>1. /\ OwnerOf' = OwnerOf /\ WaitOf' = WaitOf
        /\ ToldOf = FALSE /\ ToldOf' = FALSE
    BY <1>14 DEF OnDiscovery, OwnerOf, WaitOf, ToldOf, IInv, Routing
  <2> QED BY <1>0, <1>14, <2>1 DEF OnDiscovery, Supervised!vars
<1>15. ASSUME NEW p \in Peripherals, OnDisconnection(p)
       PROVE  UNCHANGED Supervised!vars
  <2>1. OwnerOf' = OwnerOf /\ WaitOf' = WaitOf
    BY <1>15 DEF OnDisconnection, OwnerOf, WaitOf
  <2>2. CASE pc \in Connected
    <3>1. LossPending
      BY <1>15, <2>2 DEF OnDisconnection, NoEvents
    <3>2. LossPending'
      BY <1>15, <2>2, <3>1 DEF OnDisconnection, LossPending
    <3> QED BY <1>0, <1>15, <2>1, <3>1, <3>2
            DEF OnDisconnection, ToldOf, Supervised!vars
  <2>3. CASE pc \notin Connected
    <3>1. pc # "connecting"
      BY <1>15 DEF OnDisconnection, NoEvents
    <3>2. OwnerOf \notin {"trying", "holding"}
      BY <2>3, <3>1 DEF OwnerOf
    <3> QED BY <1>0, <1>15, <2>1, <3>2
            DEF OnDisconnection, ToldOf, Supervised!vars
  <2> QED BY <2>2, <2>3
<1>16. ASSUME NEW p \in Peripherals, LinkDrops(p)
       PROVE  Supervised!Next
  <2>1. OwnerOf' = OwnerOf /\ WaitOf' = WaitOf
    BY <1>16 DEF LinkDrops, OwnerOf, WaitOf
  <2>2. p = peripheralID /\ peripheralID' \notin linked'
    BY <1>16 DEF LinkDrops, Unlink
  <2>3. OwnerOf \in {"trying", "holding"} => LossPending'
    <3>1. SUFFICES ASSUME pc \in Connected PROVE LossPending'
      BY <1>16 DEF LinkDrops, OwnerOf
    <3> QED BY <1>16, <2>2, <3>1 DEF LinkDrops, Unlink, LossPending
  <2>4. Supervised!Lose
    BY <1>16, <2>1, <2>2, <2>3 DEF LinkDrops, ToldOf, Supervised!Lose
  <2> QED BY <1>16, <2>4 DEF LinkDrops, Supervised!Next
<1>17. ASSUME NEW p \in Peripherals, EventLost(p) PROVE FALSE
  BY <1>17 DEF EventLost, Excused
<1>18. CASE HelperDies
  BY <1>c, <1>18 DEF HelperDies
<1>19. CASE Cancel
  <2>1. UNCHANGED <<OwnerOf, WaitOf, LossPending>>
    BY <1>19 DEF Cancel, OwnerOf, WaitOf, LossPending
  <2>2. ToldOf' = ToldOf BY <2>1 DEF ToldOf
  <2>3. Supervised!Shutdown
    BY <1>19, <2>1, <2>2 DEF Cancel, Supervised!Shutdown
  <2> QED BY <2>3 DEF Supervised!Next
<1>20. CASE Settle
  <2>1. UNCHANGED <<OwnerOf, WaitOf, LossPending>>
    BY <1>20 DEF Settle, OwnerOf, WaitOf, LossPending
  <2>2. ToldOf' = ToldOf BY <2>1 DEF ToldOf
  <2> QED BY <1>0, <1>20, <2>1, <2>2 DEF Settle, Supervised!vars
<1>21. CASE \/ PumpReturns
            \/ \E kind \in {"height", "base_height"} : SubmitCheck(kind)
            \/ \E c \in submitting : SubmitSend(c)
            \/ UNCHANGED vars
  BY <1>0, <1>21, LinkUntouched DEF PumpReturns, SubmitCheck, SubmitSend, vars
<1> QED
  BY <1>1, <1>2, <1>3, <1>4, <1>5, <1>6, <1>7, <1>8, <1>9, <1>10, <1>11,
     <1>12, <1>13, <1>14, <1>15, <1>16, <1>17, <1>18, <1>19, <1>20, <1>21
     DEF Next, Run

(* The manager implements SupervisedLink: one link at a time, held until   *)
(* it is lost, its loss reported for certain, and a rest after each one    *)
(* (desk.go:120-165, 197-330).                                             *)
THEOREM SupervisesItsLink == Spec => SupervisesLink
<1>1. Init => Supervised!Init
  BY DEF Init, OwnerOf, ToldOf, WaitOf, Excused, Online, Connected,
         Supervised!Init
<1>2. IInv /\ IInv' /\ [Next]_vars => [Supervised!Next]_Supervised!vars
  BY LinkStep
<1> QED BY <1>1, <1>2, Invariance, PTL DEF Spec, SupervisesLink,
                                           Supervised!Spec
=============================================================================
