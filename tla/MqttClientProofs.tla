-------------------------- MODULE MqttClientProofs ---------------------------
(***************************************************************************)
(* Theorems about MqttClient: for every set of filters, backoff interval   *)
(* and budget of lost connections and refused subscriptions.               *)
(***************************************************************************)
EXTENDS MqttClient, TLAPS

(* A connection that Run has seen come up is either still up, or its loss  *)
(* is still to be reported, or the token of its loss is still to be taken: *)
(* one of the three and only one, as long as no connection that Run did    *)
(* not see is about.  Before Run has a connection there is none of them.   *)
OneTrace ==
  /\ pc \in {"connected", "waiting"} =>
       /\ up => ~lost /\ lostCalls = 0
       /\ ~up => IF lost THEN lostCalls = 0 ELSE lostCalls = 1
  /\ pc \in {"draining", "connecting", "sleeping"} => ~up /\ lostCalls = 0
  /\ pc = "connecting" => ~lost

(* The same without that condition: the loss of a connection Run has seen  *)
(* leaves a trace at least.                                                *)
SomeTrace ==
  pc \in {"connected", "waiting"} /\ ~up => lost \/ lostCalls > 0

(* The backoff Run carries is the one due after the sleep before.          *)
BackoffDue ==
  backoff = IF waited = 0 THEN MinBackoff
                          ELSE SmallerOf(2 * waited, MaxBackoff)

IInv == TypeOK /\ (~stale => OneTrace) /\ SomeTrace /\ BackoffDue

LEMMA InitIInv == Init => IInv
<1> SUFFICES ASSUME Init PROVE IInv
  OBVIOUS
<1>1. lost \in BOOLEAN /\ up \in BOOLEAN /\ stale \in BOOLEAN
        /\ ctxDone \in BOOLEAN
  BY DEF Init
<1>2. TypeOK
  BY <1>1, BackoffAssumption DEF Init, TypeOK, Places
<1> QED BY <1>2 DEF Init, IInv, OneTrace, SomeTrace, BackoffDue

(* Types.  The Booleans first, then the calls in progress, then the rest.  *)
LEMMA Flags ==
  ASSUME TypeOK, [Next]_vars
  PROVE  /\ lost' \in BOOLEAN /\ up' \in BOOLEAN
         /\ stale' \in BOOLEAN /\ ctxDone' \in BOOLEAN
<1> USE DEF TypeOK, runVars, brokerVars, callVars
<1>1. CASE Drain BY <1>1 DEF Drain, Forgotten
<1>2. CASE ConnectSucceeds BY <1>2 DEF ConnectSucceeds, ComeUp
<1>3. CASE Succeed BY <1>3 DEF Succeed
<1>4. CASE ConnectFails BY <1>4 DEF ConnectFails, ComeUp
<1>5. CASE WaitEnds BY <1>5 DEF WaitEnds
<1>6. CASE SleepEnds BY <1>6 DEF SleepEnds
<1>7. CASE Stop BY <1>7 DEF Stop
<1>8. CASE OnConnect BY <1>8 DEF OnConnect, Announces, Subscribes
<1>9. CASE OnConnectionLost BY <1>9 DEF OnConnectionLost
<1>10. CASE ConnectionDrops BY <1>10 DEF ConnectionDrops
<1>11. CASE Cancel BY <1>11 DEF Cancel
<1>12. CASE UNCHANGED vars BY <1>12 DEF vars
<1> QED BY <1>1, <1>2, <1>3, <1>4, <1>5, <1>6, <1>7, <1>8, <1>9, <1>10,
           <1>11, <1>12 DEF Next, Run

LEMMA Calls ==
  ASSUME TypeOK, [Next]_vars
  PROVE  onConnect' \in SUBSET Call /\ subscribed' \in SUBSET Topics
<1> USE DEF TypeOK, runVars, brokerVars, callVars, Call
<1>1. CASE Drain BY <1>1 DEF Drain
<1>2. CASE ConnectSucceeds BY <1>2 DEF ConnectSucceeds, ComeUp
<1>3. CASE Succeed BY <1>3 DEF Succeed
<1>4. CASE ConnectFails BY <1>4 DEF ConnectFails, ComeUp
<1>5. CASE WaitEnds BY <1>5 DEF WaitEnds
<1>6. CASE SleepEnds BY <1>6 DEF SleepEnds
<1>7. CASE Stop BY <1>7 DEF Stop
<1>8. ASSUME NEW call \in onConnect, Announces(call)
      PROVE  onConnect' \in SUBSET Call /\ subscribed' \in SUBSET Topics
  BY <1>8 DEF Announces
<1>9. ASSUME NEW call \in onConnect, NEW t \in Topics, Subscribes(call, t)
      PROVE  onConnect' \in SUBSET Call /\ subscribed' \in SUBSET Topics
  <2>1. [call EXCEPT !.todo = @ \ {t}] \in Call OBVIOUS
  <2> QED BY <1>9, <2>1 DEF Subscribes
<1>10. CASE OnConnectionLost BY <1>10 DEF OnConnectionLost
<1>11. CASE ConnectionDrops BY <1>11 DEF ConnectionDrops
<1>12. CASE Cancel BY <1>12 DEF Cancel
<1>13. CASE UNCHANGED vars BY <1>13 DEF vars
<1> QED BY <1>1, <1>2, <1>3, <1>4, <1>5, <1>6, <1>7, <1>8, <1>9, <1>10,
           <1>11, <1>12, <1>13 DEF Next, Run, OnConnect

LEMMA Numbers ==
  ASSUME TypeOK, [Next]_vars
  PROVE  /\ pc' \in Places
         /\ backoff' \in MinBackoff..MaxBackoff /\ waited' \in 0..MaxBackoff
         /\ session' \in Nat /\ announced' \in Nat /\ lostCalls' \in Nat
         /\ faults' \in Nat /\ refusals' \in Nat
<1> USE BackoffAssumption
    DEF TypeOK, Places, runVars, brokerVars, callVars, SmallerOf
<1>1. CASE Drain BY <1>1 DEF Drain
<1>2. CASE ConnectSucceeds BY <1>2 DEF ConnectSucceeds, ComeUp
<1>3. CASE Succeed BY <1>3 DEF Succeed
<1>4. CASE ConnectFails BY <1>4 DEF ConnectFails, ComeUp
<1>5. CASE WaitEnds BY <1>5 DEF WaitEnds
<1>6. CASE SleepEnds BY <1>6 DEF SleepEnds
<1>7. CASE Stop BY <1>7 DEF Stop
<1>8. CASE OnConnect BY <1>8 DEF OnConnect, Announces, Subscribes
<1>9. CASE OnConnectionLost BY <1>9 DEF OnConnectionLost
<1>10. CASE ConnectionDrops BY <1>10 DEF ConnectionDrops
<1>11. CASE Cancel BY <1>11 DEF Cancel
<1>12. CASE UNCHANGED vars BY <1>12 DEF vars
<1> QED BY <1>1, <1>2, <1>3, <1>4, <1>5, <1>6, <1>7, <1>8, <1>9, <1>10,
           <1>11, <1>12 DEF Next, Run

(* What is left of a connection, step by step.                             *)
LEMMA TraceStep ==
  ASSUME IInv, [Next]_vars
  PROVE  (~stale => OneTrace)' /\ SomeTrace'
<1>0. /\ lostCalls \in Nat /\ pc \in Places /\ lost \in BOOLEAN
      /\ up \in BOOLEAN /\ stale \in BOOLEAN
  BY DEF IInv, TypeOK
<1> USE <1>0 DEF IInv, OneTrace, SomeTrace, Places, runVars, brokerVars,
                 callVars
<1>1. CASE Drain BY <1>1 DEF Drain, Forgotten
<1>2. CASE ConnectSucceeds BY <1>2 DEF ConnectSucceeds, ComeUp
<1>3. CASE Succeed BY <1>3 DEF Succeed
<1>4. CASE ConnectFails BY <1>4 DEF ConnectFails, ComeUp
<1>5. CASE WaitEnds BY <1>5 DEF WaitEnds
<1>6. CASE SleepEnds BY <1>6 DEF SleepEnds
<1>7. CASE Stop BY <1>7 DEF Stop
<1>8. CASE OnConnect BY <1>8 DEF OnConnect, Announces, Subscribes
<1>9. CASE OnConnectionLost BY <1>9 DEF OnConnectionLost
<1>10. CASE ConnectionDrops BY <1>10 DEF ConnectionDrops
<1>11. CASE Cancel BY <1>11 DEF Cancel
<1>12. CASE UNCHANGED vars BY <1>12 DEF vars
<1> QED BY <1>1, <1>2, <1>3, <1>4, <1>5, <1>6, <1>7, <1>8, <1>9, <1>10,
           <1>11, <1>12 DEF Next, Run

(* Only Succeed and SleepEnds touch the backoff.                           *)
LEMMA BackoffStep ==
  ASSUME IInv, [Next]_vars
  PROVE  BackoffDue'
<1>0. backoff \in MinBackoff..MaxBackoff /\ waited \in 0..MaxBackoff
  BY DEF IInv, TypeOK
<1> USE <1>0, BackoffAssumption
    DEF IInv, BackoffDue, SmallerOf, runVars, brokerVars, callVars
<1>1. CASE Succeed BY <1>1 DEF Succeed
<1>2. CASE SleepEnds BY <1>2 DEF SleepEnds
<1>3. CASE ~Succeed /\ ~SleepEnds
  <2>1. UNCHANGED <<backoff, waited>>
    BY <1>3 DEF Next, Run, Drain, ConnectSucceeds, ConnectFails, WaitEnds, Stop,
                OnConnect, Announces, Subscribes, OnConnectionLost,
                ConnectionDrops, Cancel, vars
  <2> QED BY <2>1
<1> QED BY <1>1, <1>2, <1>3

LEMMA Invariance == Spec => []IInv
<1>1. IInv /\ [Next]_vars => TypeOK'
  BY Flags, Calls, Numbers DEF IInv, TypeOK
<1>2. IInv /\ [Next]_vars => IInv'
  BY <1>1, TraceStep, BackoffStep DEF IInv
<1> QED BY InitIInv, <1>2, PTL DEF Spec

(* The client's state stays well formed: the backoff between its bounds,   *)
(* every call with filters of the client's (mqttc.go:103-201).             *)
THEOREM TypeCorrect == Spec => []TypeOK
<1>1. IInv => TypeOK BY DEF IInv
<1> QED BY <1>1, Invariance, PTL

(* The discard at the top of Run's loop never swallows the loss of the     *)
(* connection that follows it: Run never waits for a connection that is    *)
(* gone with nothing left to tell it so (mqttc.go:146-151, 167-191).       *)
THEOREM LossesAreSeen == Spec => []LossIsSeen
<1>1. IInv => LossIsSeen BY DEF IInv, SomeTrace, LossIsSeen
<1> QED BY <1>1, Invariance, PTL

(* Run gives up no connection that is up for the loss of another, unless   *)
(* an attempt that had timed out has been made after all                   *)
(* (mqttc.go:167-211).                                                     *)
THEOREM NoLossIsImagined == Spec => []NoFalseAlarm
<1>1. IInv => NoFalseAlarm BY DEF IInv, OneTrace, NoFalseAlarm
<1> QED BY <1>1, Invariance, PTL

(* The sleeps between attempts start at the minimum after a connection and *)
(* double up to the maximum (mqttc.go:185, 194-199).                       *)
THEOREM PacesItsRetries == Spec => []RetriesArePaced
<1>1. IInv => RetriesArePaced BY DEF IInv, BackoffDue, RetriesArePaced
<1> QED BY <1>1, Invariance, PTL

-----------------------------------------------------------------------------
(* Filters and announcements.                                              *)

(* A filter leaves a call's list only when it is subscribed or refused or  *)
(* there is no connection; a connection comes up with a call for it all.   *)
LEMMA ServedStep ==
  ASSUME TypeOK, ServedOrOnTheWay, [Next]_vars
  PROVE  ServedOrOnTheWay'
<1>0. /\ onConnect \in SUBSET Call /\ subscribed \in SUBSET Topics
      /\ up \in BOOLEAN /\ session \in Nat /\ refusals \in Nat
  BY DEF TypeOK
<1> USE DEF runVars, brokerVars, callVars
<1>1. ASSUME UNCHANGED <<up, subscribed, session, onConnect, announced,
                         refusals>>
      PROVE  ServedOrOnTheWay'
  BY <1>1 DEF ServedOrOnTheWay
<1>2. ASSUME ComeUp
      PROVE  ServedOrOnTheWay'
  <2> DEFINE new == [todo |-> Topics, session |-> session']
  <2>1. new \in onConnect' /\ new.todo = Topics /\ new.session = session'
    BY <1>2 DEF ComeUp
  <2> QED BY <2>1 DEF ServedOrOnTheWay
<1>3. ASSUME ~up' PROVE ServedOrOnTheWay'
  BY <1>3 DEF ServedOrOnTheWay
<1>4. ASSUME NEW call \in onConnect, Announces(call)
      PROVE  ServedOrOnTheWay'
  <2> SUFFICES ASSUME up PROVE ServedOrOnTheWay'
    BY <1>4 DEF Announces, ServedOrOnTheWay
  <2>1. announced' = session /\ session' = session
    BY <1>4 DEF Announces
  <2>2. \A c \in onConnect : c.todo # {} => c \in onConnect'
    BY <1>4 DEF Announces
  <2>3. UNCHANGED <<up, subscribed, refusals>>
    BY <1>4 DEF Announces
  <2> QED BY <2>1, <2>2, <2>3 DEF ServedOrOnTheWay
<1>5. ASSUME NEW call \in onConnect, NEW t \in Topics, Subscribes(call, t)
      PROVE  ServedOrOnTheWay'
  <2> SUFFICES ASSUME up PROVE ServedOrOnTheWay'
    BY <1>5 DEF Subscribes, ServedOrOnTheWay
  <2> DEFINE left == [call EXCEPT !.todo = @ \ {t}]
  <2>1. /\ left \in onConnect' /\ left.session = call.session
        /\ left.todo = call.todo \ {t}
    BY <1>0, <1>5 DEF Subscribes, Call
  <2>2. \A c \in onConnect : c = call \/ c \in onConnect'
    BY <1>5 DEF Subscribes
  <2>3. UNCHANGED <<up, session, announced>>
    BY <1>5 DEF Subscribes
  <2>4. announced' = session' \/ \E c \in onConnect' : c.session = session'
    BY <2>1, <2>2, <2>3 DEF ServedOrOnTheWay
  <2>5. \/ refusals' > 0
        \/ t \in subscribed' /\ subscribed \subseteq subscribed'
             /\ refusals' = refusals
    BY <1>0, <1>5 DEF Subscribes
  <2>6. ASSUME refusals' = refusals, ~(refusals > 0), t \in subscribed',
               subscribed \subseteq subscribed', NEW u \in Topics
        PROVE  u \in subscribed' \/ \E c \in onConnect' : u \in c.todo
    <3>1. u \in subscribed \/ \E c \in onConnect : u \in c.todo
      BY <2>6 DEF ServedOrOnTheWay
    <3>2. CASE u \in subscribed \/ u = t
      BY <2>6, <3>2
    <3>3. ASSUME NEW c \in onConnect, u \in c.todo, u # t
          PROVE  \E d \in onConnect' : u \in d.todo
      BY <2>1, <2>2, <3>3
    <3> QED BY <3>1, <3>2, <3>3
  <2> QED BY <2>4, <2>5, <2>6 DEF ServedOrOnTheWay
<1>6. CASE Run
  BY <1>1, <1>2, <1>6 DEF Run, Drain, ConnectSucceeds, Succeed, ConnectFails,
                          WaitEnds, SleepEnds, Stop, ComeUp
<1>7. CASE OnConnect BY <1>4, <1>5, <1>7 DEF OnConnect
<1>8. CASE OnConnectionLost BY <1>1, <1>8 DEF OnConnectionLost
<1>9. CASE ConnectionDrops BY <1>3, <1>9 DEF ConnectionDrops
<1>10. CASE Cancel BY <1>1, <1>10 DEF Cancel
<1>11. CASE UNCHANGED vars BY <1>1, <1>11 DEF vars
<1> QED BY <1>6, <1>7, <1>8, <1>9, <1>10, <1>11 DEF Next

(* However connections come and go while OnConnect is at work, none is     *)
(* left with a filter nobody is going to subscribe, or unannounced         *)
(* (mqttc.go:137-145, 246-283).                                            *)
THEOREM FiltersAreServed == Spec => []ServedOrOnTheWay
<1>1. Init => ServedOrOnTheWay BY DEF Init, ServedOrOnTheWay
<1>2. TypeOK /\ ServedOrOnTheWay /\ [Next]_vars => ServedOrOnTheWay'
  BY ServedStep
<1> QED BY <1>1, <1>2, TypeCorrect, PTL DEF Spec

-----------------------------------------------------------------------------
(* The client as the owner of a supervised connection.                     *)

(* Every step is one of the owner's or the connection's, or none.          *)
LEMMA LinkStep ==
  ASSUME IInv, IInv', [Next]_vars
  PROVE  [Supervised!Next]_Supervised!vars
<1> SUFFICES ASSUME ~stale, ~stale'
             PROVE  [Supervised!Next]_Supervised!vars
  BY DEF Supervised!Next
<1>0. /\ lostCalls \in Nat /\ pc \in Places /\ lost \in BOOLEAN
      /\ up \in BOOLEAN /\ ctxDone \in BOOLEAN
      /\ OneTrace /\ SomeTrace /\ BackoffDue
  BY DEF IInv, TypeOK
<1> USE <1>0 DEF OwnerOf, ToldOf, Places, runVars, brokerVars, callVars
<1>1. ASSUME UNCHANGED <<pc, up, lost, lostCalls, waited, ctxDone, stale>>
      PROVE  UNCHANGED Supervised!vars
  BY <1>1 DEF Supervised!vars
<1>2. CASE Drain
  <2>1. Supervised!Try
    BY <1>2 DEF Drain, OneTrace, Supervised!Try, Supervised!Goes
  <2> QED BY <1>2, <2>1 DEF Drain, Supervised!Next
<1>3. CASE ConnectSucceeds
  <2>1. Supervised!Establish
    BY <1>3 DEF ConnectSucceeds, ComeUp, OneTrace, Supervised!Establish
  <2> QED BY <1>3, <2>1 DEF ConnectSucceeds, Supervised!Next
<1>4. CASE Succeed
  <2>1. Supervised!Hold
    BY <1>4 DEF Succeed, SomeTrace, Supervised!Hold, Supervised!Goes
  <2> QED BY <1>4, <2>1 DEF Succeed, Supervised!Next
<1>5. CASE ConnectFails
  <2>1. Supervised!Fail
    BY <1>5 DEF ConnectFails, OneTrace, Supervised!Fail, Supervised!Goes
  <2> QED BY <1>5, <2>1 DEF ConnectFails, Supervised!Next
<1>6. CASE WaitEnds
  <2>1. Supervised!Notice
    BY <1>6 DEF WaitEnds, OneTrace, Supervised!Notice, Supervised!Goes
  <2> QED BY <1>6, <2>1 DEF WaitEnds, Supervised!Next
<1>7. CASE SleepEnds
  <2>1. Supervised!Rest
    BY <1>7 DEF SleepEnds, BackoffDue, SmallerOf, Supervised!Rest,
                Supervised!Goes, Supervised!NextWait, Supervised!Smaller
  <2> QED BY <1>7, <2>1 DEF SleepEnds, Supervised!Next
<1>8. CASE Stop
  <2>1. Supervised!Stop BY <1>8 DEF Stop, Supervised!Stop
  <2> QED BY <1>8, <2>1 DEF Stop, Supervised!Next
<1>9. CASE OnConnect
  BY <1>1, <1>9 DEF OnConnect, Announces, Subscribes
<1>10. CASE OnConnectionLost
  <2>1. UNCHANGED <<pc, up, waited, ctxDone, stale>>
    BY <1>10 DEF OnConnectionLost
  <2>2. ToldOf' = ToldOf
    BY <1>10 DEF OnConnectionLost, OneTrace
  <2>3. OwnerOf' = OwnerOf
    BY <2>1
  <2> HIDE DEF OwnerOf, ToldOf
  <2> QED BY <2>1, <2>2, <2>3 DEF Supervised!vars
<1>11. CASE ConnectionDrops
  <2>1. Supervised!Lose
    BY <1>11 DEF ConnectionDrops, Supervised!Lose
  <2> QED BY <1>11, <2>1 DEF ConnectionDrops, Supervised!Next
<1>12. CASE Cancel
  <2>1. Supervised!Shutdown BY <1>12 DEF Cancel, Supervised!Shutdown
  <2> QED BY <2>1 DEF Supervised!Next
<1>13. CASE UNCHANGED vars BY <1>1, <1>13 DEF vars
<1> QED BY <1>2, <1>3, <1>4, <1>5, <1>6, <1>7, <1>8, <1>9, <1>10, <1>11,
           <1>12, <1>13 DEF Next, Run

(* The client implements SupervisedLink: an attempt only when nothing is   *)
(* left of the connection before, a connection given up only for its own   *)
(* loss, every sleep twice the one before (mqttc.go:157-211).              *)
THEOREM SupervisesItsLink == Spec => SupervisesLink
<1>1. Init => Supervised!Init
  BY DEF Init, OwnerOf, ToldOf, Supervised!Init
<1>2. IInv /\ IInv' /\ [Next]_vars => [Supervised!Next]_Supervised!vars
  BY LinkStep
<1> QED BY <1>1, <1>2, Invariance, PTL DEF Spec, SupervisesLink,
                                           Supervised!Spec
=============================================================================
