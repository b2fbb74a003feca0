--------------------------- MODULE DiscoveryProofs ---------------------------
(***************************************************************************)
(* Theorems about Discovery: for any number of desks, any peripherals and  *)
(* any relation between the two.                                           *)
(***************************************************************************)
EXTENDS Discovery, FiniteSetTheorems, TLAPS

-----------------------------------------------------------------------------
(* The answer on its way to a desk.                                        *)

(* The pump always knows what it is looking at, and for which desk.        *)
PumpPlaced ==
  /\ ppc \in {"looking", "claimed", "routed"} => looking \in Peripherals
  /\ ppc \in {"claimed", "routed", "sent"} => index \in Desks

(* TypeOK says of the channels that they hold one ID at most by their      *)
(* cardinality; for the proofs it is said without.                         *)
AtMostOne == \A d \in Desks : \A p, q \in resolved[d] : p = q

TypeInv ==
  /\ mpc \in [Desks -> {"loop", "waking", "waiting", "holding", "stopped"}]
  /\ held \in [Desks -> Peripherals \cup {None}]
  /\ wantResolve \in [Desks -> BOOLEAN]
  /\ resolved \in [Desks -> SUBSET Peripherals]
  /\ byPeripheral \in [Peripherals -> Desks \cup {None}]
  /\ ppc \in {"idle", "looking", "claimed", "routed", "sent", "stopped"}
  /\ looking \in Peripherals \cup {None}
  /\ index \in 1..N + 1
  /\ PumpPlaced

(* A desk whose manager is somewhere in resolve, or was when it stopped.   *)
Resolving(d) == mpc[d] \in {"waking", "waiting", "stopped"}

(* The pump has taken on to answer desk d and has not sent the ID yet.     *)
Claimed(d) == ppc \in {"claimed", "routed"} /\ index = d

(* A request is in one of three places: the flag, the pump's hands, or the *)
(* channel, never in two of them, and only while the manager is waiting.   *)
OnePlace ==
  \A d \in Desks :
    /\ wantResolve[d] =>
         resolved[d] = {} /\ ~Claimed(d) /\ held[d] = None /\ Resolving(d)
    /\ Claimed(d) =>
         /\ resolved[d] = {} /\ held[d] = None /\ Resolving(d)
         /\ looking \in Matches[d]
    /\ resolved[d] # {} => held[d] = None /\ Resolving(d)
    /\ mpc[d] = "holding" => held[d] \in Peripherals
    /\ held[d] # None => mpc[d] \in {"holding", "stopped"}
    /\ resolved[d] \subseteq Matches[d]
    /\ held[d] # None => held[d] \in Matches[d]

IInv == TypeInv /\ AtMostOne /\ OnePlace

LEMMA InitIInv == Init => IInv
BY DesksAssumption, PeripheralsAssumption
   DEF Init, IInv, TypeInv, PumpPlaced, AtMostOne, OnePlace, Claimed, Resolving,
       Desks

(* The steps of the managers.                                              *)
LEMMA ManagerStep ==
  ASSUME NEW d \in Desks, IInv, Manager(d) \/ Forget(d)
  PROVE  IInv'
<1> USE PeripheralsAssumption
    DEF IInv, TypeInv, PumpPlaced, AtMostOne, OnePlace, Claimed, Resolving,
        pumpVars
<1>1. CASE Ask(d) BY <1>1 DEF Ask
<1>2. CASE WakeScanner(d) BY <1>2 DEF WakeScanner
<1>3. CASE TakeResolved(d) BY <1>3 DEF TakeResolved
<1>4. CASE Forget(d) BY <1>4 DEF Forget
<1>5. CASE ManagerStops(d) BY <1>5 DEF ManagerStops, sharedVars
<1> QED BY <1>1, <1>2, <1>3, <1>4, <1>5 DEF Manager

(* The steps of the pump.                                                  *)
LEMMA PumpStep ==
  ASSUME IInv,
         PumpContinues \/ PumpStops \/ \E p \in Peripherals : PumpTake(p)
  PROVE  IInv'
<1> USE DesksAssumption, PeripheralsAssumption
    DEF IInv, TypeInv, PumpPlaced, AtMostOne, OnePlace, Claimed, Resolving,
        managerVars, sharedVars, PumpIdles
<1>1. ASSUME NEW p \in Peripherals, PumpTake(p) PROVE IInv'
  BY <1>1 DEF PumpTake, Desks
<1>2. CASE PumpSkip BY <1>2 DEF PumpSkip, Desks
<1>3. CASE Claim BY <1>3 DEF Claim, Desks
<1>4. CASE Route BY <1>4 DEF Route
<1>5. CASE HandOver BY <1>5 DEF HandOver
<1>6. CASE PumpWake BY <1>6 DEF PumpWake, Desks
<1>7. CASE OnStateChange BY <1>7 DEF OnStateChange, pumpVars
<1>8. CASE PumpStops BY <1>8 DEF PumpStops
<1> QED BY <1>1, <1>2, <1>3, <1>4, <1>5, <1>6, <1>7, <1>8 DEF PumpContinues

(* What the managers and the pump work on, which the controller and the    *)
(* helper leave alone.                                                     *)
Exchange == <<managerVars, wantResolve, resolved, byPeripheral, pumpVars>>

LEMMA OtherSteps ==
  ASSUME \/ ControllerContinues \/ ControllerStops
         \/ \E p \in Peripherals : Advertise(p)
         \/ StartsLate \/ PowerOff \/ PowerOn \/ Cancel \/ UNCHANGED vars
  PROVE  UNCHANGED Exchange
BY DEF ControllerContinues, ControllerWakes, Sweep, NothingToDo, StartScan,
       StartScanFails, StopScan, ControllerStops, Advertise, StartsLate,
       PowerOff, PowerOn, Cancel, vars, Exchange, sharedVars

LEMMA UnchangedStep == IInv /\ UNCHANGED Exchange => IInv'
BY DEF IInv, TypeInv, PumpPlaced, AtMostOne, OnePlace, Claimed, Resolving,
       Exchange, managerVars, pumpVars

LEMMA Invariance == Spec => []IInv
<1>1. IInv /\ [Next]_vars => IInv'
  BY ManagerStep, PumpStep, OtherSteps, UnchangedStep DEF Next
<1> QED BY <1>1, InitIInv, PTL DEF Spec

(* The send on resolved never finds the channel full, whatever the entries *)
(* of the config match: with the default case of its select, the desk      *)
(* would wait for ever (bridge.go:248-257).                                *)
THEOREM HandoversAreNeverLost == Spec => []HandoverNeverLost
<1>1. IInv => HandoverNeverLost
  BY DEF IInv, TypeInv, PumpPlaced, OnePlace, Claimed, HandoverNeverLost
<1> QED BY <1>1, Invariance, PTL

(* The rest of the state: the controller's, the helper's and the bounds.   *)
Flags ==
  /\ scanWake \in BOOLEAN /\ need \in BOOLEAN
  /\ scanning \in BOOLEAN /\ retry \in BOOLEAN
  /\ scanOn \in BOOLEAN /\ starting \in BOOLEAN /\ leftOn \in BOOLEAN
  /\ blind \in BOOLEAN /\ powered \in BOOLEAN
  /\ poweredOn \in BOOLEAN /\ ctxDone \in BOOLEAN

Counts ==
  /\ spc \in {"asleep", "sweeping", "deciding", "stopped"}
  /\ at \in 1..N + 1 /\ discoveries \in SUBSET Peripherals
  /\ forgets \in Nat /\ faults \in Nat /\ powerOffs \in Nat

RestOK == Flags /\ Counts

(* The steps of the managers and the pump only set the token.              *)
LEMMA FlagsKept ==
  ASSUME Flags, UNCHANGED <<scanVars, helperVars, ctxDone>>,
         scanWake' = TRUE \/ scanWake' = scanWake
  PROVE  Flags'
<1>1. UNCHANGED <<need, scanning, retry>>
  BY Zenon DEF scanVars
<1>2. UNCHANGED <<scanOn, starting, leftOn, blind, powered, poweredOn, ctxDone>>
  BY Zenon DEF helperVars, radioVars
<1>3. scanWake' \in BOOLEAN
  BY Zenon DEF Flags
<1> QED BY <1>1, <1>2, <1>3, Zenon DEF Flags

LEMMA FlagsStep == Flags /\ [Next]_vars => Flags'
<1> SUFFICES ASSUME Flags, [Next]_vars PROVE Flags'
  OBVIOUS
<1> USE DEF Flags, managerVars, sharedVars, pumpVars, scanVars, radioVars,
            helperVars, ControllerSleeps, Radio
<1>1. ASSUME NEW d \in Desks, Manager(d) \/ Forget(d) PROVE Flags'
  <2>1. UNCHANGED <<scanVars, helperVars, ctxDone>>
    BY <1>1, Zenon DEF Manager, Ask, WakeScanner, TakeResolved, Forget,
                       ManagerStops
  <2>2. scanWake' = TRUE \/ scanWake' = scanWake
    BY <1>1, Zenon DEF Manager, Ask, WakeScanner, TakeResolved, Forget,
                       ManagerStops
  <2> QED BY <2>1, <2>2, FlagsKept, Zenon
<1>2. ASSUME NEW p \in Peripherals, PumpTake(p) \/ Advertise(p) PROVE Flags'
  <2>1. CASE PumpTake(p) BY <2>1, Zenon DEF PumpTake
  <2>2. CASE Advertise(p) BY <2>2, Zenon DEF Advertise
  <2> QED BY <1>2, <2>1, <2>2, Zenon
<1>3. CASE PumpSkip \/ Claim \/ Route \/ HandOver \/ PumpWake \/ PumpStops
  <2>1. UNCHANGED <<scanVars, helperVars, ctxDone>>
    BY <1>3 DEF PumpSkip, Claim, Route, HandOver, PumpWake, PumpStops
  <2>2. scanWake' = TRUE \/ scanWake' = scanWake
    BY <1>3 DEF PumpSkip, Claim, Route, HandOver, PumpWake, PumpStops
  <2> QED BY <2>1, <2>2, FlagsKept, Zenon
<1>4. CASE OnStateChange BY <1>4, Zenon DEF OnStateChange
<1>5. CASE ControllerWakes
  <2>1. scanWake' \in BOOLEAN
    BY <1>5 DEF ControllerWakes
  <2>2. UNCHANGED <<need, scanning, retry, helperVars, ctxDone>>
    BY <1>5, Zenon DEF ControllerWakes
  <2> QED BY <2>1, <2>2, Zenon
<1>6. CASE Sweep
  <2>1. need' \in BOOLEAN
    BY <1>6 DEF Sweep
  <2>2. UNCHANGED <<scanWake, scanning, retry, helperVars, ctxDone>>
    BY <1>6, Zenon DEF Sweep
  <2> QED BY <2>1, <2>2, Zenon
<1>7. CASE NothingToDo BY <1>7, Zenon DEF NothingToDo
<1>8. CASE StartScan BY <1>8, Zenon DEF StartScan, Radio
<1>9. CASE StartScanFails BY <1>9, Zenon DEF StartScanFails
<1>10. CASE StopScan BY <1>10, Zenon DEF StopScan, StopHelper
<1>11. CASE ControllerStops BY <1>11, Zenon DEF ControllerStops, StopHelper
<1>12. CASE StartsLate \/ PowerOff \/ PowerOn \/ Cancel
  <2>1. CASE StartsLate BY <2>1, Zenon DEF StartsLate
  <2>2. CASE PowerOff BY <2>2, Zenon DEF PowerOff
  <2>3. CASE PowerOn BY <2>3, Zenon DEF PowerOn
  <2>4. CASE Cancel BY <2>4, Zenon DEF Cancel
  <2> QED BY <1>12, <2>1, <2>2, <2>3, <2>4, Zenon
<1>13. CASE UNCHANGED vars
  <2>1. UNCHANGED <<scanVars, helperVars, ctxDone>> /\ scanWake' = scanWake
    BY <1>13, Zenon DEF vars
  <2> QED BY <2>1, FlagsKept, Zenon
<1> QED
  BY <1>1, <1>2, <1>3, <1>4, <1>5, <1>6, <1>7, <1>8, <1>9, <1>10, <1>11,
     <1>12, <1>13 DEF Next, PumpContinues, ControllerContinues

(* What a controller that goes to sleep leaves of its position.            *)
Asleep == spc' = "asleep" /\ at' = 1

LEMMA AsleepOK ==
  Asleep => spc' \in {"asleep", "sweeping", "deciding", "stopped"}
            /\ at' \in 1..N + 1
BY DesksAssumption DEF Asleep

LEMMA CountsStep == Counts /\ [Next]_vars => Counts'
<1> SUFFICES ASSUME Counts, [Next]_vars PROVE Counts'
  OBVIOUS
<1> USE DesksAssumption
    DEF Counts, managerVars, sharedVars, pumpVars, scanVars, radioVars,
        helperVars, ControllerSleeps, Radio
<1>1. ASSUME NEW d \in Desks, Manager(d) \/ Forget(d) PROVE Counts'
  BY <1>1 DEF Manager, Ask, WakeScanner, TakeResolved, Forget, ManagerStops
<1>2. ASSUME NEW p \in Peripherals, PumpTake(p) \/ Advertise(p) PROVE Counts'
  BY <1>2 DEF PumpTake, Advertise
<1>3. CASE PumpContinues \/ PumpStops
  BY <1>3 DEF PumpContinues, PumpSkip, Claim, Route, HandOver, PumpWake,
              OnStateChange, PumpStops
<1>4. CASE ControllerWakes
  <2>1. /\ UNCHANGED <<at, discoveries, forgets, faults, powerOffs>>
        /\ spc' = "sweeping"
    BY <1>4, Zenon DEF ControllerWakes
  <2> QED BY <2>1
<1>5. CASE Sweep
  <2>1. at' \in 1..N + 1
    BY <1>5 DEF Sweep
  <2>2. spc' \in {"sweeping", "deciding"}
    BY <1>5 DEF Sweep
  <2> QED BY <1>5, <2>1, <2>2 DEF Sweep
<1>6. CASE NothingToDo
  <2>1. UNCHANGED <<discoveries, forgets, faults, powerOffs>> /\ Asleep
    BY <1>6, Zenon DEF NothingToDo, Asleep
  <2> QED BY <2>1, AsleepOK
<1>7. CASE StartScan \/ StartScanFails
  <2>1. UNCHANGED <<discoveries, forgets, powerOffs>> /\ Asleep
    BY <1>7, Zenon DEF StartScan, StartScanFails, Asleep
  <2>2. faults' = faults \/ faults' = faults + 1
    BY <1>7, Zenon DEF StartScan, StartScanFails
  <2> QED BY <2>1, <2>2, AsleepOK
<1>8. CASE StopScan \/ ControllerStops
  <2>1. UNCHANGED <<discoveries, forgets, powerOffs>>
    BY <1>8, Zenon DEF StopScan, ControllerStops
  <2>2. faults' \in Nat
    BY <1>8 DEF StopScan, ControllerStops, StopHelper
  <2>3. \/ Asleep
        \/ spc' = "stopped" /\ at' = at
    BY <1>8, Zenon DEF StopScan, ControllerStops, Asleep
  <2> QED BY <2>1, <2>2, <2>3, AsleepOK
<1>9. CASE StartsLate \/ PowerOff \/ PowerOn \/ Cancel
  BY <1>9 DEF StartsLate, PowerOff, PowerOn, Cancel
<1>10. CASE UNCHANGED vars BY <1>10 DEF vars
<1> QED
  BY <1>1, <1>2, <1>3, <1>4, <1>5, <1>6, <1>7, <1>8, <1>9, <1>10
     DEF Next, ControllerContinues

LEMMA Channel ==
  ASSUME NEW S, \A p, q \in S : p = q
  PROVE  Cardinality(S) <= 1
<1>1. CASE S = {} BY <1>1, FS_EmptySet
<1>2. CASE S # {}
  <2>1. PICK p \in S : TRUE BY <1>2
  <2>2. S = {p} BY <2>1
  <2>3. Cardinality({p}) = 1 BY FS_Singleton
  <2> QED BY <2>2, <2>3
<1> QED BY <1>1, <1>2

(* Every variable keeps its shape; in particular no channel ever holds     *)
(* more than one ID (bridge.go:254-257, desk.go:105).                      *)
THEOREM TypeCorrect == Spec => []TypeOK
<1>1. Init => RestOK
  <2>1. Init => Flags BY Zenon DEF Init, Flags
  <2>2. Init => Counts BY DesksAssumption DEF Init, Counts
  <2> QED BY <2>1, <2>2 DEF RestOK
<1>2. RestOK /\ [Next]_vars => RestOK'
  BY FlagsStep, CountsStep DEF RestOK
<1>3. IInv /\ RestOK => TypeOK
  <2>1. IInv => \A d \in Desks :
          mpc[d] # "stopped" => (mpc[d] = "holding" <=> held[d] # None)
    BY PeripheralsAssumption DEF IInv, OnePlace
  <2> QED
    BY <2>1, Channel
       DEF IInv, TypeInv, AtMostOne, RestOK, Flags, Counts, TypeOK
<1> QED BY <1>1, <1>2, <1>3, Invariance, PTL DEF Spec

-----------------------------------------------------------------------------
(* Routing, when no two entries match the same peripheral.                 *)

Disjoint ==
  \A d, e \in Desks : d # e => Matches[d] \cap Matches[e] = {}

(* A route is only ever given for a peripheral that matches the desk; it   *)
(* is there from before the ID is sent until the desk forgets it, and no   *)
(* other time.                                                             *)
Routes ==
  /\ \A d \in Desks, p \in Peripherals :
       /\ held[d] = p \/ p \in resolved[d] => byPeripheral[p] = d
       /\ byPeripheral[p] = d =>
            \/ held[d] = p
            \/ p \in resolved[d]
            \/ ppc = "routed" /\ index = d /\ looking = p
  /\ ppc = "routed" => byPeripheral[looking] = index

LEMMA RoutesStep ==
  ASSUME Disjoint, IInv, Routes, [Next]_vars
  PROVE  Routes'
<1> USE DesksAssumption, PeripheralsAssumption
    DEF IInv, TypeInv, PumpPlaced, AtMostOne, OnePlace, Claimed, Resolving,
        Routes, managerVars, sharedVars, pumpVars, PumpIdles
<1>1. ASSUME NEW d \in Desks, Ask(d) PROVE Routes'
  BY <1>1 DEF Ask
<1>2. ASSUME NEW d \in Desks, WakeScanner(d) PROVE Routes'
  BY <1>2 DEF WakeScanner
<1>3. ASSUME NEW d \in Desks, TakeResolved(d) PROVE Routes'
  BY <1>3 DEF TakeResolved
<1>4. ASSUME NEW d \in Desks, Forget(d) PROVE Routes'
  BY <1>4 DEF Forget, Disjoint
<1>5. ASSUME NEW d \in Desks, ManagerStops(d) PROVE Routes'
  BY <1>5 DEF ManagerStops
<1>6. ASSUME NEW p \in Peripherals, PumpTake(p) PROVE Routes'
  BY <1>6 DEF PumpTake
<1>7. CASE PumpSkip BY <1>7 DEF PumpSkip
<1>8. CASE Claim BY <1>8 DEF Claim
<1>9. CASE Route BY <1>9 DEF Route, Disjoint
<1>10. CASE HandOver BY <1>10 DEF HandOver
<1>11. CASE PumpWake BY <1>11 DEF PumpWake
<1>12. CASE OnStateChange BY <1>12 DEF OnStateChange
<1>13. CASE PumpStops BY <1>13 DEF PumpStops
<1>14. CASE UNCHANGED Exchange BY <1>14 DEF Exchange
<1> QED
  BY <1>1, <1>2, <1>3, <1>4, <1>5, <1>6, <1>7, <1>8, <1>9, <1>10, <1>11,
     <1>12, <1>13, <1>14, OtherSteps DEF Next, Manager, PumpContinues

(* Disconnections go to the desk that holds the peripheral, and a route    *)
(* outlives neither forgetPeripheral nor a new answer, provided that no    *)
(* peripheral matches two entries (bridge.go:253, 263-274,                 *)
(* desk.go:183-189).                                                       *)
THEOREM RoutesAgree == Disjoint /\ Spec => []RoutingAgrees
<1> SUFFICES ASSUME Disjoint PROVE Spec => []RoutingAgrees
  OBVIOUS
<1>1. Init => Routes
  BY PeripheralsAssumption DEF Init, Routes
<1>2. IInv /\ Routes /\ [Next]_vars => Routes'
  BY RoutesStep
<1>3. IInv /\ Routes => RoutingAgrees
  BY DEF IInv, OnePlace, Routes, RoutingAgrees
<1> QED BY <1>1, <1>2, <1>3, Invariance, PTL DEF Spec

-----------------------------------------------------------------------------
(* The scan and the desks that need it.                                    *)

(* Why the controller will still see that desk d wants an ID, or has:      *)
(* where it is in its round, as long as no token tells it to make another. *)
Minded(d) ==
  /\ spc = "asleep" => scanning \/ retry
  /\ spc = "sweeping" => at <= d
  /\ spc = "deciding" => need

(* Somebody wants an ID, or the pump has one to give and will wake the     *)
(* controller afterwards.                                                  *)
Needed ==
  (\E d \in Desks : wantResolve[d]) \/ ppc \in {"claimed", "routed", "sent"}

RoundStarts ==
  /\ spc \in {"asleep", "sweeping"} => ~need
  /\ spc = "asleep" => at = 1

ScanMinded ==
  /\ \A d \in Desks :
       wantResolve[d] /\ mpc[d] # "waking" => scanWake \/ Minded(d)
  /\ ~scanWake =>
       /\ spc = "asleep" /\ scanning => Needed
       /\ spc = "deciding" /\ need => Needed

ScanInv == RoundStarts /\ ScanMinded

LEMMA ScanExchangeStep ==
  ASSUME IInv, ScanInv,
         \/ \E d \in Desks : Manager(d) \/ Forget(d)
         \/ \E p \in Peripherals : PumpTake(p)
         \/ PumpContinues \/ PumpStops
  PROVE  ScanInv'
<1> USE DEF IInv, TypeInv, PumpPlaced, OnePlace, Resolving, ScanInv,
            RoundStarts, ScanMinded, Minded, Needed, managerVars, sharedVars,
            pumpVars, scanVars, PumpIdles
<1>1. ASSUME NEW d \in Desks, Ask(d) PROVE ScanInv'
  BY <1>1 DEF Ask
<1>2. ASSUME NEW d \in Desks, WakeScanner(d) PROVE ScanInv'
  BY <1>2 DEF WakeScanner
<1>3. ASSUME NEW d \in Desks, TakeResolved(d) PROVE ScanInv'
  BY <1>3 DEF TakeResolved
<1>4. ASSUME NEW d \in Desks, Forget(d) PROVE ScanInv'
  BY <1>4 DEF Forget
<1>5. ASSUME NEW d \in Desks, ManagerStops(d) PROVE ScanInv'
  BY <1>5 DEF ManagerStops
<1>6. ASSUME NEW p \in Peripherals, PumpTake(p) PROVE ScanInv'
  BY <1>6 DEF PumpTake
<1>7. CASE PumpSkip BY <1>7 DEF PumpSkip
<1>8. CASE Claim BY <1>8 DEF Claim
<1>9. CASE Route BY <1>9 DEF Route
<1>10. CASE HandOver BY <1>10 DEF HandOver
<1>11. CASE PumpWake BY <1>11 DEF PumpWake
<1>12. CASE OnStateChange BY <1>12 DEF OnStateChange
<1>13. CASE PumpStops BY <1>13 DEF PumpStops
<1> QED
  BY <1>1, <1>2, <1>3, <1>4, <1>5, <1>6, <1>7, <1>8, <1>9, <1>10, <1>11,
     <1>12, <1>13 DEF Manager, PumpContinues

LEMMA ScanOtherStep ==
  ASSUME Flags, Counts, ScanInv, UNCHANGED Exchange,
         \/ ControllerContinues \/ ControllerStops
         \/ \E p \in Peripherals : Advertise(p)
         \/ StartsLate \/ PowerOff \/ PowerOn \/ Cancel \/ UNCHANGED vars
  PROVE  ScanInv'
<1>1. UNCHANGED <<mpc, wantResolve, ppc>>
  BY DEF Exchange, managerVars, pumpVars
<1>2. Needed' <=> Needed
  BY <1>1 DEF Needed
<1> USE DEF ScanInv, RoundStarts, ScanMinded, Minded, Counts, ControllerSleeps
<1>3. CASE ControllerWakes
  <2>1. spc' = "sweeping" /\ at' = 1 /\ ~need'
    BY <1>3 DEF ControllerWakes
  <2>2. \A d \in Desks : at' <= d
    BY <2>1 DEF Desks
  <2> QED BY <2>1, <2>2
<1>4. CASE Sweep
  <2>1. spc = "sweeping" /\ ~need /\ scanWake' = scanWake
    BY <1>4 DEF Sweep, sharedVars
  <2>2. CASE at <= N /\ ~wantResolve[at] /\ at' = at + 1
               /\ need' = need /\ spc' = spc
    BY <1>1, <2>1, <2>2 DEF Desks
  <2>3. CASE at <= N /\ wantResolve[at] /\ need' = TRUE /\ spc' = "deciding"
    <3>1. at \in Desks
      BY <2>3 DEF Desks
    <3>2. Needed
      BY <2>3, <3>1 DEF Needed
    <3> QED BY <1>1, <1>2, <2>1, <2>3, <3>2
  <2>4. CASE at > N /\ need' = need /\ spc' = "deciding"
    <3>1. \A d \in Desks : ~(at <= d)
      BY <2>4, DesksAssumption DEF Desks
    <3> QED BY <1>1, <2>1, <2>4, <3>1
  <2> QED BY <1>4, <2>2, <2>3, <2>4 DEF Sweep
<1>5. CASE NothingToDo
  <2>1. /\ spc = "deciding" /\ spc' = "asleep" /\ at' = 1 /\ ~need'
        /\ scanWake' = scanWake
    BY <1>5, Zenon DEF NothingToDo, sharedVars
  <2>2. scanning' <=> need
    BY <1>5, Zenon DEF NothingToDo, Flags
  <2> QED BY <1>1, <1>2, <2>1, <2>2
<1>6. CASE StartScan \/ StartScanFails
  <2>1. /\ spc = "deciding" /\ spc' = "asleep" /\ at' = 1 /\ ~need'
        /\ scanWake' = scanWake /\ need
    BY <1>6, Zenon DEF StartScan, StartScanFails, sharedVars
  <2>2. scanning' \/ retry'
    BY <1>6, Zenon DEF StartScan, StartScanFails
  <2> QED BY <1>1, <1>2, <2>1, <2>2
<1>7. CASE StopScan
  <2>1. /\ spc = "deciding" /\ spc' = "asleep" /\ at' = 1 /\ ~need'
        /\ scanWake' = scanWake /\ ~need /\ ~scanning'
    BY <1>7, Zenon DEF StopScan, sharedVars
  <2> QED BY <1>1, <1>2, <2>1
<1>8. CASE ControllerStops
  <2>1. spc' = "stopped"
    BY <1>8, Zenon DEF ControllerStops
  <2> QED BY <2>1
<1>9. CASE \/ \E p \in Peripherals : Advertise(p)
           \/ StartsLate \/ PowerOff \/ PowerOn \/ Cancel \/ UNCHANGED vars
  <2>1. UNCHANGED <<scanVars, scanWake>>
    BY <1>9 DEF Advertise, StartsLate, PowerOff, PowerOn, Cancel, vars,
                sharedVars
  <2> QED BY <1>1, <1>2, <2>1 DEF scanVars
<1> QED BY <1>3, <1>4, <1>5, <1>6, <1>7, <1>8, <1>9 DEF ControllerContinues

(* What the controller believes of the radio is right but for two cases:   *)
(* the adapter ended the scan, or one is on behind the controller's back.  *)
Belief ==
  /\ scanning => scanOn \/ blind
  /\ scanOn => scanning \/ leftOn

LEMMA BeliefStep == Belief /\ [Next]_vars => Belief'
<1> SUFFICES ASSUME Belief, [Next]_vars PROVE Belief'
  OBVIOUS
<1> USE DEF Belief, scanVars, radioVars, helperVars, Radio
<1>1. CASE \/ \E d \in Desks : Manager(d) \/ Forget(d)
           \/ \E p \in Peripherals : PumpTake(p) \/ Advertise(p)
           \/ PumpContinues \/ PumpStops \/ ControllerWakes \/ Sweep
           \/ NothingToDo \/ StartScanFails \/ PowerOn \/ Cancel
           \/ UNCHANGED vars
  <2>1. UNCHANGED <<scanning, scanOn, leftOn, blind>>
    BY <1>1, Zenon
       DEF Manager, Ask, WakeScanner, TakeResolved, Forget, ManagerStops,
           PumpTake, Advertise, PumpContinues, PumpSkip, Claim, Route,
           HandOver, PumpWake, OnStateChange, PumpStops, ControllerWakes,
           Sweep, NothingToDo, StartScanFails, PowerOn, Cancel, vars
  <2> QED BY <2>1, Zenon
<1>2. CASE StartScan BY <1>2, Zenon DEF StartScan
<1>3. ASSUME StopHelper PROVE scanOn' => leftOn'
  <2>1. CASE Radio(FALSE) BY <2>1, Zenon
  <2>2. CASE leftOn' = scanOn /\ scanOn' = scanOn
    BY <2>2
  <2> QED BY <1>3, <2>1, <2>2 DEF StopHelper
<1>4. CASE StopScan \/ ControllerStops
  <2>1. ~scanning' BY <1>4, Zenon DEF StopScan, ControllerStops
  <2>2. CASE StopHelper BY <1>3, <2>1, <2>2, Zenon
  <2>3. CASE ~scanning /\ UNCHANGED radioVars BY <2>1, <2>3, Zenon
  <2> QED BY <1>4, <2>2, <2>3, Zenon DEF StopScan, ControllerStops
<1>5. CASE StartsLate BY <1>5, Zenon DEF StartsLate
<1>6. CASE PowerOff BY <1>6, Zenon DEF PowerOff
<1> QED BY <1>1, <1>2, <1>4, <1>5, <1>6, Zenon
        DEF Next, ControllerContinues

(* The controller never sleeps through a change of the desks' needs: the   *)
(* sweep, the flags and the token together tell it, however the requests,  *)
(* the answers and its round interleave, and the radio is as it believes   *)
(* but for the two cases named (bridge.go:280-348).                        *)
THEOREM ScanIsFollowed == Spec => []ScanFollowsNeed
<1>1. Init => ScanInv
  BY DEF Init, ScanInv, RoundStarts, ScanMinded
<1>2. Flags /\ Counts /\ IInv /\ ScanInv /\ [Next]_vars => ScanInv'
  BY ScanExchangeStep, ScanOtherStep, OtherSteps DEF Next
<1>3. ScanInv /\ Belief => ScanFollowsNeed
  BY DEF ScanInv, ScanMinded, Minded, Needed, ScanFollowsNeed, Wanting, Belief
<1>4. Init => Flags
  BY Zenon DEF Init, Flags
<1>5. Init => Counts
  BY DesksAssumption DEF Init, Counts
<1>6. Init => Belief
  BY DEF Init, Belief
<1> QED BY <1>1, <1>2, <1>3, <1>4, <1>5, <1>6, FlagsStep, CountsStep,
           BeliefStep, Invariance, PTL DEF Spec

-----------------------------------------------------------------------------
(* The search implements Resolution.                                       *)

Phases == [d \in Desks |-> PhaseOf(d)]
Pids   == [d \in Desks |-> PidOf(d)]

LEMMA OnlyElement ==
  ASSUME NEW S, NEW p \in S, \A q, r \in S : q = r
  PROVE  TheOne(S) = p
BY DEF TheOne

(* Initially no desk has asked.                                            *)
LEMMA InitPromise == Init => Promise!Init
BY DEF Init, Promise!Init, PhaseOf, PidOf, Desks

(* Four steps of the search are steps of the promise; only the claim makes *)
(* an answer, and what is answered stays the same on its way through the   *)
(* channel to the manager.                                                 *)
LEMMA ManagerKeepsPromise ==
  ASSUME NEW d \in Desks, IInv, Manager(d) \/ Forget(d)
  PROVE  [Promise!Next]_Promise!vars
<1> USE PeripheralsAssumption
    DEF IInv, TypeInv, PumpPlaced, AtMostOne, OnePlace, Claimed, Resolving,
        pumpVars
<1>1. CASE Ask(d)
  <2>1. Phases' = [Phases EXCEPT ![d] = "asked"] /\ Phases[d] = "idle"
    BY <1>1 DEF Ask, Phases, PhaseOf
  <2>2. Pids' = Pids
    BY <1>1 DEF Ask, Pids, PidOf, PhaseOf, Answer
  <2> QED
    BY <2>1, <2>2 DEF Phases, Pids, Promise!Next, Promise!Ask, Promise!Becomes
<1>2. CASE WakeScanner(d)
  <2>1. Phases' = Phases BY <1>2 DEF WakeScanner, Phases, PhaseOf
  <2>2. Pids' = Pids BY <1>2 DEF WakeScanner, Pids, PidOf, PhaseOf, Answer
  <2> QED BY <2>1, <2>2 DEF Phases, Pids, Promise!vars
<1>3. CASE TakeResolved(d)
  <2>1. Phases' = [Phases EXCEPT ![d] = "held"] /\ Phases[d] = "answered"
    BY <1>3 DEF TakeResolved, Phases, PhaseOf
  <2>2. PidOf(d)' = PidOf(d)
    <3>1. PICK p \in resolved[d] : held' = [held EXCEPT ![d] = p]
      BY <1>3 DEF TakeResolved
    <3>2. PidOf(d)' = p
      BY <1>3, <3>1 DEF TakeResolved, PidOf, PhaseOf, Answer
    <3>3. TheOne(resolved[d]) = p
      BY OnlyElement
    <3>4. PidOf(d) = p
      BY <1>3, <3>3 DEF TakeResolved, PidOf, PhaseOf, Answer
    <3> QED BY <3>2, <3>4
  <2>3. ASSUME NEW e \in Desks, e # d PROVE PidOf(e)' = PidOf(e)
    BY <1>3, <2>3 DEF TakeResolved, PidOf, PhaseOf, Answer
  <2>4. Pids' = Pids BY <2>2, <2>3 DEF Pids
  <2> QED
    BY <2>1, <2>4 DEF Phases, Pids, Promise!Next, Promise!Take, Promise!Becomes
<1>4. CASE Forget(d)
  <2>1. Phases' = [Phases EXCEPT ![d] = "idle"] /\ Phases[d] = "held"
    BY <1>4 DEF Forget, Phases, PhaseOf
  <2>2. Pids' = [Pids EXCEPT ![d] = None]
    BY <1>4 DEF Forget, Pids, PidOf, PhaseOf, Answer
  <2> QED
    BY <2>1, <2>2
    DEF Phases, Pids, Promise!Next, Promise!Forget, Promise!Becomes
<1>5. CASE ManagerStops(d)
  <2>1. /\ Phases' = [Phases EXCEPT ![d] = "stopped"]
        /\ Phases[d] \in {"idle", "asked", "answered", "held"}
    BY <1>5 DEF ManagerStops, sharedVars, Phases, PhaseOf
  <2>2. Pids' = [Pids EXCEPT ![d] = None]
    BY <1>5 DEF ManagerStops, sharedVars, Pids, PidOf, PhaseOf, Answer
  <2> QED
    BY <2>1, <2>2 DEF Phases, Pids, Promise!Next, Promise!Stop, Promise!Becomes
<1> QED BY <1>1, <1>2, <1>3, <1>4, <1>5 DEF Manager

LEMMA PumpKeepsPromise ==
  ASSUME IInv,
         PumpContinues \/ PumpStops \/ \E p \in Peripherals : PumpTake(p)
  PROVE  [Promise!Next]_Promise!vars
<1> USE DesksAssumption, PeripheralsAssumption
    DEF IInv, TypeInv, PumpPlaced, AtMostOne, OnePlace, Claimed, Resolving,
        managerVars, sharedVars, PumpIdles
<1>1. CASE Claim
  <2>1. index \in Desks /\ looking \in Matches[index]
    BY <1>1 DEF Claim, Desks
  <2>2. CASE mpc[index] = "stopped"
    <3>1. Phases' = Phases BY <1>1, <2>2 DEF Claim, Phases, PhaseOf
    <3>2. Pids' = Pids BY <1>1, <2>2 DEF Claim, Pids, PidOf, PhaseOf, Answer
    <3> QED BY <3>1, <3>2 DEF Phases, Pids, Promise!vars
  <2>3. CASE mpc[index] # "stopped"
    <3>0. PICK d \in Desks : d = index
      BY <2>1
    <3>1. /\ Phases' = [Phases EXCEPT ![index] = "answered"]
          /\ Phases[index] = "asked"
      <4>1. /\ mpc' = mpc /\ mpc[d] \in {"waking", "waiting"}
            /\ wantResolve' = [wantResolve EXCEPT ![d] = FALSE]
            /\ wantResolve[d]
        BY <1>1, <2>3, <3>0 DEF Claim
      <4>2. PhaseOf(d) = "asked" /\ PhaseOf(d)' = "answered"
        BY <4>1 DEF PhaseOf
      <4>3. \A e \in Desks : e # d => PhaseOf(e)' = PhaseOf(e)
        BY <4>1 DEF PhaseOf
      <4> HIDE DEF PhaseOf, IInv
      <4> QED BY <3>0, <4>2, <4>3 DEF Phases
    <3>2. Pids' = [Pids EXCEPT ![index] = looking]
      <4>1. PidOf(d)' = looking
        BY <1>1, <2>3, <3>0 DEF Claim, PidOf, PhaseOf, Answer
      <4>2. \A e \in Desks : e # d => PidOf(e)' = PidOf(e)
        BY <1>1, <3>0 DEF Claim, PidOf, PhaseOf, Answer
      <4> HIDE DEF PidOf, IInv
      <4> QED BY <3>0, <4>1, <4>2 DEF Pids
    <3>3. Promise!Answer(d)
      BY <2>1, <3>0, <3>1, <3>2, Zenon
         DEF Phases, Pids, Promise!Answer, Promise!Becomes
    <3> QED BY <3>3, Zenon DEF Promise!Next
  <2> QED BY <2>2, <2>3
<1>2. CASE HandOver
  <2>1. resolved' = [resolved EXCEPT ![index] = {looking}] /\ index \in Desks
    BY <1>2 DEF HandOver
  <2>2. TheOne(resolved'[index]) = looking
    BY <2>1, OnlyElement
  <2>3. Phases' = Phases BY <1>2 DEF HandOver, Phases, PhaseOf
  <2>4. Pids' = Pids
    BY <1>2, <2>1, <2>2 DEF HandOver, Pids, PidOf, PhaseOf, Answer
  <2> QED BY <2>3, <2>4 DEF Phases, Pids, Promise!vars
<1>3. ASSUME \/ \E p \in Peripherals : PumpTake(p)
             \/ PumpSkip \/ Route \/ PumpWake \/ OnStateChange \/ PumpStops
      PROVE  [Promise!Next]_Promise!vars
  <2>1. /\ UNCHANGED <<mpc, held, wantResolve, resolved>>
        /\ \A d \in Desks : Claimed(d)' = Claimed(d)
        /\ \A d \in Desks : Claimed(d) => looking' = looking
    BY <1>3 DEF PumpTake, PumpSkip, Route, PumpWake, OnStateChange, PumpStops,
                pumpVars
  <2>2. Phases' = Phases BY <2>1 DEF Phases, PhaseOf
  <2>3. Pids' = Pids BY <2>1 DEF Pids, PidOf, PhaseOf, Answer
  <2> QED BY <2>2, <2>3 DEF Phases, Pids, Promise!vars
<1> QED BY <1>1, <1>2, <1>3 DEF PumpContinues

LEMMA OthersKeepPromise ==
  ASSUME UNCHANGED Exchange
  PROVE  UNCHANGED Promise!vars
BY DEF Exchange, managerVars, pumpVars, Promise!vars, PhaseOf, PidOf, Answer

(* Every request of a desk is answered once, with a peripheral that        *)
(* matches, and that answer is what the desk takes, however the managers,  *)
(* the pump and the controller interleave (bridge.go:230-348,              *)
(* desk.go:167-189).                                                       *)
THEOREM SearchKeepsPromise == Spec => Promise!Spec
<1>1. IInv /\ [Next]_vars => [Promise!Next]_Promise!vars
  BY ManagerKeepsPromise, PumpKeepsPromise, OtherSteps, OthersKeepPromise
     DEF Next
<1> QED BY <1>1, InitPromise, Invariance, PTL DEF Spec, Promise!Spec
=============================================================================
