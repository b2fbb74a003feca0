------------------------------ MODULE Discovery ------------------------------
(***************************************************************************)
(* How desks find their peripherals (internal/bridge/bridge.go and         *)
(* deskManager.resolve).  Three kinds of goroutine meet here:              *)
(*   - each desk's manager asks for a peripheral ID and waits for it,      *)
(*   - the event pump offers every advertisement to the desks in the order *)
(*     of the config, hands the ID to the first that wants it, and routes  *)
(*     that peripheral's disconnections to it,                             *)
(*   - the scan controller keeps a scan going while a desk wants an ID.    *)
(* They share atomics and channels only, so every step below is one        *)
(* operation on one of them.                                               *)
(***************************************************************************)
EXTENDS Naturals, FiniteSets

CONSTANTS
  N,             \* number of desks in the config
  Peripherals,
  None,          \* no peripheral, or no desk
  Matches,       \* for each desk, the peripherals its config entry matches
  MaxForgets,    \* bound: IDs given up after failed connections
  MaxFaults,     \* bound: StartScan and StopScan calls that fail
  MaxPowerOffs   \* bound: how often the Bluetooth adapter is switched off

Desks == 1..N

ASSUME DesksAssumption == N \in Nat \ {0}

ASSUME PeripheralsAssumption ==
  /\ None \notin Peripherals \cup Desks
  /\ Matches \in [Desks -> SUBSET Peripherals]

ASSUME BoundsAssumption ==
  /\ MaxForgets \in Nat /\ MaxFaults \in Nat /\ MaxPowerOffs \in Nat

VARIABLES
  \* the managers
  mpc,          \* "loop", "waking", "waiting", "holding", "stopped"
  held,         \* the manager's peripheralID
  forgets,
  \* shared: the managers, the pump and the controller
  wantResolve,
  resolved,     \* each desk's channel of capacity 1, as a set
  byPeripheral,
  scanWake,     \* channel of capacity 1: is there a token in it?
  \* the pump
  ppc,          \* "idle", "looking", "claimed", "routed", "sent", "stopped"
  looking,      \* the peripheral it is looking at
  index,        \* the desk it is at
  \* the controller
  spc,          \* "asleep", "sweeping", "deciding", "stopped"
  at, need,     \* its loop over the desks
  scanning,     \* whether it believes a scan is on
  retry,        \* history: the last StartScan failed
  \* the helper
  scanOn,       \* whether a scan is on
  starting,     \* a StartScan that has timed out is still with it
  leftOn,       \* history: the scan is on, and the controller was told that
                \* it had not started, or not that it had not stopped
  blind,        \* history: the adapter was switched off under a scan that
                \* the controller still believes on
  discoveries,  \* advertisements the pump has not read yet
  powered,      \* adapter state
  poweredOn,    \* a PoweredOn state change the pump has not read yet
  faults, powerOffs,
  ctxDone

managerVars == <<mpc, held, forgets>>
sharedVars  == <<wantResolve, resolved, byPeripheral, scanWake>>
pumpVars    == <<ppc, looking, index>>
scanVars    == <<spc, at, need, scanning, retry>>
radioVars   == <<scanOn, starting, leftOn, blind>>
helperVars  == <<radioVars, discoveries, powered, poweredOn, faults, powerOffs>>
vars == <<managerVars, sharedVars, pumpVars, scanVars, helperVars, ctxDone>>

(* Among the rest: a manager has an ID exactly while it uses it to connect. *)
TypeOK ==
  /\ mpc \in [Desks -> {"loop", "waking", "waiting", "holding", "stopped"}]
  /\ held \in [Desks -> Peripherals \cup {None}]
  /\ \A d \in Desks :
       mpc[d] # "stopped" => (mpc[d] = "holding" <=> held[d] # None)
  /\ wantResolve \in [Desks -> BOOLEAN]
  /\ resolved \in [Desks -> SUBSET Peripherals]
  /\ \A d \in Desks : Cardinality(resolved[d]) <= 1
  /\ byPeripheral \in [Peripherals -> Desks \cup {None}]
  /\ scanWake \in BOOLEAN
  /\ ppc \in {"idle", "looking", "claimed", "routed", "sent", "stopped"}
  /\ looking \in Peripherals \cup {None}
  /\ index \in 1..N + 1
  /\ spc \in {"asleep", "sweeping", "deciding", "stopped"}
  /\ at \in 1..N + 1 /\ need \in BOOLEAN
  /\ scanning \in BOOLEAN /\ retry \in BOOLEAN
  /\ scanOn \in BOOLEAN /\ starting \in BOOLEAN /\ leftOn \in BOOLEAN
  /\ blind \in BOOLEAN
  /\ discoveries \in SUBSET Peripherals
  /\ powered \in BOOLEAN /\ poweredOn \in BOOLEAN
  /\ forgets \in Nat /\ faults \in Nat /\ powerOffs \in Nat
  /\ ctxDone \in BOOLEAN

Init ==
  /\ mpc = [d \in Desks |-> "loop"] /\ held = [d \in Desks |-> None]
  /\ wantResolve = [d \in Desks |-> FALSE]
  /\ resolved = [d \in Desks |-> {}]
  /\ byPeripheral = [p \in Peripherals |-> None]
  /\ scanWake = FALSE
  /\ ppc = "idle" /\ looking = None /\ index = 1
  /\ spc = "asleep" /\ at = 1 /\ need = FALSE
  /\ scanning = FALSE /\ retry = FALSE
  /\ scanOn = FALSE /\ starting = FALSE /\ leftOn = FALSE
  /\ blind = FALSE
  /\ discoveries = {} /\ powered \in BOOLEAN /\ poweredOn = FALSE
  /\ forgets = 0 /\ faults = 0 /\ powerOffs = 0
  /\ ctxDone = FALSE

-----------------------------------------------------------------------------
(* The managers.                                                           *)

Ask(d) ==
  /\ mpc[d] = "loop"
  /\ wantResolve' = [wantResolve EXCEPT ![d] = TRUE]
  /\ mpc' = [mpc EXCEPT ![d] = "waking"]
  /\ UNCHANGED <<held, forgets, resolved, byPeripheral, scanWake, pumpVars,
                 scanVars, helperVars, ctxDone>>

WakeScanner(d) ==
  /\ mpc[d] = "waking"
  /\ scanWake' = TRUE
  /\ mpc' = [mpc EXCEPT ![d] = "waiting"]
  /\ UNCHANGED <<held, forgets, wantResolve, resolved, byPeripheral, pumpVars,
                 scanVars, helperVars, ctxDone>>

TakeResolved_DoesNotWait(d) ==
  /\ mpc[d] = "waiting"
  /\ \/ \E p \in resolved[d] : held' = [held EXCEPT ![d] = p]
     \/ resolved[d] = {} /\ UNCHANGED held
  /\ resolved' = [resolved EXCEPT ![d] = {}]
  /\ mpc' = [mpc EXCEPT ![d] = "holding"]
  /\ UNCHANGED <<forgets, wantResolve, byPeripheral, scanWake, pumpVars,
                 scanVars, helperVars, ctxDone>>

TakeResolved(d) ==
  /\ mpc[d] = "waiting"
  /\ \E p \in resolved[d] : held' = [held EXCEPT ![d] = p]
  /\ resolved' = [resolved EXCEPT ![d] = {}]
  /\ mpc' = [mpc EXCEPT ![d] = "holding"]
  /\ UNCHANGED <<forgets, wantResolve, byPeripheral, scanWake, pumpVars,
                 scanVars, helperVars, ctxDone>>

Forget_KeepsRoute(d) ==
  /\ mpc[d] = "holding"
  /\ forgets < MaxForgets
  /\ forgets' = forgets + 1
  /\ held' = [held EXCEPT ![d] = None]
  /\ mpc' = [mpc EXCEPT ![d] = "loop"]
  /\ UNCHANGED <<sharedVars, pumpVars, scanVars, helperVars, ctxDone>>

(* forgetPeripheral, after enough failed connections.                      *)
Forget(d) ==
  /\ mpc[d] = "holding"
  /\ forgets < MaxForgets
  /\ forgets' = forgets + 1
  /\ byPeripheral' = [byPeripheral EXCEPT ![held[d]] = None]
  /\ held' = [held EXCEPT ![d] = None]
  /\ mpc' = [mpc EXCEPT ![d] = "loop"]
  /\ UNCHANGED <<wantResolve, resolved, scanWake, pumpVars, scanVars,
                 helperVars, ctxDone>>

ManagerStops(d) ==
  /\ ctxDone
  /\ mpc[d] \in {"loop", "waiting", "holding"}
  /\ mpc' = [mpc EXCEPT ![d] = "stopped"]
  /\ UNCHANGED <<held, forgets, sharedVars, pumpVars, scanVars, helperVars,
                 ctxDone>>

Manager(d) ==
  Ask(d) \/ WakeScanner(d) \/ TakeResolved(d) \/ ManagerStops(d)

-----------------------------------------------------------------------------
(* The pump: onDiscovery, and the state changes.                           *)

PumpTake(p) ==
  /\ ppc = "idle" /\ p \in discoveries
  /\ discoveries' = discoveries \ {p}
  /\ looking' = p
  /\ index' = 1
  /\ ppc' = "looking"
  /\ UNCHANGED <<managerVars, sharedVars, scanVars, radioVars, powered,
                 poweredOn, faults, powerOffs, ctxDone>>

PumpIdles == ppc' = "idle" /\ looking' = None /\ index' = 1

PumpSkip ==
  /\ ppc = "looking"
  /\ \/ index > N /\ PumpIdles
     \/ /\ index <= N
        /\ ~wantResolve[index] \/ looking \notin Matches[index]
        /\ index' = index + 1
        /\ UNCHANGED <<ppc, looking>>
  /\ UNCHANGED <<managerVars, sharedVars, scanVars, helperVars, ctxDone>>

Claim_WithoutSwap ==
  /\ ppc = "looking" /\ index <= N
  /\ wantResolve[index] /\ looking \in Matches[index]
  /\ ppc' = "claimed"
  /\ UNCHANGED <<managerVars, sharedVars, looking, index, scanVars, helperVars,
                 ctxDone>>

(* Only the pump clears wantResolve, so the load before the match and the  *)
(* compare-and-swap after it see the same value.                           *)
Claim ==
  /\ ppc = "looking" /\ index <= N
  /\ wantResolve[index] /\ looking \in Matches[index]
  /\ wantResolve' = [wantResolve EXCEPT ![index] = FALSE]
  /\ ppc' = "claimed"
  /\ UNCHANGED <<managerVars, resolved, byPeripheral, scanWake, looking, index,
                 scanVars, helperVars, ctxDone>>

Route ==
  /\ ppc = "claimed"
  /\ byPeripheral' = [byPeripheral EXCEPT ![looking] = index]
  /\ ppc' = "routed"
  /\ UNCHANGED <<managerVars, wantResolve, resolved, scanWake, looking, index,
                 scanVars, helperVars, ctxDone>>

HandOver ==
  /\ ppc = "routed"
  /\ resolved' = [resolved EXCEPT ![index] = IF @ = {} THEN {looking} ELSE @]
  /\ ppc' = "sent"
  /\ UNCHANGED <<managerVars, wantResolve, byPeripheral, scanWake, looking,
                 index, scanVars, helperVars, ctxDone>>

PumpWake_NoWake ==
  /\ ppc = "sent"
  /\ PumpIdles
  /\ UNCHANGED <<managerVars, sharedVars, scanVars, helperVars, ctxDone>>

PumpWake ==
  /\ ppc = "sent"
  /\ scanWake' = TRUE
  /\ PumpIdles
  /\ UNCHANGED <<managerVars, wantResolve, resolved, byPeripheral, scanVars,
                 helperVars, ctxDone>>

OnStateChange ==
  /\ ppc = "idle" /\ poweredOn
  /\ poweredOn' = FALSE
  /\ scanWake' = TRUE
  /\ UNCHANGED <<managerVars, wantResolve, resolved, byPeripheral, pumpVars,
                 scanVars, radioVars, discoveries, powered, faults, powerOffs,
                 ctxDone>>

PumpStops ==
  /\ ppc = "idle" /\ ctxDone
  /\ ppc' = "stopped"
  /\ UNCHANGED <<managerVars, sharedVars, looking, index, scanVars, helperVars,
                 ctxDone>>

PumpContinues ==
  PumpSkip \/ Claim \/ Route \/ HandOver \/ PumpWake \/ OnStateChange

-----------------------------------------------------------------------------
(* The scan controller.                                                    *)

(* Woken by the token or by its ticker.                                    *)
ControllerWakes ==
  /\ spc = "asleep"
  /\ scanWake' \in {FALSE, scanWake}
  /\ spc' = "sweeping"
  /\ UNCHANGED <<managerVars, wantResolve, resolved, byPeripheral, pumpVars,
                 at, need, scanning, retry, helperVars, ctxDone>>

Sweep ==
  /\ spc = "sweeping"
  /\ \/ /\ at <= N /\ ~wantResolve[at]
        /\ at' = at + 1
        /\ UNCHANGED <<need, spc>>
     \/ /\ at <= N /\ wantResolve[at]
        /\ need' = TRUE
        /\ spc' = "deciding"
        /\ at' = 1
     \/ /\ at > N
        /\ spc' = "deciding"
        /\ at' = 1
        /\ UNCHANGED need
  /\ UNCHANGED <<managerVars, sharedVars, pumpVars, scanning, retry, helperVars,
                 ctxDone>>

(* need is a local of one sweep.                                           *)
ControllerSleeps == spc' = "asleep" /\ at' = 1 /\ need' = FALSE

NothingToDo ==
  /\ spc = "deciding" /\ need = scanning
  /\ retry' = FALSE
  /\ ControllerSleeps
  /\ UNCHANGED <<managerVars, sharedVars, pumpVars, scanning,
                 helperVars, ctxDone>>

(* The scan is on, or off, and the helper has seen all earlier requests.   *)
Radio(on) == scanOn' = on /\ starting' = FALSE /\ leftOn' = FALSE

StartScan ==
  /\ spc = "deciding" /\ need /\ ~scanning
  /\ powered /\ ~ctxDone
  /\ Radio(TRUE) /\ blind' = FALSE
  /\ scanning' = TRUE /\ retry' = FALSE
  /\ ControllerSleeps
  /\ UNCHANGED <<managerVars, sharedVars, pumpVars, discoveries,
                 powered, poweredOn, faults, powerOffs, ctxDone>>

(* It is refused, or times out, and the helper may still carry it out.     *)
StartScanFails ==
  /\ spc = "deciding" /\ need /\ ~scanning
  /\ \/ /\ faults < MaxFaults /\ faults' = faults + 1
        /\ starting' \in {starting, TRUE}
     \/ (~powered \/ ctxDone) /\ UNCHANGED <<faults, starting>>
  /\ retry' = TRUE
  /\ ControllerSleeps
  /\ UNCHANGED <<managerVars, sharedVars, pumpVars, scanning, scanOn, leftOn,
                 blind, discoveries, powered, poweredOn, powerOffs, ctxDone>>

(* stop(): the error of StopScan is logged, and scanning becomes false.    *)
StopHelper ==
  /\ blind' = FALSE
  /\ \/ Radio(FALSE) /\ UNCHANGED faults
     \/ /\ faults < MaxFaults /\ faults' = faults + 1
        /\ leftOn' = scanOn
        /\ UNCHANGED <<scanOn, starting>>

StopScan ==
  /\ spc = "deciding" /\ ~need /\ scanning
  /\ StopHelper
  /\ scanning' = FALSE /\ retry' = FALSE
  /\ ControllerSleeps
  /\ UNCHANGED <<managerVars, sharedVars, pumpVars, discoveries,
                 powered, poweredOn, powerOffs, ctxDone>>

ControllerStops_LeavesScan ==
  /\ spc = "asleep" /\ ctxDone
  /\ scanning' = FALSE
  /\ spc' = "stopped"
  /\ UNCHANGED <<managerVars, sharedVars, pumpVars, at, need, retry, helperVars,
                 ctxDone>>

ControllerStops ==
  /\ spc = "asleep" /\ ctxDone
  /\ IF scanning THEN StopHelper ELSE UNCHANGED <<radioVars, faults>>
  /\ scanning' = FALSE
  /\ spc' = "stopped"
  /\ UNCHANGED <<managerVars, sharedVars, pumpVars, at, need, retry,
                 discoveries, powered, poweredOn, powerOffs, ctxDone>>

ControllerContinues ==
  \/ ControllerWakes \/ Sweep \/ NothingToDo
  \/ StartScan \/ StartScanFails \/ StopScan

-----------------------------------------------------------------------------
(* The helper and the shutdown.                                            *)

StartsLate ==
  /\ starting /\ powered
  /\ scanOn' = TRUE /\ starting' = FALSE /\ leftOn' = TRUE
  /\ UNCHANGED <<managerVars, sharedVars, pumpVars, scanVars, blind,
                 discoveries, powered, poweredOn, faults, powerOffs, ctxDone>>

Advertise(p) ==
  /\ scanOn
  /\ discoveries' = discoveries \cup {p}
  /\ UNCHANGED <<managerVars, sharedVars, pumpVars, scanVars, radioVars,
                 powered, poweredOn, faults, powerOffs, ctxDone>>

(* Switching the adapter off ends the scan, and the controller is not told. *)
PowerOff ==
  /\ powered
  /\ powerOffs < MaxPowerOffs
  /\ powerOffs' = powerOffs + 1
  /\ powered' = FALSE
  /\ Radio(FALSE) /\ blind' = scanning
  /\ UNCHANGED <<managerVars, sharedVars, pumpVars, scanVars, discoveries,
                 poweredOn, faults, ctxDone>>

PowerOn ==
  /\ ~powered
  /\ powered' = TRUE /\ poweredOn' = TRUE
  /\ UNCHANGED <<managerVars, sharedVars, pumpVars, scanVars, radioVars,
                 discoveries, faults, powerOffs, ctxDone>>

Cancel ==
  /\ ~ctxDone
  /\ ctxDone' = TRUE
  /\ UNCHANGED <<managerVars, sharedVars, pumpVars, scanVars, helperVars>>

Next ==
  \/ \E d \in Desks : Manager(d) \/ Forget(d)
  \/ \E p \in Peripherals : PumpTake(p) \/ Advertise(p)
  \/ PumpContinues \/ PumpStops
  \/ ControllerContinues \/ ControllerStops
  \/ StartsLate \/ PowerOff \/ PowerOn \/ Cancel

(* The goroutines run, select picks among its ready cases at random, a     *)
(* peripheral that is near keeps advertising, and the adapter is switched  *)
(* on again.                                                               *)
Fairness ==
  /\ \A d \in Desks : WF_vars(Manager(d))
  /\ \A p \in Peripherals : SF_vars(PumpTake(p)) /\ WF_vars(Advertise(p))
  /\ WF_vars(PumpContinues)
  /\ WF_vars(ControllerContinues) /\ SF_vars(ControllerStops)
  /\ WF_vars(PowerOn)

Spec == Init /\ [][Next]_vars
FairSpec == Spec /\ Fairness

-----------------------------------------------------------------------------
(* Safety.                                                                 *)

(* resolved has room for every ID the pump sends: the send that would drop *)
(* the ID, and leave the desk waiting with wantResolve already cleared,    *)
(* never finds the channel full, whatever the desk and the pump have done  *)
(* since the request (bridge.go:248-257, desk.go:169-181).                 *)
HandoverNeverLost == ppc = "routed" => resolved[index] = {}

(* A desk that holds a peripheral is the one its disconnections are routed *)
(* to, and a peripheral is routed only to a desk that holds it or is about *)
(* to: a route outlives neither forgetPeripheral nor a new answer          *)
(* (bridge.go:253, 263-274, desk.go:183-189).                              *)
RoutingAgrees ==
  \A d \in Desks, p \in Peripherals :
    /\ mpc[d] = "holding" /\ held[d] = p => byPeripheral[p] = d
    /\ byPeripheral[p] = d =>
         \/ held[d] = p
         \/ p \in resolved[d]
         \/ ppc = "routed" /\ index = d /\ looking = p

(* The controller never falls asleep in disagreement with the desks: with  *)
(* no wake-up on its way, a scan is on if a desk wants one, or else the     *)
(* last StartScan failed and the ticker retries it; and none is on if no    *)
(* desk wants one.  Its sweep of the flags is not atomic, so this is what   *)
(* the token must make up for (bridge.go:280-348).  Excepted are a scan     *)
(* that the adapter ended (blind), and one that is on behind the            *)
(* controller's back (leftOn).                                              *)
Wanting == {d \in Desks : wantResolve[d]}

ScanFollowsNeed ==
  spc = "asleep" /\ ~scanWake =>
    /\ (\E d \in Wanting : mpc[d] # "waking") => scanOn \/ blind \/ retry
    /\ Wanting = {} /\ ppc \notin {"claimed", "routed", "sent"} =>
         ~scanning /\ (scanOn => leftOn)

-----------------------------------------------------------------------------
(* The search keeps the promise of Resolution: phase and pid of a desk, as *)
(* its flag, its channel and the pump's position determine them.           *)

PhaseOf(d) ==
  IF mpc[d] \in {"waking", "waiting"}
    THEN IF wantResolve[d] THEN "asked" ELSE "answered"
    ELSE IF mpc[d] = "loop" THEN "idle"
    ELSE IF mpc[d] = "holding" THEN "held" ELSE "stopped"

TheOne(S) == CHOOSE p \in S : TRUE

Answer(d) ==
  IF ppc \in {"claimed", "routed"} /\ index = d THEN looking
                                                ELSE TheOne(resolved[d])

PidOf(d) ==
  IF PhaseOf(d) = "held" THEN held[d]
  ELSE IF PhaseOf(d) = "answered" THEN Answer(d) ELSE None

Promise == INSTANCE Resolution
             WITH phase <- [d \in Desks |-> PhaseOf(d)],
                  pid   <- [d \in Desks |-> PidOf(d)],
                  excused <- blind

(* Every request is answered exactly once, by a peripheral that matches,   *)
(* and eventually (bridge.go:230-348, desk.go:167-189).  What becomes of a *)
(* request once the adapter has been switched off during the scan is       *)
(* excepted: it is never answered.  scanning stays TRUE, and when the      *)
(* adapter is on again the controller starts nothing (bridge.go:330),      *)
(* which is not what bridge.go:287 says.                                   *)
KeepsPromise == Promise!FairSpec

(* Once the desks have their peripherals, or the process stops, the scan   *)
(* is switched off for good, unless it is on behind the controller's back: *)
(* because a StopScan failed, which is logged and not tried again, or a    *)
(* StartScan began after its timeout, when no other was needed any more    *)
(* (bridge.go:287-292, 300-316, 331-345).                                  *)
ScanSettles == <>[](~scanOn \/ leftOn)
=============================================================================
