----------------------------- MODULE Resolution ------------------------------
(***************************************************************************)
(* What the search for peripherals promises to a desk: a request for a     *)
(* peripheral ID is answered exactly once, with a peripheral its config    *)
(* entry matches, and the answer is the one the desk takes.  No scan, no   *)
(* pump and no channels: Discovery implements this.                        *)
(***************************************************************************)
CONSTANTS Desks, Peripherals, None, Matches

VARIABLES
  phase,  \* per desk: "idle", "asked", "answered", "held" or "stopped"
  pid,    \* per desk: the peripheral it was answered with, or None
  excused \* may a request go without an answer?

vars == <<phase, pid>>

Init ==
  /\ phase = [d \in Desks |-> "idle"]
  /\ pid = [d \in Desks |-> None]

Becomes(d, from, to) ==
  /\ phase[d] \in from
  /\ phase' = [phase EXCEPT ![d] = to]

Ask(d)  == Becomes(d, {"idle"}, "asked") /\ UNCHANGED pid

Answer(d) ==
  /\ Becomes(d, {"asked"}, "answered")
  /\ \E p \in Matches[d] : pid' = [pid EXCEPT ![d] = p]

Take(d) == Becomes(d, {"answered"}, "held") /\ UNCHANGED pid

Forget(d) ==
  /\ Becomes(d, {"held"}, "idle")
  /\ pid' = [pid EXCEPT ![d] = None]

(* Shutdown.  What a stopped desk was answered with no longer matters.     *)
Stop(d) ==
  /\ Becomes(d, {"idle", "asked", "answered", "held"}, "stopped")
  /\ pid' = [pid EXCEPT ![d] = None]

Next ==
  \E d \in Desks : Ask(d) \/ Answer(d) \/ Take(d) \/ Forget(d) \/ Stop(d)

(* Every request is answered, unless the desk stops or there is an excuse, *)
(* and every answer is taken.                                              *)
Fairness ==
  \A d \in Desks : WF_vars(Ask(d) \/ (~excused /\ Answer(d)) \/ Take(d))

Spec == Init /\ [][Next]_vars
FairSpec == Spec /\ Fairness
=============================================================================
