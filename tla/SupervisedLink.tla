---------------------------- MODULE SupervisedLink ----------------------------
(***************************************************************************)
(* What a supervised connection promises, be it a desk's over Bluetooth    *)
(* (DeskManager) or the broker's over TCP (MqttClient): one connection at  *)
(* a time, held until it is lost, its loss reported for certain and only   *)
(* then, and attempts at a measured pace.  No channels, handlers or        *)
(* callbacks: the two modules implement this.                              *)
(***************************************************************************)
EXTENDS Naturals

CONSTANTS MinWait, MaxWait

VARIABLES
  owner,   \* "away", "trying" until the connection is set up, "holding" it,
           \* "failing" after an attempt, "closing" after a connection,
           \* "resting" or "stopped"
  alive,   \* is there a connection?
  told,    \* is a report of its loss on the way to an owner that needs it?
  wait,    \* the rest before, since the last connection; or 0
  done,    \* has the owner been told to stop?
  excused  \* the surroundings have done what no owner can make up for

vars == <<owner, alive, told, wait, done, excused>>

Init ==
  /\ owner = "away" /\ alive = FALSE /\ told = FALSE
  /\ wait = 0 /\ done = FALSE /\ excused = FALSE

Smaller(a, b) == IF a <= b THEN a ELSE b

NextWait == IF wait = 0 THEN MinWait ELSE Smaller(2 * wait, MaxWait)

Goes(from, to) == owner \in from /\ owner' \in to

-----------------------------------------------------------------------------
(* The owner.                                                              *)

(* Never with an earlier connection, or the report of its loss, about.     *)
Try ==
  /\ Goes({"away"}, {"trying"})
  /\ ~alive /\ ~told'
  /\ UNCHANGED <<alive, wait>>

(* Setting it up takes a while, and it may be lost meanwhile.              *)
Hold ==
  /\ Goes({"trying"}, {"holding"})
  /\ alive \/ told
  /\ wait' \in {0, wait}
  /\ UNCHANGED <<alive, told>>

(* An attempt that failed may leave a connection to be closed.             *)
Fail ==
  /\ \/ Goes({"trying"}, {"failing"}) /\ alive' \in {alive, TRUE}
     \/ Goes({"trying"}, {"resting"}) /\ ~alive /\ UNCHANGED alive
  /\ told' = FALSE
  /\ UNCHANGED wait

(* A connection is only given up when it is gone, and with its report.     *)
Notice ==
  /\ Goes({"holding"}, {"closing", "away"})
  /\ ~alive /\ told
  /\ told' = FALSE
  /\ UNCHANGED <<alive, wait>>

Leave ==
  /\ done
  /\ Goes({"holding"}, {"closing"})
  /\ told' = FALSE
  /\ UNCHANGED <<alive, wait>>

(* Only a connection that was held makes the next rest a short one.        *)
Finish ==
  /\ ~alive
  /\ \/ Goes({"failing"}, {"resting"}) /\ UNCHANGED wait
     \/ Goes({"closing"}, {"resting"}) /\ wait' \in {0, wait}
  /\ UNCHANGED <<alive, told>>

Rest ==
  /\ Goes({"resting"}, {"away"})
  /\ wait' = NextWait
  /\ UNCHANGED <<alive, told>>

Stop == done /\ owner' = "stopped"

-----------------------------------------------------------------------------
(* The connection.                                                         *)

(* Once per attempt.                                                       *)
Establish ==
  /\ owner = "trying" /\ ~alive /\ ~told
  /\ alive' = TRUE
  /\ UNCHANGED <<owner, told, wait>>

(* The loss of a connection in use is reported.                            *)
Lose ==
  /\ alive
  /\ alive' = FALSE
  /\ told' = (owner \in {"trying", "holding"})
  /\ UNCHANGED <<owner, wait>>

Shutdown == ~done /\ done' = TRUE /\ UNCHANGED <<owner, alive, told, wait>>

Next ==
  \/ /\ Try \/ Hold \/ Fail \/ Notice \/ Leave \/ Finish \/ Rest \/ Stop
          \/ Establish \/ Lose
     /\ UNCHANGED done
  \/ Shutdown
  \/ excused \/ excused'

Spec == Init /\ [][Next]_vars
=============================================================================
