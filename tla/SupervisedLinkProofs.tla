------------------------- MODULE SupervisedLinkProofs -------------------------
(***************************************************************************)
(* What a reader may conclude from SupervisedLink, and so, by the          *)
(* refinements proved in DeskManagerProofs and MqttClientProofs, of a      *)
(* desk's link and of the broker's connection.                             *)
(***************************************************************************)
EXTENDS SupervisedLink, TLAPS

(* There is nothing to close when the owner is to try or to rest, and      *)
(* nothing reported as lost that is still there; an owner that holds a     *)
(* connection hears of its loss, and of its loss only (desk.go:203-223,    *)
(* 291; mqttc.go:146-151, 167-191).                                        *)
WellInformed ==
  /\ owner \in {"away", "resting"} => ~alive
  /\ owner = "trying" => ~(alive /\ told)
  /\ owner = "holding" => (told <=> ~alive)

LEMMA InformedStep ==
  ASSUME WellInformed, ~excused, ~excused', [Next]_vars
  PROVE  WellInformed'
<1> USE DEF WellInformed, Goes
<1>1. CASE Try BY <1>1 DEF Try
<1>2. CASE Hold BY <1>2 DEF Hold
<1>3. CASE Fail
  <2>1. owner' = "failing" \/ (owner' = "resting" /\ ~alive')
    BY <1>3, Zenon DEF Fail
  <2> QED BY <2>1
<1>4. CASE Notice BY <1>4 DEF Notice
<1>5. CASE Leave BY <1>5 DEF Leave
<1>6. CASE Finish BY <1>6 DEF Finish
<1>7. CASE Rest BY <1>7 DEF Rest
<1>8. CASE Stop BY <1>8 DEF Stop
<1>9. CASE Establish BY <1>9 DEF Establish
<1>10. CASE Lose BY <1>10 DEF Lose
<1>11. CASE Shutdown BY <1>11 DEF Shutdown
<1>12. CASE UNCHANGED vars BY <1>12 DEF vars
<1> QED BY <1>1, <1>2, <1>3, <1>4, <1>5, <1>6, <1>7, <1>8, <1>9, <1>10,
           <1>11, <1>12 DEF Next

(* As long as there is no excuse, the owner and its connection agree.      *)
THEOREM OwnersAreInformed == Spec /\ []~excused => []WellInformed
<1>1. Init => WellInformed BY DEF Init, WellInformed
<1>2. WellInformed /\ ~excused /\ ~excused' /\ [Next]_vars => WellInformed'
  BY InformedStep
<1> QED BY <1>1, <1>2, PTL DEF Spec
=============================================================================
