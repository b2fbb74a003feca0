-------------------------------- MODULE Names ---------------------------------
(***************************************************************************)
(* How a desk of the configuration is recognised among the peripherals     *)
(* that a scan reports (bridge.go: matchesDesk, advertisedNames and        *)
(* peripheralName).  A name is a value of Text; what the code does to its  *)
(* characters is given by the constants.                                   *)
(***************************************************************************)

CONSTANTS
  Text,    \* the strings that occur
  Trim,    \* strings.TrimSpace, a function on Text
  Fold,    \* one string for all its spellings in upper and lower case
  Prefix,  \* the pairs of folded strings of which the first begins the second
  Absent   \* a key or a field that is not there

ASSUME TextAssumption ==
  /\ "" \in Text /\ Absent \notin Text
  /\ Trim \in [Text -> Text] /\ Fold \in [Text -> Text]
  /\ Trim[""] = "" /\ \A s \in Text : Trim[Trim[s]] = Trim[s]
  /\ Prefix \subseteq Text \X Text

Blank(s) == Trim[s] = ""

EqualFold(s, t) == Fold[s] = Fold[t]

advertisedNames_PeripheralNameOnly(p) ==
  {Trim[n] : n \in {p.name} \ {Absent}} \ {""}

(* The second name is left out if it is the first in another spelling;     *)
(* matching does not tell the two apart.                                   *)
advertisedNames(p) == {Trim[n] : n \in {p.name, p.local} \ {Absent}} \ {""}

matchesDesk(d, p) ==
  IF ~Blank(d.peripheral_id)
    THEN EqualFold(Trim[d.peripheral_id], p.pid)
    ELSE \E got \in advertisedNames(p) :
           \/ ~Blank(d.name) /\ EqualFold(got, Trim[d.name])
           \/ /\ ~Blank(d.name_prefix)
              /\ <<Fold[Trim[d.name_prefix]], Fold[got]>> \in Prefix

(* The name in a listing.                                                  *)
peripheralName(p) ==
  IF p.name \notin {Absent, ""} THEN p.name
  ELSE IF p.local # Absent THEN p.local ELSE ""
=============================================================================
