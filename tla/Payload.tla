------------------------------- MODULE Payload --------------------------------
(***************************************************************************)
(* What a command's payload says (topics.go: parseTenthsMM, parseNumber,   *)
(* checkRange).  A number is given in tenths, so that 7354 is the payload  *)
(* "735.4"; the result is a height in whole units, as the desk takes it.   *)
(* A parse yields the set of its results: none if the code returns an      *)
(* error, and one otherwise.                                               *)
(***************************************************************************)
EXTENDS Integers

CONSTANTS
  MinInt, MaxInt  \* the ends of the range of int

maxTenthsMM == 65535

ASSUME IntAssumption ==
  MinInt \in Int /\ MaxInt \in Int /\ MinInt < 0 /\ MaxInt > maxTenthsMM

Numbers ==
  [class : {"finite", "nan", "infinite", "huge", "no number"}, tenths : Int]

Finite(t) == [class |-> "finite", tenths |-> t]
NaN  == [class |-> "nan", tenths |-> 0]
Inf  == [class |-> "infinite", tenths |-> 0]
(* A finite number beyond the range of int, of either sign.                *)
Huge == [class |-> "huge", tenths |-> 0]
(* A string that ParseFloat rejects.                                       *)
NotANumber == [class |-> "no number", tenths |-> 0]

(* math.Round: halves go away from zero.                                   *)
Round(t) == IF t >= 0 THEN (t + 5) \div 10 ELSE -((5 - t) \div 10)

Conversions_Truncating(v) ==
  IF v.class = "huge" THEN {MinInt, MaxInt}
  ELSE {IF v.tenths >= 0 THEN v.tenths \div 10 ELSE -((-v.tenths) \div 10)}

(* What int(math.Round(v)) can give: beyond int's range it is up to the    *)
(* machine, and the two that run macOS give one end of the range.          *)
Conversions(v) ==
  IF v.class = "huge" THEN {MinInt, MaxInt} ELSE {Round(v.tenths)}

checkRange_FromZero(v) ==
  IF v.class \in {"nan", "infinite"} THEN {}
  ELSE {n \in Conversions(v) : 0 <= n}

checkRange(v) ==
  IF v.class \in {"nan", "infinite"} THEN {}
  ELSE {n \in Conversions(v) : 0 <= n /\ n <= maxTenthsMM}

parseNumber(v) == IF v.class = "no number" THEN {} ELSE checkRange(v)

(* The fields of a JSON object that are looked for, in this order.         *)
Keys == <<"value", "height", "position", "base_height">>

(* The fields an object has are its domain.  The first decides, even if it *)
(* holds no number.                                                        *)
parseObject(object) ==
  UNION {parseNumber(object[Keys[i]]) :
           i \in {k \in 1..4 : /\ Keys[k] \in DOMAIN object
                               /\ \A j \in 1..(k - 1) :
                                    Keys[j] \notin DOMAIN object}}

(* A payload is a number or a text (plain, both), or a JSON object.        *)
Plain(v) == [form |-> "plain", number |-> v]
Object(fields) == [form |-> "object", fields |-> fields]

parseTenthsMM(payload) ==
  IF payload.form = "plain" THEN parseNumber(payload.number)
                            ELSE parseObject(payload.fields)

-----------------------------------------------------------------------------

(* The number a payload stands for lies within half a unit of what is      *)
(* accepted.                                                               *)
Near(n, t) == 2 * (10 * n - t) \in -10..10

(* A finite number is accepted exactly if, rounded, it is a height the     *)
(* desk can be told, and then the nearest one is taken (topics.go:85-94,   *)
(* 37-42).                                                                 *)
NearestHeight(t) ==
  /\ checkRange(Finite(t)) # {} <=> -4 <= t /\ t <= 655354
  /\ \A n \in checkRange(Finite(t)) :
       0 <= n /\ n <= maxTenthsMM /\ Near(n, t)
=============================================================================
