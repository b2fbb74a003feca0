----------------------------- MODULE ServingProofs -----------------------------
(***************************************************************************)
(* Theorems about Serving and what it is made of: for every configuration, *)
(* payload, interval and sequence of failures.                             *)
(***************************************************************************)
EXTENDS Serving, TLAPS

LEMMA RoundIsNear ==
  ASSUME NEW t \in Int PROVE Round(t) \in Int /\ Near(Round(t), t)
BY SMT DEF Round, Near

(* Every finite number is rounded to the nearest height or refused, for    *)
(* all of them: no rounding error and no wrap-around at either end of the  *)
(* desk's 16 bits (topics.go:85-94).                                       *)
THEOREM EveryNumberIsNearest == \A t \in Int : NearestHeight(t)
<1> SUFFICES ASSUME NEW t \in Int PROVE NearestHeight(t)
  BY SMT
<1>1. \A n : n \in checkRange(Finite(t))
                 <=> n = Round(t) /\ 0 <= n /\ n <= maxTenthsMM
  BY DEF checkRange, Finite, Conversions
<1>2. Round(t) \in Int /\ Near(Round(t), t)
  BY RoundIsNear
<1>3. 0 <= Round(t) /\ Round(t) <= 65535 <=> -4 <= t /\ t <= 655354
  <2>1. CASE t >= 0
    <3>1. Round(t) = (t + 5) \div 10 BY <2>1, SMT DEF Round
    <3> QED BY <2>1, <3>1, SMT
  <2>2. CASE t < 0
    <3>1. Round(t) = -((5 - t) \div 10) BY <2>2, SMT DEF Round
    <3> QED BY <2>2, <3>1, SMT
  <2> QED BY <2>1, <2>2, SMT
<1>4. checkRange(Finite(t)) # {} <=> -4 <= t /\ t <= 655354
  BY <1>1, <1>3, SMT DEF maxTenthsMM
<1>5. \A n \in checkRange(Finite(t)) :
        0 <= n /\ n <= maxTenthsMM /\ Near(n, t)
  BY <1>1, <1>2
<1> QED BY <1>4, <1>5 DEF NearestHeight

-----------------------------------------------------------------------------
(* The topics of an accepted configuration.                                *)

Decoded(c) ==
  /\ c.command \in Seq(Text) \ {<<>>} /\ c.metric \in Seq(Text) \ {<<>>}
  /\ c.desks \in Seq(DeskEntries)
  /\ c.keepAlive \in Int

LEMMA OverlayDecodes ==
  ASSUME NEW base, NEW some, Decoded(base),
         {"command", "metric", "desks", "keepAlive"} \subseteq DOMAIN base,
         WellFormed(some),
         "keepAlive" \in DOMAIN some => some.keepAlive \in Int
  PROVE  /\ Decoded(Overlay(base, some))
         /\ DOMAIN Overlay(base, some) = DOMAIN base
BY DEF Decoded, Overlay, WellFormed

LEMMA LoadDecodes ==
  ASSUME NEW file \in Files, NEW env \in Envs, NEW c \in Load(file, env)
  PROVE  Decoded(c) /\ Validate(c)
<1> DEFINE
      Taken == [k \in DOMAIN env \ {k \in DOMAIN env :
                                      k = "qos" /\ env.qos \notin 0..2}
                  |-> env[k]]
      FromFile == Overlay(DefaultConfig, file.settings)
<1>1. c = Overlay(FromFile, Taken) /\ Validate(c)
  BY DEF Load, Parse, ApplyEnv
<1>2. /\ Decoded(DefaultConfig)
      /\ {"command", "metric", "desks", "keepAlive"}
           \subseteq DOMAIN DefaultConfig
  <2>1. Hour \in Int BY ConfigAssumption
  <2>2. <<"cmd", "linak">> \in Seq(Text) /\ <<"tele", "linak">> \in Seq(Text)
    BY ConfigAssumption
  <2>3. <<"cmd", "linak">> # <<>> /\ <<"tele", "linak">> # <<>>
    OBVIOUS
  <2>4. << >> \in Seq(DeskEntries)
    OBVIOUS
  <2> QED BY <2>1, <2>2, <2>3, <2>4 DEF Decoded, DefaultConfig
<1>3. WellFormed(file.settings) /\ WellFormed(env)
  BY StartupAssumption
<1>4. /\ "keepAlive" \in DOMAIN file.settings
           => file.settings.keepAlive \in Int
      /\ "keepAlive" \in DOMAIN env => env.keepAlive \in Int
  BY ServingAssumption
<1>5. WellFormed(Taken) /\ ("keepAlive" \in DOMAIN Taken
                              => Taken.keepAlive \in Int)
  BY <1>3, <1>4 DEF WellFormed
<1>6. Decoded(FromFile) /\ DOMAIN FromFile = DOMAIN DefaultConfig
  BY <1>2, <1>3, <1>4, OverlayDecodes
<1>7. Decoded(Overlay(FromFile, Taken))
  <2> HIDE DEF FromFile, Taken
  <2> QED BY <1>2, <1>5, <1>6, OverlayDecodes
<1> QED BY <1>1, <1>7

(* Two levels appended to a base can be told from two others.              *)
LEMMA SameTopic ==
  ASSUME NEW S, NEW b \in Seq(S), NEW c \in Seq(S),
         NEW i \in S, NEW j \in S, NEW l \in S, NEW m \in S,
         Joined(b, i, l) = Joined(c, j, m)
  PROVE  b = c /\ i = j /\ l = m
<1> DEFINE s == b \o <<i, l>>
           t == c \o <<j, m>>
<1>1. s = t
  BY DEF Joined
<1>2. Len(s) = Len(b) + 2 /\ Len(t) = Len(c) + 2
  OBVIOUS
<1>3. Len(b) = Len(c)
  BY <1>1, <1>2
<1>4. /\ s[Len(b) + 1] = i /\ s[Len(b) + 2] = l
      /\ t[Len(c) + 1] = j /\ t[Len(c) + 2] = m
  OBVIOUS
<1>5. \A k \in 1..Len(b) : b[k] = s[k]
  OBVIOUS
<1>6. \A k \in 1..Len(c) : c[k] = t[k]
  OBVIOUS
<1> HIDE DEF s, t
<1> QED BY <1>1, <1>3, <1>4, <1>5, <1>6

(* What validation asks of the bases and of the desks' ids.                *)
LEMMA LevelsOf ==
  ASSUME NEW c, Decoded(c), Validate(c)
  PROVE  /\ \A d \in DesksOf(c) :
              /\ c.desks[d].id \in Text \ (Wild \cup {ReservedDeskID})
              /\ \A e \in DesksOf(c) :
                   c.desks[d].id = c.desks[e].id => d = e
         /\ \A i \in 1..Len(c.command) : c.command[i] \notin Wild
<1>1. ASSUME NEW d \in DesksOf(c)
      PROVE  c.desks[d].id \in Text \ (Wild \cup {ReservedDeskID})
  <2>1. c.desks[d].id \in Text
    <3>1. c.desks[d] \in DeskEntries
      BY DEF Decoded, DesksOf
    <3> QED BY <3>1 DEF DeskEntries
  <2>2. validDeskID(c.desks[d].id)
    BY <1>1 DEF Validate, validDesks, DesksOf
  <2> QED BY <2>1, <2>2 DEF validDeskID
<1>2. ASSUME NEW d \in DesksOf(c), NEW e \in DesksOf(c), d < e
      PROVE  c.desks[d].id # c.desks[e].id
  <2>1. d \in 1..(e - 1) /\ e \in 1..Len(c.desks)
    BY <1>2 DEF DesksOf, Decoded
  <2> QED BY <2>1 DEF Validate, validDesks
<1>3. ASSUME NEW d \in DesksOf(c), NEW e \in DesksOf(c),
             c.desks[d].id = c.desks[e].id
      PROVE  d = e
  <2>1. d \in Int /\ e \in Int
    BY DEF DesksOf, Decoded
  <2>2. d < e \/ e < d \/ d = e
    BY <2>1
  <2> QED BY <1>2, <1>3, <2>2
<1>4. \A i \in 1..Len(c.command) : c.command[i] \notin Wild
  BY DEF Validate, validTopicBase
<1> QED BY <1>1, <1>3, <1>4

LEMMA ValidatedApart ==
  ASSUME NEW c, Decoded(c), Validate(c)
  PROVE  TopicsApart(c)
<1> DEFINE S == Text \cup MetricLeaves \cup {ReservedDeskID}
<1>1. c.command \in Seq(S) /\ c.metric \in Seq(S)
  BY DEF Decoded
<1>2. MetricLeaves \subseteq S /\ CommandLeaves \subseteq MetricLeaves
        /\ ReservedDeskID \in S /\ "availability" \in MetricLeaves
  BY DEF MetricLeaves
<1>3. \A d \in DesksOf(c) : c.desks[d].id \in S
  BY LevelsOf
<1> HIDE DEF S
<1>4. ASSUME NEW d \in DesksOf(c), NEW e \in DesksOf(c),
             NEW l \in MetricLeaves, NEW m \in MetricLeaves
      PROVE  /\ metricTopic(c, c.desks[d].id, l)
                  = metricTopic(c, c.desks[e].id, m) => d = e /\ l = m
             /\ commandTopic(c, c.desks[d].id, l)
                  = commandTopic(c, c.desks[e].id, m) => d = e /\ l = m
             /\ metricTopic(c, c.desks[d].id, l) # bridgeAvailabilityTopic(c)
  <2>1. c.desks[d].id = c.desks[e].id => d = e
    BY LevelsOf
  <2>2. c.desks[d].id # ReservedDeskID
    BY LevelsOf
  <2> QED BY <1>1, <1>2, <1>3, <2>1, <2>2, SameTopic
          DEF metricTopic, commandTopic, bridgeAvailabilityTopic
<1>5. ASSUME NEW d \in DesksOf(c), NEW l \in CommandLeaves,
             NEW i \in 1..(Len(commandTopic(c, c.desks[d].id, l)) - 1)
      PROVE  commandTopic(c, c.desks[d].id, l)[i] \notin Wild
  <2>1. c.desks[d].id \notin Wild
    BY LevelsOf
  <2>2. \A k \in 1..Len(c.command) : c.command[k] \notin Wild
    BY LevelsOf
  <2>3. i \in 1..(Len(c.command) + 1)
    BY <1>1, <1>2, <1>3 DEF commandTopic, Joined
  <2> QED BY <1>1, <1>2, <1>3, <2>1, <2>2, <2>3 DEF commandTopic, Joined
<1>6. ASSUME c.command # c.metric
      PROVE  CommandTopics(c) \cap MetricTopics(c) = {}
  <2> SUFFICES ASSUME NEW d \in DesksOf(c), NEW l \in CommandLeaves,
                      commandTopic(c, c.desks[d].id, l) \in MetricTopics(c)
               PROVE  FALSE
    BY DEF CommandTopics
  <2>1. PICK id \in S, m \in MetricLeaves :
          commandTopic(c, c.desks[d].id, l) = metricTopic(c, id, m)
    <3>1. CASE commandTopic(c, c.desks[d].id, l) = bridgeAvailabilityTopic(c)
      BY <1>2, <3>1 DEF bridgeAvailabilityTopic
    <3>2. CASE \E e \in DesksOf(c), m \in MetricLeaves :
                 commandTopic(c, c.desks[d].id, l)
                   = metricTopic(c, c.desks[e].id, m)
      BY <1>3, <3>2
    <3> QED BY <3>1, <3>2 DEF MetricTopics
  <2> QED BY <1>1, <1>2, <1>3, <1>6, <2>1, SameTopic
          DEF metricTopic, commandTopic
<1> QED BY <1>4, <1>5, <1>6 DEF TopicsApart, CommandTopics

CfgAccepted ==
  pc \in {"starting", "running"} => Decoded(cfg) /\ Validate(cfg)

LEMMA CfgStaysAccepted == CfgAccepted /\ [Next]_vars => CfgAccepted'
<1> SUFFICES ASSUME CfgAccepted, [Next]_vars PROVE CfgAccepted'
  OBVIOUS
<1>1. CASE LoadConfig
  <2>1. CASE pc' = "exited"
    BY <2>1 DEF CfgAccepted
  <2>2. CASE pc' # "exited"
    <3>1. PICK file \in Files, env \in Envs : cfg' \in Load(file, env)
      BY <1>1, <2>2 DEF LoadConfig, Exit
    <3> QED BY <3>1, LoadDecodes DEF CfgAccepted
  <2> QED BY <2>1, <2>2
<1>2. CASE UNCHANGED <<pc, cfg>>
  BY <1>2 DEF CfgAccepted
<1>3. CASE ReadFlags \/ StartBridge \/ Stopped \/ BeginInventory
  BY <1>3 DEF ReadFlags, StartBridge, Stopped, BeginInventory, Exit, Goes,
              CfgAccepted
<1>4. ASSUME NEW cut \in BOOLEAN, EndInventory(cut) PROVE CfgAccepted'
  BY <1>4 DEF EndInventory, Exit, CfgAccepted
<1>5. ASSUME NEW p \in Adverts, Hear(p) PROVE UNCHANGED <<pc, cfg>>
  BY <1>5 DEF Hear
<1>6. Serve => UNCHANGED startupVars
  BY DEF Serve, Submit, Connect, ReadBaseHeight, Minute, Drop, Apply, CheckIdle
<1> QED BY <1>1, <1>2, <1>3, <1>4, <1>5, <1>6
        DEF Next, StartupNext, Inventory, startupVars, vars

LEMMA CfgIsAccepted == Spec => []CfgAccepted
<1>1. Init => CfgAccepted
  BY DEF Init, StartupInit, CfgAccepted
<1> QED BY <1>1, CfgStaysAccepted, PTL DEF Spec

(* No accepted configuration, of any file and environment, mixes up two    *)
(* desks' topics, the bridge's own or, unless the bases are the same, what *)
(* it hears with what it says (config.go:250-327; topics.go:18-27).        *)
THEOREM TopicsStayApart == Spec => []TopicsKeptApart
<1>1. CfgAccepted => TopicsKeptApart
  BY ValidatedApart DEF CfgAccepted, TopicsKeptApart
<1> QED BY <1>1, CfgIsAccepted, PTL

-----------------------------------------------------------------------------
(* Commands.                                                               *)

LEMMA NumberMeant ==
  ASSUME NEW v \in Numbers, NEW n \in parseNumber(v)
  PROVE  n \in Int /\ Meant(n, v)
<1>1. /\ v.class \in {"finite", "nan", "infinite", "huge", "no number"}
      /\ v.tenths \in Int
  BY DEF Numbers
<1>2. /\ v.class \notin {"no number", "nan", "infinite"}
      /\ n \in Conversions(v) /\ 0 <= n /\ n <= maxTenthsMM
  BY DEF parseNumber, checkRange
<1>3. v.class # "huge"
  <2>1. maxTenthsMM \in Int
    BY DEF maxTenthsMM
  <2>2. ~(0 <= MinInt) /\ ~(MaxInt <= maxTenthsMM)
    BY <2>1, IntAssumption
  <2>3. v.class = "huge" => n = MinInt \/ n = MaxInt
    BY <1>2, Zenon DEF Conversions
  <2> QED BY <1>2, <2>2, <2>3
<1>4. v.class = "finite" /\ n = Round(v.tenths)
  <2>1. v.class = "finite"
    BY <1>1, <1>2, <1>3
  <2>2. n = Round(v.tenths)
    BY <1>2, <1>3, Zenon DEF Conversions
  <2> QED BY <2>1, <2>2
<1>5. Round(v.tenths) \in Int /\ Near(Round(v.tenths), v.tenths)
  BY <1>1, RoundIsNear
<1> QED BY <1>2, <1>4, <1>5 DEF Meant

LEMMA ParsedMeant ==
  ASSUME NEW payload \in Payloads, NEW n \in parseTenthsMM(payload)
  PROVE  n \in Int /\ Meant(n, Given(payload))
<1>1. CASE payload.form = "plain"
  BY <1>1, ServingAssumption, NumberMeant DEF parseTenthsMM, Given
<1>2. CASE payload.form # "plain"
  <2> DEFINE fields == payload.fields
             First(i) == /\ Keys[i] \in DOMAIN fields
                         /\ \A j \in 1..(i - 1) : Keys[j] \notin DOMAIN fields
  <2>1. PICK i \in 1..4 : First(i) /\ n \in parseNumber(fields[Keys[i]])
    BY <1>2 DEF parseTenthsMM, parseObject
  <2>2. Deciding(fields) \in 1..4 /\ First(Deciding(fields))
    BY <2>1 DEF Deciding
  <2>3. Deciding(fields) = i
    <3>1. ~(i < Deciding(fields)) /\ ~(Deciding(fields) < i)
      BY <2>1, <2>2
    <3> QED BY <2>1, <2>2, <3>1
  <2>4. fields[Keys[i]] \in Numbers
    BY <1>2, <2>1, ServingAssumption
  <2> QED BY <1>2, <2>1, <2>3, <2>4, NumberMeant DEF Given
<1> QED BY <1>1, <1>2

CommandInv ==
  /\ commands \in Seq(Commands)
  /\ CommandsMeanWhatWasSent

LEMMA CommandStep == CommandInv /\ [Next]_vars => CommandInv'
<1> SUFFICES ASSUME CommandInv, [Next]_vars PROVE CommandInv'
  OBVIOUS
<1>1. ASSUME NEW kind \in CommandLeaves, NEW payload \in Payloads,
             Submit(kind, payload)
      PROVE  CommandInv'
  <2>1. PICK n \in parseTenthsMM(payload) :
          commands' = Append(commands, [kind |-> kind, value |-> n,
                                        payload |-> payload])
    BY <1>1 DEF Submit
  <2> DEFINE new == [kind |-> kind, value |-> n, payload |-> payload]
  <2>2. n \in Int /\ Meant(n, Given(payload))
    BY ParsedMeant
  <2>3. new \in Commands
    <3>1. maxTenthsMM \in Int
      BY DEF maxTenthsMM
    <3>2. n \in 0..maxTenthsMM
      BY <2>2, <3>1 DEF Meant
    <3> QED BY <3>2 DEF Commands
  <2>4. Meant(new.value, Given(new.payload))
    BY <2>2
  <2>0. commands' = Append(commands, new)
    BY <2>1
  <2> HIDE DEF new
  <2>5. commands' \in Seq(Commands)
    BY <2>0, <2>3 DEF CommandInv
  <2>6. ASSUME NEW i \in 1..Len(commands')
        PROVE  \/ commands'[i] = new
               \/ i \in 1..Len(commands) /\ commands'[i] = commands[i]
    <3>1. commands \in Seq(Commands)
      BY DEF CommandInv
    <3>2. Len(commands') = Len(commands) + 1
      BY <2>0, <3>1
    <3>3. CASE i = Len(commands) + 1
      BY <2>0, <3>1, <3>3
    <3>4. CASE i \in 1..Len(commands)
      BY <2>0, <3>1, <3>4
    <3> QED BY <3>1, <3>2, <3>3, <3>4
  <2> QED BY <2>4, <2>5, <2>6 DEF CommandInv, CommandsMeanWhatWasSent
<1>2. ASSUME NEW ok \in BOOLEAN, Apply(ok) PROVE CommandInv'
  <2>1. commands # <<>> /\ commands' = Tail(commands)
    BY <1>2 DEF Apply
  <2>2. \A i \in 1..Len(commands') :
          i + 1 \in 1..Len(commands) /\ commands'[i] = commands[i + 1]
    BY <2>1 DEF CommandInv
  <2> QED BY <2>1, <2>2 DEF CommandInv, CommandsMeanWhatWasSent
<1>3. CASE UNCHANGED commands
  BY <1>3 DEF CommandInv, CommandsMeanWhatWasSent
<1>4. ASSUME NEW ok \in BOOLEAN, CheckIdle(ok) PROVE UNCHANGED commands
  BY <1>4 DEF CheckIdle
<1>5. Connect \/ ReadBaseHeight \/ Minute \/ Drop => UNCHANGED commands
  BY DEF Connect, ReadBaseHeight, Minute, Drop
<1> QED BY <1>1, <1>2, <1>3, <1>4, <1>5
        DEF Next, Serve, servingVars, loopVars, vars

LEMMA CommandInvariance == Spec => []CommandInv
<1>1. Init => CommandInv
  BY DEF Init, CommandInv, CommandsMeanWhatWasSent
<1> QED BY <1>1, CommandStep, PTL DEF Spec

(* Whatever payloads arrive, of any value and form, the desk is only ever  *)
(* told the height nearest to the number sent (topics.go:43-94;            *)
(* desk.go:545-580).                                                       *)
THEOREM CommandsAreMeant == Spec => []CommandsMeanWhatWasSent
<1>1. CommandInv => CommandsMeanWhatWasSent
  BY DEF CommandInv
<1> QED BY <1>1, CommandInvariance, PTL

-----------------------------------------------------------------------------
(* The keepalive.                                                          *)

(* A desk is served by a bridge that runs.                                 *)
Running == Connected => pc = "running"

Hidden == failures * (Interval + MaxLag) + MaxLag

TypeInv ==
  /\ tick \in BOOLEAN /\ lag \in 0..MaxLag
  /\ idle \in Nat /\ silence \in Nat /\ failures \in Nat
  /\ place \in {"away", "opening", "serving", "reading"}

Ticking == place \in {"serving", "reading"} /\ lag > 0 => tick

(* Reading the base height hides only the time since the write, or the     *)
(* connect, before it.                                                     *)
FreshlyHeard ==
  place \in {"opening", "reading"} =>
    failures = 0 /\ silence = idle /\ idle <= lag

(* Between two attempts the loop is idle for less than the interval, and   *)
(* for what it was kept waiting once the ticker has fired.                 *)
IdleInTime ==
  place = "serving" /\ Interval > 0 =>
    /\ tick => idle <= Interval + lag
    /\ ~tick => idle < Interval

(* The desk's timer is ahead of the loop's by what the failed attempts     *)
(* since the last one it heard have hidden.                                *)
SilenceInTime ==
  place = "serving" /\ Interval > 0 => silence <= idle + Hidden

Paced == TypeInv /\ Ticking /\ FreshlyHeard /\ IdleInTime /\ SilenceInTime

Inv == CfgAccepted /\ Running /\ Paced

LEMMA InitPaced == Init => Inv
<1> SUFFICES ASSUME Init PROVE Inv
  OBVIOUS
<1>1. tick \in BOOLEAN BY DEF Init
<1>2. lag \in 0..MaxLag BY ServingAssumption DEF Init
<1> QED BY <1>1, <1>2
        DEF Init, StartupInit, Inv, CfgAccepted, Running, Connected, Paced,
            TypeInv, Ticking, FreshlyHeard, IdleInTime, SilenceInTime

LEMMA OneFailureMore ==
  ASSUME NEW n \in Nat, NEW i \in Int
  PROVE  (n + 1) * (i + MaxLag) = n * (i + MaxLag) + i + MaxLag
BY ServingAssumption

(* What an attempt, heard or not, makes of the clocks.                     *)
LEMMA AttemptPaces ==
  ASSUME Paced, place = "serving", Interval \in Int, Interval' = Interval,
         NEW ok \in BOOLEAN, Write(ok)
  PROVE  /\ idle' = 0 /\ silence' \in Nat /\ failures' \in Nat
         /\ Interval > 0 => silence' <= Hidden'
         /\ ok => silence' = 0 /\ failures' = 0
<1> USE ServingAssumption
<1>1. idle' = 0 /\ silence' \in Nat /\ failures' \in Nat
  BY DEF Write, Paced, TypeInv
<1>2. ok => silence' = 0 /\ failures' = 0
  BY DEF Write
<1>3. ASSUME Interval > 0 PROVE silence' <= Hidden'
  <2>1. CASE ok
    <3>1. 0 * (Interval + MaxLag) = 0
      OBVIOUS
    <3> QED BY <1>2, <2>1, <3>1 DEF Hidden
  <2>2. CASE ~ok
    <3>1. Hidden \in Int
      BY DEF Hidden, Paced, TypeInv
    <3>2. Hidden' = Hidden + Interval + MaxLag
      <4>1. failures' = failures + 1
        BY <2>2 DEF Write
      <4>2. failures' * (Interval + MaxLag)
              = failures * (Interval + MaxLag) + Interval + MaxLag
        BY <4>1, OneFailureMore DEF Paced, TypeInv
      <4> DEFINE F == failures * (Interval + MaxLag)
                 G == failures' * (Interval + MaxLag)
      <4>3. F \in Int /\ G = F + Interval + MaxLag
        BY <4>2 DEF Paced, TypeInv
      <4>4. Hidden = F + MaxLag /\ Hidden' = G + MaxLag
        BY DEF Hidden
      <4> HIDE DEF F, G
      <4> QED BY <4>3, <4>4
    <3>3. idle <= Interval + MaxLag /\ silence <= idle + Hidden
      BY <1>3 DEF Paced, TypeInv, IdleInTime, SilenceInTime
    <3>4. silence' = silence
      BY <2>2 DEF Write
    <3> QED BY <3>1, <3>2, <3>3, <3>4 DEF Paced, TypeInv
  <2> QED BY <2>1, <2>2
<1> QED BY <1>1, <1>2, <1>3

LEMMA ApplyPaces ==
  ASSUME Paced, Interval \in Int, Interval' = Interval, NEW ok \in BOOLEAN,
         Apply(ok)
  PROVE  Paced'
<1> USE ServingAssumption
<1>1. /\ Write(ok) /\ tick' = tick /\ lag' = lag /\ place = "serving"
      /\ place' \in {"serving", "reading"}
      /\ ~ok => place' = "serving"
  <2>1. CASE ok
    BY <2>1 DEF Apply
  <2>2. CASE ~ok
    BY <2>2 DEF Apply
  <2> QED BY <2>1, <2>2
<1>2. /\ idle' = 0 /\ silence' \in Nat /\ failures' \in Nat
      /\ Interval > 0 => silence' <= Hidden'
      /\ ok => silence' = 0 /\ failures' = 0
  BY <1>1, AttemptPaces
<1>3. TypeInv' /\ Ticking'
  BY <1>1, <1>2 DEF Paced, TypeInv, Ticking
<1>4. FreshlyHeard'
  BY <1>1, <1>2, <1>3 DEF FreshlyHeard, TypeInv
<1>5. IdleInTime'
  BY <1>1, <1>2, <1>3 DEF IdleInTime, TypeInv
<1>6. SilenceInTime'
  <2>1. Interval > 0 => Hidden' \in Int
    BY <1>2 DEF Hidden
  <2> QED BY <1>2, <2>1 DEF SilenceInTime
<1> QED BY <1>3, <1>4, <1>5, <1>6 DEF Paced

LEMMA CheckPaces ==
  ASSUME Paced, Interval \in Int, Interval' = Interval, NEW ok \in BOOLEAN,
         CheckIdle(ok)
  PROVE  Paced'
<1> USE ServingAssumption
<1>1. tick' = FALSE /\ lag' = 0 /\ place = "serving" /\ place' = "serving"
  BY DEF CheckIdle
<1>2. CASE Interval <= 0 \/ idle < Interval
  <2>1. idle' = idle /\ silence' = silence /\ failures' = failures
    BY <1>2 DEF CheckIdle, clockVars
  <2>2. TypeInv'
    <3>1. tick' \in BOOLEAN
      BY <1>1
    <3> QED BY <1>1, <2>1, <3>1 DEF Paced, TypeInv
  <2>3. Ticking' /\ FreshlyHeard'
    BY <1>1 DEF Ticking, FreshlyHeard
  <2>4. IdleInTime'
    BY <1>1, <1>2, <2>1 DEF Paced, TypeInv, IdleInTime
  <2>5. SilenceInTime'
    BY <1>1, <2>1 DEF Paced, SilenceInTime, Hidden
  <2> QED BY <2>2, <2>3, <2>4, <2>5 DEF Paced
<1>3. CASE ~(Interval <= 0 \/ idle < Interval)
  <2>1. /\ idle' = 0 /\ silence' \in Nat /\ failures' \in Nat
        /\ Interval > 0 => silence' <= Hidden'
    BY <1>1, <1>3, AttemptPaces DEF CheckIdle
  <2>2. TypeInv'
    <3>1. tick' \in BOOLEAN
      BY <1>1
    <3> QED BY <1>1, <2>1, <3>1 DEF TypeInv
  <2>3. Ticking' /\ FreshlyHeard'
    BY <1>1 DEF Ticking, FreshlyHeard
  <2>4. IdleInTime'
    BY <1>1, <2>1 DEF IdleInTime
  <2>5. SilenceInTime'
    <3>1. Hidden' \in Int
      BY <2>1 DEF Hidden
    <3>2. ASSUME NEW h \in Int, silence' <= h PROVE silence' <= idle' + h
      BY <2>1, <3>2
    <3>3. Interval > 0 => silence' <= idle' + Hidden'
      BY <2>1, <3>1, <3>2
    <3> QED BY <3>3 DEF SilenceInTime
  <2> QED BY <2>2, <2>3, <2>4, <2>5 DEF Paced
<1> QED BY <1>2, <1>3

LEMMA ReadPaces ==
  ASSUME Paced, Interval \in Int, Interval' = Interval, ReadBaseHeight
  PROVE  Paced'
<1> USE ServingAssumption
<1>1. /\ idle' = 0 /\ silence' = silence /\ failures' = failures
      /\ place \in {"opening", "reading"} /\ place' = "serving"
      /\ tick' = tick /\ lag' = IF tick THEN lag ELSE 0
  BY DEF ReadBaseHeight, Read
<1>2. failures = 0 /\ silence <= MaxLag
  BY <1>1 DEF Paced, FreshlyHeard, TypeInv
<1>3. TypeInv' /\ Ticking'
  BY <1>1 DEF Paced, TypeInv, Ticking
<1>4. FreshlyHeard' /\ IdleInTime'
  BY <1>1, <1>3 DEF FreshlyHeard, IdleInTime, TypeInv
<1>5. SilenceInTime'
  <2>1. failures' * (Interval + MaxLag) = 0
    BY <1>1, <1>2
  <2>2. Hidden' = MaxLag
    BY <2>1 DEF Hidden
  <2> QED BY <1>1, <1>2, <2>2 DEF SilenceInTime, Paced, TypeInv
<1> QED BY <1>3, <1>4, <1>5 DEF Paced

LEMMA MinutePaces ==
  ASSUME Paced, Interval \in Int, Interval' = Interval, Minute
  PROVE  Paced'
<1> USE ServingAssumption
<1>1. /\ idle' = idle + 1 /\ silence' = silence + 1
      /\ place' = place /\ place # "away" /\ failures' = failures
      /\ tick' = (place # "opening")
  BY DEF Minute, Connected
<1>2. /\ (tick \/ place # "serving") => lag < MaxLag /\ lag' = lag + 1
      /\ ~(tick \/ place # "serving") => lag' = 0
  BY DEF Minute
<1>3. tick' \in BOOLEAN
  BY <1>1
<1>4. TypeInv'
  BY <1>1, <1>2, <1>3 DEF Paced, TypeInv
<1>5. Ticking'
  BY <1>1 DEF Ticking
<1>6. FreshlyHeard'
  BY <1>1, <1>2 DEF Paced, TypeInv, FreshlyHeard
<1>7. IdleInTime'
  <2> SUFFICES ASSUME place = "serving", Interval > 0
               PROVE  idle' <= Interval + lag'
    BY <1>1 DEF IdleInTime
  <2>1. CASE tick
    BY <1>1, <1>2, <2>1 DEF Paced, TypeInv, IdleInTime
  <2>2. CASE ~tick
    BY <1>1, <1>2, <2>2 DEF Paced, TypeInv, IdleInTime
  <2> QED BY <2>1, <2>2
<1>8. SilenceInTime'
  <2>1. Hidden' = Hidden /\ Hidden \in Int
    BY <1>1 DEF Hidden, Paced, TypeInv
  <2> QED BY <1>1, <2>1 DEF Paced, TypeInv, SilenceInTime
<1> QED BY <1>4, <1>5, <1>6, <1>7, <1>8 DEF Paced

(* Coming, going and submitting leave the clocks alone or start afresh.    *)
LEMMA OtherPaces ==
  ASSUME Paced, Interval' = Interval,
         \/ Connect \/ Drop
         \/ \E kind \in CommandLeaves, payload \in Payloads :
              Submit(kind, payload)
  PROVE  Paced'
<1> USE ServingAssumption
<1>1. CASE Connect
  <2>1. /\ place' = "opening" /\ tick' = FALSE /\ lag' = 0
        /\ idle' = 0 /\ silence' = 0 /\ failures' = 0
    BY <1>1 DEF Connect
  <2>2. tick' \in BOOLEAN
    BY <2>1
  <2> QED BY <2>1, <2>2 DEF Paced, TypeInv, Ticking, FreshlyHeard, IdleInTime,
                      SilenceInTime
<1>2. CASE Drop
  <2>1. place' = "away" /\ tick' = FALSE /\ lag' = 0 /\ UNCHANGED clockVars
    BY <1>2 DEF Drop
  <2>2. tick' \in BOOLEAN
    BY <2>1
  <2> QED BY <2>1, <2>2 DEF Paced, TypeInv, Ticking, FreshlyHeard, IdleInTime,
                      SilenceInTime, clockVars
<1>3. ASSUME NEW kind \in CommandLeaves, NEW payload \in Payloads,
             Submit(kind, payload)
      PROVE  Paced'
  BY <1>3 DEF Submit, Paced, TypeInv, Ticking, FreshlyHeard, IdleInTime,
              SilenceInTime, Hidden, clockVars
<1> QED BY <1>1, <1>2, <1>3

LEMMA InvStep == Inv /\ [Next]_vars => Inv'
<1> SUFFICES ASSUME Inv, [Next]_vars PROVE Inv'
  OBVIOUS
<1>1. CfgAccepted'
  BY CfgStaysAccepted DEF Inv
<1>2. CASE Serve
  <2>1. UNCHANGED startupVars
    BY <1>2 DEF Serve, Submit, Connect, ReadBaseHeight, Minute, Drop, Apply,
                CheckIdle
  <2>2. Connected => Interval \in Int
    BY DEF Inv, Running, CfgAccepted, Decoded, Interval
  <2>3. Running'
    BY <1>2, <2>1 DEF Inv, Running, Connected, startupVars, Serve, Submit,
         Connect, ReadBaseHeight, Minute, Drop, Apply, CheckIdle
  <2>4. Interval' = Interval
    BY <2>1 DEF startupVars, Interval
  <2>5. Paced'
    <3>1. ASSUME NEW ok \in BOOLEAN, Apply(ok) \/ CheckIdle(ok) PROVE Paced'
      <4>1. Interval \in Int
        BY <2>2, <3>1 DEF Apply, CheckIdle, Connected
      <4> QED BY <2>4, <3>1, <4>1, ApplyPaces, CheckPaces DEF Inv
    <3>2. ASSUME ReadBaseHeight \/ Minute PROVE Paced'
      <4>1. Interval \in Int
        BY <2>2, <3>2 DEF ReadBaseHeight, Minute, Connected
      <4> QED BY <2>4, <3>2, <4>1, ReadPaces, MinutePaces DEF Inv
    <3> QED BY <1>2, <2>4, <3>1, <3>2, OtherPaces DEF Serve, Inv
  <2> QED BY <1>1, <2>3, <2>5 DEF Inv
<1>3. CASE UNCHANGED servingVars /\ ~Connected
  BY <1>1, <1>3 DEF Inv, Running, Connected, Paced, TypeInv, Ticking,
       FreshlyHeard, IdleInTime, SilenceInTime, servingVars, loopVars, clockVars
<1>4. CASE UNCHANGED vars
  BY <1>1, <1>4 DEF Inv, Running, Connected, Paced, TypeInv, Ticking,
       FreshlyHeard, IdleInTime, SilenceInTime, Hidden, Interval, servingVars,
       loopVars, clockVars, startupVars, vars
<1> QED BY <1>2, <1>3, <1>4 DEF Next

LEMMA InvHolds == Spec => []Inv
BY InitPaced, InvStep, PTL DEF Spec

(* For every interval, deadline and time the calls take, a connection is   *)
(* never silent up to the deadline as long as the attempts that failed fit *)
(* before it (config.go:112-119; desk.go:308-325, 413-454).                *)
THEOREM SilenceIsShort == Spec => []NeverSilentTooLong
<1>1. Inv => NeverSilentTooLong
  <2> SUFFICES ASSUME Inv, Connected, Interval > 0,
                      (failures + 1) * (Interval + MaxLag) + MaxLag < Deadline
               PROVE  silence < Deadline
    BY DEF NeverSilentTooLong
  <2> USE ServingAssumption, ConfigAssumption DEF Deadline
  <2>1. Interval \in Int /\ Paced
    BY DEF Inv, Running, CfgAccepted, Decoded, Interval
  <2> DEFINE F == failures * (Interval + MaxLag)
             G == (failures + 1) * (Interval + MaxLag)
  <2>2. F \in Int /\ G \in Int /\ F >= 0
    BY <2>1 DEF Paced, TypeInv
  <2>3. G = F + Interval + MaxLag
    BY <2>1, OneFailureMore DEF Paced, TypeInv
  <2>4. G + MaxLag < Deadline
    OBVIOUS
  <2>5. Hidden = F + MaxLag
    BY DEF Hidden
  <2> HIDE DEF F, G
  <2>6. CASE place = "serving"
    <3>1. idle <= Interval + MaxLag /\ silence <= idle + Hidden
      BY <2>1, <2>6 DEF Paced, TypeInv, IdleInTime, SilenceInTime
    <3> QED BY <2>1, <2>2, <2>3, <2>4, <2>5, <3>1 DEF Paced, TypeInv
  <2>7. CASE place # "serving"
    <3>1. silence <= MaxLag
      BY <2>1, <2>7 DEF Paced, TypeInv, FreshlyHeard, Connected
    <3> QED BY <2>1, <2>2, <2>3, <2>4, <3>1 DEF Paced, TypeInv
  <2> QED BY <2>6, <2>7
<1> QED BY <1>1, InvHolds, PTL
-----------------------------------------------------------------------------
(* Types.                                                                  *)

StageOK == pc \in Stages /\ status \in {None, 0, 1, 2}

LEMMA StageStep == StageOK /\ [Next]_vars => StageOK'
<1> SUFFICES ASSUME StageOK, [Next]_vars PROVE StageOK'
  OBVIOUS
<1> USE DEF StageOK, Stages, Exit, Goes
<1>1. CASE ReadFlags \/ LoadConfig \/ StartBridge \/ Stopped
  BY <1>1 DEF ReadFlags, LoadConfig, StartBridge, Stopped
<1>2. CASE Inventory
  BY <1>2 DEF Inventory, BeginInventory, Hear, EndInventory
<1>3. CASE Serve \/ UNCHANGED vars
  <2>1. UNCHANGED <<pc, status>>
    BY <1>3 DEF Serve, Submit, Connect, ReadBaseHeight, Minute, Drop, Apply,
                CheckIdle, startupVars, vars
  <2> QED BY <2>1
<1> QED BY <1>1, <1>2, <1>3 DEF Next, StartupNext

QueueBounded == commands \in Seq(Commands) /\ Len(commands) <= QueueCap

LEMMA QueueStep == CommandInv /\ QueueBounded /\ [Next]_vars => QueueBounded'
<1> SUFFICES ASSUME CommandInv, QueueBounded, [Next]_vars PROVE QueueBounded'
  OBVIOUS
<1>1. commands' \in Seq(Commands)
  BY CommandStep DEF CommandInv
<1>2. ASSUME NEW kind \in CommandLeaves, NEW payload \in Payloads,
             Submit(kind, payload)
      PROVE  Len(commands') <= QueueCap
  <2>1. PICK n : commands' = Append(commands, [kind |-> kind, value |-> n,
                                               payload |-> payload])
    BY <1>2 DEF Submit
  <2>2. Len(commands') = Len(commands) + 1
    BY <2>1 DEF QueueBounded
  <2> QED BY <1>2, <2>2, ServingAssumption DEF Submit, QueueBounded
<1>3. ASSUME NEW ok \in BOOLEAN, Apply(ok) PROVE Len(commands') <= QueueCap
  <2>1. commands # <<>> /\ commands' = Tail(commands)
    BY <1>3 DEF Apply
  <2>2. Len(commands') = Len(commands) - 1 /\ Len(commands) \in Nat
    BY <2>1 DEF QueueBounded
  <2> QED BY <2>2, ServingAssumption DEF QueueBounded
<1>4. CASE UNCHANGED commands
  BY <1>1, <1>4 DEF QueueBounded
<1>5. ASSUME NEW ok \in BOOLEAN, CheckIdle(ok) PROVE UNCHANGED commands
  BY <1>5 DEF CheckIdle
<1>6. Connect \/ ReadBaseHeight \/ Minute \/ Drop => UNCHANGED commands
  BY DEF Connect, ReadBaseHeight, Minute, Drop
<1> QED BY <1>1, <1>2, <1>3, <1>4, <1>5, <1>6
        DEF Next, Serve, servingVars, loopVars, vars, QueueBounded

(* The loop never believes the desk has been silent for longer than it     *)
(* has: with that the clocks stay below the deadline together.             *)
ClocksOK ==
  /\ place \in {"away", "opening", "serving", "reading"}
  /\ tick \in BOOLEAN /\ lag \in 0..MaxLag
  /\ idle \in 0..Deadline /\ silence \in 0..Deadline /\ idle <= silence
  /\ failures \in 0..MaxFailures

LEMMA ClocksStep == ClocksOK /\ [Next]_vars => ClocksOK'
<1> SUFFICES ASSUME ClocksOK, [Next]_vars PROVE ClocksOK'
  OBVIOUS
<1> USE ServingAssumption
<1>0. Deadline \in Nat
  BY ConfigAssumption DEF Deadline
<1>1. ASSUME NEW ok \in BOOLEAN, Write(ok)
      PROVE  /\ idle' \in 0..Deadline /\ silence' \in 0..Deadline
             /\ idle' <= silence' /\ failures' \in 0..MaxFailures
  BY <1>0, <1>1 DEF Write, ClocksOK
<1>2. Read => /\ idle' \in 0..Deadline /\ silence' \in 0..Deadline
              /\ idle' <= silence' /\ failures' \in 0..MaxFailures
  BY <1>0 DEF Read, ClocksOK
<1>3. ASSUME NEW ok \in BOOLEAN, Apply(ok) PROVE ClocksOK'
  <2>1. /\ Write(ok) /\ UNCHANGED <<tick, lag>>
        /\ place' \in {"serving", "reading"}
    BY <1>3, Zenon DEF Apply
  <2> QED BY <1>1, <2>1 DEF ClocksOK
<1>4. ASSUME NEW ok \in BOOLEAN, CheckIdle(ok) PROVE ClocksOK'
  <2>1. tick' \in BOOLEAN /\ lag' = 0 /\ place' = place
    BY <1>4 DEF CheckIdle
  <2>2. UNCHANGED clockVars \/ Write(ok)
    BY <1>4, Zenon DEF CheckIdle
  <2> QED BY <1>1, <2>1, <2>2 DEF ClocksOK, clockVars
<1>5. CASE ReadBaseHeight
  <2>1. Read /\ tick' = tick /\ place' = "serving" /\ lag' \in {0, lag}
    BY <1>5 DEF ReadBaseHeight
  <2> QED BY <1>2, <2>1 DEF ClocksOK
<1>6. CASE Minute
  <2>1. tick' \in BOOLEAN
    BY <1>6 DEF Minute
  <2>2. lag' \in 0..MaxLag
    BY <1>6 DEF Minute, ClocksOK
  <2> QED BY <1>0, <1>6, <2>1, <2>2 DEF Minute, ClocksOK
<1>7. CASE Connect \/ Drop
  <2>1. /\ tick' \in BOOLEAN /\ lag' = 0 /\ place' \in {"away", "opening"}
        /\ \/ UNCHANGED clockVars
           \/ idle' = 0 /\ silence' = 0 /\ failures' = 0
    BY <1>7 DEF Connect, Drop
  <2> QED BY <1>0, <2>1 DEF ClocksOK, clockVars
<1>8. ASSUME NEW kind \in CommandLeaves, NEW payload \in Payloads,
             Submit(kind, payload)
      PROVE  UNCHANGED <<place, tick, lag, clockVars>>
  BY <1>8 DEF Submit
<1>9. CASE UNCHANGED <<place, tick, lag, clockVars>>
  BY <1>9 DEF ClocksOK, clockVars
<1> QED BY <1>3, <1>4, <1>5, <1>6, <1>7, <1>8, <1>9
        DEF Next, Serve, servingVars, loopVars, vars

(* Every variable keeps its shape: the queue never holds more than its     *)
(* capacity, and the exit status is one that main knows.                   *)
THEOREM TypeCorrect == Spec => []TypeOK
<1> DEFINE I == CommandInv /\ StageOK /\ QueueBounded /\ ClocksOK
<1>1. Init => I
  <2> SUFFICES ASSUME Init PROVE I
    OBVIOUS
  <2>1. tick \in BOOLEAN
    BY DEF Init
  <2>2. CommandInv
    BY DEF Init, CommandInv, CommandsMeanWhatWasSent
  <2>3. Deadline \in Nat
    BY ConfigAssumption DEF Deadline
  <2> QED BY <2>1, <2>2, <2>3, ServingAssumption
          DEF Init, StartupInit, StageOK, Stages, QueueBounded, ClocksOK
<1>2. I /\ [Next]_vars => I'
  BY CommandStep, StageStep, QueueStep, ClocksStep
<1>3. I => TypeOK
  BY DEF StageOK, QueueBounded, ClocksOK, TypeOK
<1> HIDE DEF I
<1> QED BY <1>1, <1>2, <1>3, PTL DEF Spec
=============================================================================
