-------------------------------- MODULE Config --------------------------------
(***************************************************************************)
(* The configuration (internal/config/config.go) and the topics made of it *)
(* (topics.go).  A configuration is a record of the settings that the rest *)
(* of the system depends on; a file or an environment is such a record     *)
(* with some of the fields only.  A topic, and a topic base, is a sequence *)
(* of levels, the strings between slashes.  Durations are in seconds,      *)
(* keepalive_interval in minutes.                                          *)
(***************************************************************************)
EXTENDS Names, Integers, Sequences, FiniteSets

CONSTANTS
  Wild,     \* the strings that contain + or #
  Slashed,  \* the strings that contain a slash
  Hour      \* the minutes of an hour

ReservedDeskID == "bridge"

DeskEntries ==
  [id : Text, name : Text, name_prefix : Text, peripheral_id : Text]

ASSUME ConfigAssumption ==
  /\ {"cmd", "tele", "linak"} \subseteq Text
  /\ Wild \subseteq Text /\ Slashed \subseteq Text
  /\ Hour \in Nat \ {0}

DefaultConfig ==
  [broker |-> "", qos |-> 0, command |-> <<"cmd", "linak">>,
   metric |-> <<"tele", "linak">>, desks |-> <<>>,
   minBackoff |-> 2, maxBackoff |-> 60, connectTimeout |-> 30,
   keepAlive |-> Hour]

Overlay(base, some) ==
  [k \in DOMAIN base |-> IF k \in DOMAIN some THEN some[k] ELSE base[k]]

(* MQTT_LINAK_*: a value of MQTT_LINAK_QOS that is no QoS is ignored.      *)
ApplyEnv(c, env) ==
  LET Ignored == {k \in DOMAIN env : k = "qos" /\ env.qos \notin 0..2} IN
  Overlay(c, [k \in DOMAIN env \ Ignored |-> env[k]])

-----------------------------------------------------------------------------
(* Validate.                                                               *)

validTopicBase(v) ==
  /\ ~(Len(v) = 1 /\ Blank(v[1]))
  /\ \A i \in 1..Len(v) : v[i] \notin Wild
  /\ v[Len(v)] # ""

validDeskID(id) ==
  /\ ~Blank(id) /\ id = Trim[id]
  /\ id \notin Slashed \cup Wild
  /\ id # ReservedDeskID

Matchers(d) ==
  {k \in {"name", "name_prefix", "peripheral_id"} : ~Blank(d[k])}

validDesks(desks) ==
  /\ desks # <<>>
  /\ \A i \in 1..Len(desks) :
       /\ validDeskID(desks[i].id)
       /\ \A j \in 1..(i - 1) : desks[j].id # desks[i].id
       /\ Cardinality(Matchers(desks[i])) = 1

Validate(c) ==
  /\ ~Blank(c.broker) /\ c.qos <= 2
  /\ validTopicBase(c.command) /\ validTopicBase(c.metric)
  /\ validDesks(c.desks)
  /\ c.minBackoff > 0 /\ c.maxBackoff >= c.minBackoff
  /\ c.connectTimeout > 0

Parse_ValidatesFirst(file, env) ==
  LET c == Overlay(DefaultConfig, file) IN
  IF Validate(c) THEN {ApplyEnv(c, env)} ELSE {}

(* Parse: the configuration of a file that can be decoded, or none if it   *)
(* is refused.                                                             *)
Parse(file, env) ==
  LET c == ApplyEnv(Overlay(DefaultConfig, file), env) IN
  IF Validate(c) THEN {c} ELSE {}

-----------------------------------------------------------------------------
(* Topics.                                                                 *)

Joined(base, id, leaf) == base \o <<id, leaf>>

commandTopic(c, id, leaf) == Joined(c.command, id, leaf)
metricTopic(c, id, leaf)  == Joined(c.metric, id, leaf)

bridgeAvailabilityTopic(c) == metricTopic(c, ReservedDeskID, "availability")

CommandLeaves == {"height", "base_height"}
MetricLeaves  == CommandLeaves \cup {"availability"}

DesksOf(c) == 1..Len(c.desks)

(* What the bridge subscribes to and what it publishes.                    *)
CommandTopics(c) ==
  {commandTopic(c, c.desks[d].id, leaf) : d \in DesksOf(c),
                                          leaf \in CommandLeaves}
MetricTopics(c) ==
  {metricTopic(c, c.desks[d].id, leaf) : d \in DesksOf(c),
                                         leaf \in MetricLeaves}
    \cup {bridgeAvailabilityTopic(c)}

(* Every topic belongs to one desk and one purpose: no two desks share     *)
(* one, none is the bridge's own, no subscription takes in the topics of   *)
(* another by a wildcard, and what the bridge publishes comes back to it   *)
(* as a command only if the two bases are the same.                        *)
TopicsApart(c) ==
  /\ \A d, e \in DesksOf(c) : \A l, m \in MetricLeaves :
       /\ metricTopic(c, c.desks[d].id, l) = metricTopic(c, c.desks[e].id, m)
            => d = e /\ l = m
       /\ commandTopic(c, c.desks[d].id, l) = commandTopic(c, c.desks[e].id, m)
            => d = e /\ l = m
       /\ metricTopic(c, c.desks[d].id, l) # bridgeAvailabilityTopic(c)
  /\ \A t \in CommandTopics(c) :
       \A i \in 1..(Len(t) - 1) : t[i] \notin Wild
  /\ c.command # c.metric => CommandTopics(c) \cap MetricTopics(c) = {}
=============================================================================
