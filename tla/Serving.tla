-------------------------------- MODULE Serving --------------------------------
(***************************************************************************)
(* What the started bridge makes of its configuration for one desk         *)
(* (desk.go): it parses the commands that reach it, applies them and keeps *)
(* the connection from falling idle.  The clock counts minutes, which is   *)
(* keepAliveCheckInterval.  How connections are found, made and lost is    *)
(* DeskManager's; the desk and its idle timer are external.                *)
(***************************************************************************)
EXTENDS Startup, Payload

CONSTANTS
  Payloads,   \* what can be published on a command topic
  QueueCap,   \* capacity of m.commands
  MaxLag,     \* by how much a check that is due can be late, at most: while
              \* Bluetooth calls keep the loop busy, and, as the ticker is not
              \* in step with lastActivity, by up to one more check interval
  MaxFailures \* bound: commands that fail, one after another

ASSUME ServingAssumption ==
  /\ QueueCap \in Nat \ {0} /\ MaxLag \in Nat \ {0} /\ MaxFailures \in Nat
  /\ \A some \in Envs \cup {file.settings : file \in Files} :
       "keepAlive" \in DOMAIN some => some.keepAlive \in Int
  /\ \A payload \in Payloads :
       \/ payload.form = "plain" /\ payload.number \in Numbers
       \/ /\ payload.form = "object"
          /\ \A k \in DOMAIN payload.fields : payload.fields[k] \in Numbers

VARIABLES
  place,     \* "away", "opening" from setOnline up to the serve loop,
             \* "serving" in its select, "reading" the base height back
  commands,  \* the queue
  tick,      \* the keepalive's ticker has fired
  lag,       \* for how long something has been kept waiting
  idle,      \* idleFor, the time since lastActivity
  silence,   \* how long ago the desk was last told something, by its timer
  failures   \* history: commands that have failed since

loopVars  == <<place, commands, tick, lag>>
clockVars == <<idle, silence, failures>>
servingVars == <<loopVars, clockVars>>
vars == <<startupVars, servingVars>>

(* A DPG controller drops a connection that has been idle for four hours.  *)
Deadline == 4 * Hour

Connected == place # "away"

Commands == [kind : CommandLeaves, value : 0..maxTenthsMM, payload : Payloads]

TypeOK ==
  /\ pc \in Stages /\ status \in {None, 0, 1, 2}
  /\ place \in {"away", "opening", "serving", "reading"}
  /\ commands \in Seq(Commands) /\ Len(commands) <= QueueCap
  /\ tick \in BOOLEAN /\ lag \in 0..MaxLag
  /\ idle \in 0..Deadline /\ silence \in 0..Deadline
  /\ failures \in 0..MaxFailures

Init ==
  /\ StartupInit
  /\ place = "away" /\ commands = <<>> /\ tick = FALSE /\ lag = 0
  /\ idle = 0 /\ silence = 0 /\ failures = 0

-----------------------------------------------------------------------------
(* submit.                                                                 *)

(* What cannot be parsed, finds the desk away or the queue full is dropped *)
(* with a warning.  The desk is online until after the connection has been *)
(* torn down, which leaves the queue alone: what is accepted meanwhile is  *)
(* accepted here before the Drop.                                          *)
Submit(kind, payload) ==
  /\ Connected
  /\ Len(commands) < QueueCap
  /\ \E n \in parseTenthsMM(payload) :
       commands' = Append(commands,
                          [kind |-> kind, value |-> n, payload |-> payload])
  /\ UNCHANGED <<startupVars, place, tick, lag, clockVars>>

-----------------------------------------------------------------------------
(* command: the attempt counts as activity, before its outcome is known.   *)

Write(ok) ==
  /\ idle' = 0
  /\ IF ok THEN silence' = 0 /\ failures' = 0
           ELSE failures < MaxFailures /\ failures' = failures + 1
                /\ UNCHANGED silence

(* The desk need not count a read.                                         *)
Read == idle' = 0 /\ UNCHANGED <<silence, failures>>

(* The wake-up, the stop and the ownership exchange of a new connection,   *)
(* and setOnline.                                                          *)
Connect ==
  /\ pc = "running" /\ place = "away"
  /\ place' = "opening"
  /\ tick' = FALSE /\ lag' = 0
  /\ idle' = 0 /\ silence' = 0 /\ failures' = 0
  /\ UNCHANGED <<startupVars, commands>>

(* readBaseHeight, on every connect and after a write.                     *)
ReadBaseHeight ==
  /\ place \in {"opening", "reading"}
  /\ Read
  /\ place' = "serving"
  /\ lag' = IF tick THEN lag ELSE 0
  /\ UNCHANGED <<startupVars, commands, tick>>

Apply(ok) ==
  /\ place = "serving" /\ commands # <<>>
  /\ Write(ok)
  /\ commands' = Tail(commands)
  /\ place' = IF Head(commands).kind = "base_height" /\ ok
                THEN "reading" ELSE "serving"
  /\ UNCHANGED <<startupVars, tick, lag>>

-----------------------------------------------------------------------------
(* keepAlive.                                                              *)

Interval == cfg.keepAlive

CheckIdle_ByReading(ok) ==
  /\ place = "serving" /\ tick
  /\ tick' = FALSE /\ lag' = 0
  /\ IF Interval <= 0 \/ idle < Interval THEN UNCHANGED clockVars ELSE Read
  /\ UNCHANGED <<startupVars, place, commands>>

CheckIdle(ok) ==
  /\ place = "serving" /\ tick
  /\ tick' = FALSE /\ lag' = 0
  /\ IF Interval <= 0 \/ idle < Interval THEN UNCHANGED clockVars ELSE Write(ok)
  /\ UNCHANGED <<startupVars, place, commands>>

-----------------------------------------------------------------------------
(* A minute passes.  The ticker runs from the start of the loop, and what  *)
(* it drops is not made up for.  The check it calls for may come later, as *)
(* MaxLag says; that it comes up to a minute after idleFor has reached the *)
(* interval, when the last write fell between two ticks, is a lag of 1.    *)
Minute ==
  /\ Connected /\ silence < Deadline
  /\ LET busy == tick \/ place # "serving" IN
       /\ busy => lag < MaxLag
       /\ lag' = IF busy THEN lag + 1 ELSE 0
  /\ tick' = (place # "opening")
  /\ idle' = idle + 1 /\ silence' = silence + 1
  /\ UNCHANGED <<startupVars, place, commands, failures>>

(* The link is lost, or the desk drops it for being idle, or it ends with  *)
(* the process; the queue stays.                                           *)
Drop ==
  /\ Connected
  /\ place' = "away"
  /\ tick' = FALSE /\ lag' = 0
  /\ UNCHANGED <<startupVars, commands, clockVars>>

Serve ==
  \/ \E kind \in CommandLeaves, payload \in Payloads : Submit(kind, payload)
  \/ Connect \/ ReadBaseHeight \/ Minute \/ Drop
  \/ \E ok \in BOOLEAN : Apply(ok) \/ CheckIdle(ok)

Next ==
  \/ ~Connected /\ StartupNext /\ UNCHANGED servingVars
  \/ Serve

Spec == Init /\ [][Next]_vars

-----------------------------------------------------------------------------

Deciding(fields) ==
  CHOOSE i \in 1..4 : /\ Keys[i] \in DOMAIN fields
                      /\ \A j \in 1..(i - 1) : Keys[j] \notin DOMAIN fields

(* The number a payload gives.                                             *)
Given(payload) ==
  IF payload.form = "plain" THEN payload.number
                            ELSE payload.fields[Keys[Deciding(payload.fields)]]

Meant(n, v) ==
  v.class = "finite" /\ 0 <= n /\ n <= maxTenthsMM /\ Near(n, v.tenths)

(* The desk is only told heights that its 16 bits hold and that are the    *)
(* nearest to a finite number someone sent: nothing wraps, and no fraction *)
(* moves the desk by a whole step (topics.go:43-94; desk.go:545-580).      *)
CommandsMeanWhatWasSent ==
  \A i \in 1..Len(commands) :
    Meant(commands[i].value, Given(commands[i].payload))

(* "The default leaves several attempts before the deadline, so one that   *)
(* fails or is missed is not the one that matters": as long as the         *)
(* attempts that can fail fit before the deadline, no connection is silent *)
(* that long, although failed attempts and reads count as activity as well *)
(* (config.go:112-119; desk.go:308-325, 413-454).  It is assumed, as in    *)
(* the code, that a wake-up that is written counts for the controller:     *)
(* config.go:119-124 calls that unconfirmed.                               *)
NeverSilentTooLong ==
  /\ Connected /\ Interval > 0
  /\ (failures + 1) * (Interval + MaxLag) + MaxLag < Deadline
  => silence < Deadline
=============================================================================
