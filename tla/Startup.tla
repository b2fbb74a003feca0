-------------------------------- MODULE Startup -------------------------------
(***************************************************************************)
(* From the command line to a bridge that serves: main (main.go), which    *)
(* loads the configuration and runs the bridge, or lists with -scan what   *)
(* is nearby (scan.go), the way a desk's entry in the configuration comes  *)
(* about.  The file, the environment, the helper and the advertisements    *)
(* are external.                                                           *)
(***************************************************************************)
EXTENDS Config

CONSTANTS
  None,
  Files,    \* what can be found at the path of the configuration
  Envs,     \* what MQTT_LINAK_* can say, some of the settings
  Adverts   \* what the peripherals nearby can advertise

FileStates == {"missing", "unreadable", "malformed", "unknown key", "fine"}

(* What decoding makes of the values that are there.                       *)
WellFormed(some) ==
  /\ "command" \in DOMAIN some => some.command \in Seq(Text) \ {<<>>}
  /\ "metric" \in DOMAIN some => some.metric \in Seq(Text) \ {<<>>}
  /\ "desks" \in DOMAIN some => some.desks \in Seq(DeskEntries)

ASSUME StartupAssumption ==
  /\ \A file \in Files : /\ file.state \in FileStates
                         /\ WellFormed(file.settings)
  /\ \A env \in Envs : WellFormed(env)
  /\ \A p \in Adverts : /\ p.pid \in Text /\ ~Blank(p.pid)
                        /\ Trim[p.pid] = p.pid   \* a UUID
                        /\ {p.name, p.local} \subseteq Text \cup {Absent}

VARIABLES
  pc,       \* how far the process has got
  cfg,      \* the configuration it runs with
  found,    \* Inventory: the sightings by upper-cased peripheral ID
  heard,    \* history: the advertisements it was handed
  listing,  \* what PrintInventory prints
  status    \* the exit status

startupVars == <<pc, cfg, found, heard, listing, status>>
scanVars == <<found, heard, listing>>

Stages == {"flags", "loading", "starting", "running", "inventory", "scanning",
           "exited"}

StartupInit ==
  /\ pc = "flags" /\ cfg = None
  /\ found = <<>> /\ heard = {} /\ listing = <<>>
  /\ status = None

Exit(code) == pc' = "exited" /\ status' = code

Goes(stage) == pc' = stage /\ UNCHANGED status

(* -version, a bad -log-level, -scan or none of them.                      *)
ReadFlags ==
  /\ pc = "flags"
  /\ Exit(0) \/ Exit(2) \/ Goes("inventory") \/ Goes("loading")
  /\ UNCHANGED <<cfg, scanVars>>

-----------------------------------------------------------------------------
(* The daemon.                                                             *)

Load(file, env) ==
  IF file.state = "fine" THEN Parse(file.settings, env) ELSE {}

LoadConfig ==
  /\ pc = "loading"
  /\ \E file \in Files, env \in Envs :
       IF Load(file, env) = {}
         THEN Exit(1) /\ UNCHANGED cfg
         ELSE cfg' \in Load(file, env) /\ Goes("starting")
  /\ UNCHANGED scanVars

(* Bridge.Run up to its goroutines.  An adapter that is off only warns,    *)
(* and mqttc.New does not fail.                                            *)
StartBridge ==
  /\ pc = "starting"
  /\ Exit(1) \/ Goes("running")
  /\ UNCHANGED <<cfg, scanVars>>

(* Run returns after the signal.                                           *)
Stopped ==
  /\ pc = "running"
  /\ Exit(0)
  /\ UNCHANGED <<cfg, scanVars>>

-----------------------------------------------------------------------------
(* -scan.                                                                  *)

(* Only the bluetooth section is read, and nothing is validated.           *)
LoadBluetooth(file) == file.state \in {"missing", "unknown key", "fine"}

(* It fails if the file cannot be read or parsed, the helper or the scan   *)
(* cannot be started or the adapter is not on.                             *)
BeginInventory ==
  /\ pc = "inventory"
  /\ \/ Exit(1)
     \/ (\E file \in Files : LoadBluetooth(file)) /\ Goes("scanning")
  /\ UNCHANGED <<cfg, scanVars>>

Sighting(p) == [pid |-> p.pid, name |-> peripheralName(p), rssi |-> p.rssi]

Keep_TheFirst(p) == Fold[p.pid] \notin DOMAIN found

(* The first sighting of a peripheral, or the first that names it.         *)
Keep(p) ==
  Fold[p.pid] \in DOMAIN found =>
    found[Fold[p.pid]].name = "" /\ peripheralName(p) # ""

Hear(p) ==
  /\ pc = "scanning"
  /\ heard' = heard \cup {p}
  /\ found' = IF Keep(p)
                THEN [k \in DOMAIN found \cup {Fold[p.pid]} |->
                        IF k = Fold[p.pid] THEN Sighting(p) ELSE found[k]]
                ELSE found
  /\ UNCHANGED <<pc, cfg, listing, status>>

ComesBefore(s, t) ==
  \/ s.name # "" /\ t.name = ""
  \/ (s.name = "" <=> t.name = "") /\ s.rssi > t.rssi

(* The sort is not stable, and a map has no order to begin with.           *)
sorted(sightings) ==
  LET S == {sightings[k] : k \in DOMAIN sightings} IN
  {l \in [1..Cardinality(S) -> S] :
     \A j \in 1..Cardinality(S) : \A i \in 1..(j - 1) :
       l[i] # l[j] /\ ~ComesBefore(l[j], l[i])}

(* The time is up, the helper has closed its channel, or (cut) a signal    *)
(* comes first, which is an error only if nothing was found.               *)
EndInventory(cut) ==
  /\ pc = "scanning"
  /\ IF cut /\ DOMAIN found = {}
       THEN Exit(1) /\ UNCHANGED listing
       ELSE listing' \in sorted(found) /\ Exit(0)
  /\ UNCHANGED <<cfg, found, heard>>

Inventory ==
  \/ BeginInventory
  \/ \E p \in Adverts : Hear(p)
  \/ \E cut \in BOOLEAN : EndInventory(cut)

StartupNext ==
  ReadFlags \/ LoadConfig \/ StartBridge \/ Stopped \/ Inventory

-----------------------------------------------------------------------------

(* A bridge runs only with topics that belong to one desk and one purpose  *)
(* each, whatever the file and the environment say (config.go:215-218,     *)
(* 250-327; topics.go:11-27).                                              *)
TopicsKeptApart == pc = "running" => TopicsApart(cfg)

(* What was heard before the scan ended, or was interrupted, is listed:    *)
(* every peripheral once, and with a name if any of its advertisements had *)
(* one (scan.go:62-87; main.go:103-108).                                   *)
ListsWhatWasHeard ==
  heard # {} /\ pc = "exited" =>
    /\ \A p \in heard : \E i \in 1..Len(listing) :
         /\ EqualFold(listing[i].pid, p.pid)
         /\ peripheralName(p) # "" => listing[i].name # ""
    /\ \A i, j \in 1..Len(listing) :
         EqualFold(listing[i].pid, listing[j].pid) => i = j

EntryNamed(s) ==
  [id |-> "", name |-> s.name, name_prefix |-> "", peripheral_id |-> ""]
EntryPinned(s) ==
  [id |-> "", name |-> "", name_prefix |-> "", peripheral_id |-> s.pid]

(* "Copy the desk's name into a desks entry, or pin it by peripheral_id":  *)
(* an entry made of a line of the listing recognises the peripheral, by    *)
(* its ID whatever it advertises, by its name in an advertisement that was *)
(* heard (scan.go:150-154; bridge.go:352-394).                             *)
CopiedEntryMatches ==
  \A i \in 1..Len(listing) :
    LET Its == {p \in heard : EqualFold(p.pid, listing[i].pid)} IN
    /\ \A p \in Its : matchesDesk(EntryPinned(listing[i]), p)
    /\ ~Blank(listing[i].name) =>
         \E p \in Its : matchesDesk(EntryNamed(listing[i]), p)
=============================================================================
