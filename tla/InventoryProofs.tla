--------------------------- MODULE InventoryProofs ----------------------------
(***************************************************************************)
(* Theorems about the listing of -scan (Startup): whatever is advertised,  *)
(* in whatever order and in whatever spelling of the peripherals' IDs.     *)
(***************************************************************************)
EXTENDS Serving, FiniteSetTheorems, TLAPS

-----------------------------------------------------------------------------
(* What sorted makes of a map with finitely many keys.                     *)

Values(f) == {f[k] : k \in DOMAIN f}

LEMMA ValuesFinite ==
  ASSUME NEW f, f \in [DOMAIN f -> Values(f)], IsFiniteSet(DOMAIN f)
  PROVE  IsFiniteSet(Values(f))
<1>1. f \in Surjection(DOMAIN f, Values(f))
  BY DEF Surjection, Values
<1> QED BY <1>1, FS_Surjection

(* A sorted listing has every value of the map, and each of them once: as  *)
(* many places as values, and no value in two places.                      *)
LEMMA SortedListsAll ==
  ASSUME NEW f, f \in [DOMAIN f -> Values(f)], IsFiniteSet(DOMAIN f),
         NEW l \in sorted(f)
  PROVE  /\ \A i \in 1..Len(l) : l[i] \in Values(f)
         /\ \A v \in Values(f) : \E i \in 1..Len(l) : l[i] = v
         /\ \A i, j \in 1..Len(l) : l[i] = l[j] => i = j
<1> DEFINE S == Values(f)
           n == Cardinality(S)
<1>1. IsFiniteSet(S) /\ n \in Nat
  BY ValuesFinite, FS_CardinalityType
<1>2. /\ l \in [1..n -> S]
      /\ \A j \in 1..n : \A i \in 1..(j - 1) : l[i] # l[j]
  BY DEF sorted, Values
<1>3. \A i, j \in 1..n : l[i] = l[j] => i = j
  <2> HIDE DEF n, S
  <2> SUFFICES ASSUME NEW i \in 1..n, NEW j \in 1..n, l[i] = l[j], i # j
               PROVE  FALSE
    OBVIOUS
  <2>1. i \in 1..(j - 1) \/ j \in 1..(i - 1)
    BY <1>1
  <2> QED BY <1>2, <2>1
<1>4. l \in Injection(1..n, S)
  <2> HIDE DEF n, S
  <2> QED BY <1>2, <1>3 DEF Injection, IsInjective
<1>5. l \in Surjection(1..n, S)
  <2>1. Cardinality(1..n) = n
    BY <1>1, FS_Interval
  <2> QED BY <1>1, <1>4, <2>1, FS_Injection
<1>6. \A v \in S : \E i \in 1..n : l[i] = v
  BY <1>5 DEF Surjection
<1>7. Len(l) = n
  <2> HIDE DEF n, S
  <2>1. l \in Seq(S) /\ DOMAIN l = 1..n
    BY <1>1, <1>2
  <2> QED BY <1>1, <2>1
<1> HIDE DEF n
<1> QED BY <1>2, <1>3, <1>6, <1>7
-----------------------------------------------------------------------------
(* The scan.                                                               *)

(* found is the sightings of what was heard: under every key the sighting  *)
(* of a peripheral with that ID, and for everything heard a sighting, with *)
(* a name if it had one.                                                   *)
SightingsOfHeard ==
  /\ \A k \in DOMAIN found :
       \E p \in heard : k = Fold[p.pid] /\ found[k] = Sighting(p)
  /\ \A p \in heard :
       /\ Fold[p.pid] \in DOMAIN found
       /\ peripheralName(p) # "" => found[Fold[p.pid]].name # ""

FiniteMap ==
  /\ found \in [DOMAIN found -> Values(found)]
  /\ IsFiniteSet(DOMAIN found)
  /\ heard \subseteq Adverts

(* The listing is empty as long as the scan lasts, and what found came to  *)
(* when it has ended; without a scan nothing is heard.                     *)
ListedAtTheEnd ==
  \/ listing = <<>> /\ (heard # {} => pc = "scanning")
  \/ pc = "exited" /\ listing \in sorted(found)

ScanInv == FiniteMap /\ SightingsOfHeard /\ ListedAtTheEnd

LEMMA HearKeepsSightings ==
  ASSUME FiniteMap, SightingsOfHeard, NEW p \in Adverts, Hear(p)
  PROVE  FiniteMap' /\ SightingsOfHeard'
<1> DEFINE key == Fold[p.pid]
<1>1. heard' = heard \cup {p}
  BY DEF Hear
<1>2. CASE Keep(p)
  <2>1. /\ DOMAIN found' = DOMAIN found \cup {key}
        /\ found'[key] = Sighting(p)
        /\ \A k \in DOMAIN found : k # key => found'[k] = found[k]
        /\ found' \in [DOMAIN found' -> Values(found')]
    BY <1>2 DEF Hear, Values
  <2>2. IsFiniteSet(DOMAIN found')
    BY <2>1, FS_AddElement DEF FiniteMap
  <2>3. key \in DOMAIN found => found[key].name = "" /\ peripheralName(p) # ""
    BY <1>2 DEF Keep
  <2>4. Sighting(p).name = peripheralName(p)
    BY DEF Sighting
  <2>5. ASSUME NEW k \in DOMAIN found'
        PROVE  \E q \in heard' : k = Fold[q.pid] /\ found'[k] = Sighting(q)
    <3>1. CASE k = key
      BY <1>1, <2>1, <3>1
    <3>2. CASE k # key
      <4>1. k \in DOMAIN found /\ found'[k] = found[k]
        BY <2>1, <3>2, Zenon
      <4>2. PICK q \in heard : k = Fold[q.pid] /\ found[k] = Sighting(q)
        BY <4>1, Zenon DEF SightingsOfHeard
      <4> QED BY <1>1, <4>1, <4>2, Zenon
    <3> QED BY <3>1, <3>2
  <2>6. ASSUME NEW q \in heard'
        PROVE  /\ Fold[q.pid] \in DOMAIN found'
               /\ peripheralName(q) # "" => found'[Fold[q.pid]].name # ""
    <3>1. CASE q = p
      BY <2>1, <2>4, <3>1
    <3>2. CASE q \in heard /\ Fold[q.pid] = key
      BY <2>1, <2>3, <2>4, <3>2 DEF SightingsOfHeard
    <3>3. CASE q \in heard /\ Fold[q.pid] # key
      BY <2>1, <3>3 DEF SightingsOfHeard
    <3> QED BY <1>1, <3>1, <3>2, <3>3
  <2> QED BY <1>1, <2>1, <2>2, <2>5, <2>6 DEF FiniteMap, SightingsOfHeard
<1>3. CASE ~Keep(p)
  <2>1. found' = found
    BY <1>3 DEF Hear
  <2>2. key \in DOMAIN found
          /\ (found[key].name # "" \/ peripheralName(p) = "")
    BY <1>3 DEF Keep
  <2> QED BY <1>1, <2>1, <2>2 DEF FiniteMap, SightingsOfHeard, Values
<1> QED BY <1>2, <1>3

LEMMA ScanStep == ScanInv /\ [Next]_vars => ScanInv'
<1> SUFFICES ASSUME ScanInv, [Next]_vars PROVE ScanInv'
  OBVIOUS
<1>1. ASSUME NEW p \in Adverts, Hear(p) PROVE ScanInv'
  <2>1. FiniteMap' /\ SightingsOfHeard'
    BY <1>1, HearKeepsSightings DEF ScanInv
  <2>2. listing' = listing /\ pc = "scanning" /\ pc' = pc
    BY <1>1 DEF Hear
  <2> QED BY <2>1, <2>2 DEF ScanInv, ListedAtTheEnd
<1>2. ASSUME UNCHANGED <<found, heard>>, ListedAtTheEnd' PROVE ScanInv'
  BY <1>2 DEF ScanInv, FiniteMap, SightingsOfHeard, Values
<1>3. ASSUME NEW cut \in BOOLEAN, EndInventory(cut) PROVE ScanInv'
  <2>1. UNCHANGED <<found, heard>> /\ pc' = "exited" /\ pc = "scanning"
    BY <1>3 DEF EndInventory, Exit
  <2>2. CASE cut /\ DOMAIN found = {}
    <3>1. heard = {}
      BY <2>2 DEF ScanInv, SightingsOfHeard
    <3>2. listing' = listing
      BY <1>3, <2>2 DEF EndInventory
    <3> QED BY <1>2, <2>1, <3>1, <3>2 DEF ScanInv, ListedAtTheEnd
  <2>3. CASE ~(cut /\ DOMAIN found = {})
    <3>1. listing' \in sorted(found)
      BY <1>3, <2>3 DEF EndInventory
    <3>2. listing' \in sorted(found')
      BY <2>1, <3>1
    <3> QED BY <1>2, <2>1, <3>2 DEF ListedAtTheEnd
  <2> QED BY <2>2, <2>3
<1>4. CASE ReadFlags \/ LoadConfig \/ StartBridge \/ Stopped \/ BeginInventory
  <2>1. UNCHANGED scanVars /\ pc \notin {"scanning", "exited"}
    BY <1>4 DEF ReadFlags, LoadConfig, StartBridge, Stopped, BeginInventory
  <2> QED BY <1>2, <2>1 DEF ScanInv, ListedAtTheEnd, scanVars
<1>5. CASE UNCHANGED startupVars
  <2>1. UNCHANGED <<pc, found, heard, listing>>
    BY <1>5, Zenon DEF startupVars
  <2>2. ListedAtTheEnd'
    BY <2>1 DEF ScanInv, ListedAtTheEnd
  <2> QED BY <1>2, <2>1, <2>2
<1>6. Serve => UNCHANGED startupVars
  BY DEF Serve, Submit, Connect, ReadBaseHeight, Minute, Drop, Apply, CheckIdle
<1> QED BY <1>1, <1>3, <1>4, <1>5, <1>6
        DEF Next, StartupNext, Inventory, vars

LEMMA ScanInvHolds == Spec => []ScanInv
<1>1. Init => ScanInv
  <2> SUFFICES ASSUME Init PROVE ScanInv
    OBVIOUS
  <2>1. found = <<>> /\ DOMAIN found = {} /\ heard = {} /\ listing = <<>>
    BY DEF Init, StartupInit
  <2>2. found \in [DOMAIN found -> Values(found)]
    BY <2>1
  <2> QED BY <2>1, <2>2, FS_EmptySet
          DEF ScanInv, FiniteMap, SightingsOfHeard, ListedAtTheEnd
<1> QED BY <1>1, ScanStep, PTL DEF Spec

-----------------------------------------------------------------------------

(* Whatever was heard before the scan ended is listed: every peripheral in *)
(* one line, in whatever spellings its ID came, and with a name if any of  *)
(* its advertisements had one (scan.go:62-87; main.go:103-108).            *)
THEOREM ListingIsComplete == Spec => []ListsWhatWasHeard
<1>1. ScanInv => ListsWhatWasHeard
  <2> SUFFICES ASSUME ScanInv, heard # {}, pc = "exited"
               PROVE  /\ \A p \in heard : \E i \in 1..Len(listing) :
                           /\ EqualFold(listing[i].pid, p.pid)
                           /\ peripheralName(p) # "" => listing[i].name # ""
                      /\ \A i, j \in 1..Len(listing) :
                           EqualFold(listing[i].pid, listing[j].pid) => i = j
    BY DEF ListsWhatWasHeard
  <2>1. listing \in sorted(found)
    BY DEF ScanInv, ListedAtTheEnd
  <2>2. /\ \A i \in 1..Len(listing) : listing[i] \in Values(found)
        /\ \A v \in Values(found) : \E i \in 1..Len(listing) : listing[i] = v
        /\ \A i, j \in 1..Len(listing) : listing[i] = listing[j] => i = j
    BY <2>1, SortedListsAll DEF ScanInv, FiniteMap
  <2>3. ASSUME NEW k \in DOMAIN found PROVE Fold[found[k].pid] = k
    <3>1. PICK p \in heard : k = Fold[p.pid] /\ found[k] = Sighting(p)
      BY Zenon DEF ScanInv, SightingsOfHeard
    <3> QED BY <3>1 DEF Sighting
  <2>4. ASSUME NEW p \in heard
        PROVE  \E i \in 1..Len(listing) :
                 /\ EqualFold(listing[i].pid, p.pid)
                 /\ peripheralName(p) # "" => listing[i].name # ""
    <3> DEFINE k == Fold[p.pid]
    <3>1. /\ k \in DOMAIN found
          /\ peripheralName(p) # "" => found[k].name # ""
      BY DEF ScanInv, SightingsOfHeard
    <3>2. PICK i \in 1..Len(listing) : listing[i] = found[k]
      <4>1. found[k] \in Values(found)
        BY <3>1, Zenon DEF Values
      <4> QED BY <2>2, <4>1, Zenon
    <3> QED BY <2>3, <3>1, <3>2 DEF EqualFold
  <2>5. ASSUME NEW i \in 1..Len(listing), NEW j \in 1..Len(listing),
               EqualFold(listing[i].pid, listing[j].pid)
        PROVE  i = j
    BY <2>2, <2>3, <2>5 DEF Values, EqualFold
  <2> QED BY <2>4, <2>5
<1> QED BY <1>1, ScanInvHolds, PTL

(* An entry made of a line of the listing recognises the peripheral the    *)
(* line is about: pinned by its ID in every advertisement of it, by its    *)
(* name in one that was heard (scan.go:150-154; bridge.go:352-394).        *)
THEOREM CopiedEntriesMatch == Spec => []CopiedEntryMatches
<1>1. ScanInv => CopiedEntryMatches
  <2> SUFFICES ASSUME ScanInv, NEW i \in 1..Len(listing)
               PROVE  LET Its == {p \in heard :
                                    EqualFold(p.pid, listing[i].pid)} IN
                      /\ \A p \in Its : matchesDesk(EntryPinned(listing[i]), p)
                      /\ ~Blank(listing[i].name) =>
                           \E p \in Its : matchesDesk(EntryNamed(listing[i]), p)
    BY DEF CopiedEntryMatches
  <2>1. PICK q \in heard : listing[i] = Sighting(q)
    <3>1. listing \in sorted(found)
      <4>1. listing # <<>>
        OBVIOUS
      <4> QED BY <4>1 DEF ScanInv, ListedAtTheEnd
    <3>2. listing[i] \in Values(found)
      BY <3>1, SortedListsAll DEF ScanInv, FiniteMap
    <3>3. PICK k \in DOMAIN found : listing[i] = found[k]
      BY <3>2, Zenon DEF Values
    <3> QED BY <3>3, Zenon DEF ScanInv, SightingsOfHeard
  <2>2. /\ listing[i].pid = q.pid /\ listing[i].name = peripheralName(q)
        /\ q \in Adverts
    BY <2>1 DEF Sighting, ScanInv, FiniteMap
  <2>3. ASSUME NEW p \in heard, EqualFold(p.pid, listing[i].pid)
        PROVE  matchesDesk(EntryPinned(listing[i]), p)
    BY <2>2, <2>3, StartupAssumption
       DEF matchesDesk, EntryPinned, EqualFold, Blank
  <2>4. ASSUME ~Blank(listing[i].name)
        PROVE  matchesDesk(EntryNamed(listing[i]), q)
    <3> DEFINE name == peripheralName(q)
    <3>1. Trim[name] # "" /\ Trim[""] = ""
      BY <2>2, <2>4, TextAssumption DEF Blank
    <3>2. Trim[name] \in advertisedNames(q)
      BY <3>1 DEF peripheralName, advertisedNames
    <3>3. /\ EntryNamed(listing[i]).peripheral_id = ""
          /\ EntryNamed(listing[i]).name = name
      BY <2>2 DEF EntryNamed
    <3> HIDE DEF name
    <3> QED BY <3>1, <3>2, <3>3 DEF matchesDesk, Blank, EqualFold
  <2>5. EqualFold(q.pid, listing[i].pid)
    BY <2>2 DEF EqualFold
  <2> QED BY <2>3, <2>4, <2>5
<1> QED BY <1>1, ScanInvHolds, PTL
=============================================================================
