------------------------------ MODULE Logbook ------------------------------
(***************************************************************************)
(* The logbook of a vehicle on the dashboard: its entries and its          *)
(* fill-ups, which share no state.                                         *)
(***************************************************************************)
EXTENDS Integers, FiniteSets, Sequences, SequencesExt

-----------------------------------------------------------------------------
(* The entries: lists that load while the logbook is closed or opened for another vehicle, *)
(* the window of one entry, and saves and deletions whose address is put together from the *)
(* vehicle and the entry of that moment.  An entry is a name with the vehicle it belongs   *)
(* to; it counts as first written or as edited.                                            *)
CONSTANTS
    Entry, EntryOf,         \* entries there may be, and the vehicle of each
    NoEntry, NoLogbook,     \* no entry, no vehicle
    MaxLists, MaxEntryCalls \* bounds: lists on their way, requests under way

LogbookVehicle == {EntryOf[e] : e \in Entry}

ASSUME LogbookAssumption ==
    /\ DOMAIN EntryOf = Entry /\ NoEntry \notin Entry /\ NoLogbook \notin LogbookVehicle
    /\ MaxLists \in Nat /\ MaxEntryCalls \in Nat

VARIABLES
    lbStored,   \* the server: the entries there are, those that were edited
    lbDevice,   \* _logbookDeviceId
    lbShown,    \* the logbook is on the page
    lbEntries,  \* _logbookEntries
    lbRows,     \* the table: "loading", "entries" or "failed"
    lbEditing,  \* _editingEntryId
    lbModal,    \* the window of an entry: "hidden", "new" or "edit"
    lbLists,    \* lists on their way, for which vehicle
    lbCalls     \* requests under way

logbookVars == <<lbStored, lbDevice, lbShown, lbEntries, lbRows, lbEditing, lbModal, lbLists, lbCalls>>
lbWindow == <<lbEditing, lbModal>>
lbTable == <<lbDevice, lbShown, lbEntries, lbRows>>

LogbookTypeOK ==
    /\ lbStored.there \subseteq Entry /\ lbStored.edited \subseteq lbStored.there
    /\ lbDevice \in LogbookVehicle \cup {NoLogbook} /\ lbEntries \subseteq Entry /\ lbEditing \in Entry \cup {NoEntry}
    /\ lbRows \in {"loading", "entries", "failed"} /\ lbModal \in {"hidden", "new", "edit"}
    /\ Cardinality(lbLists) <= MaxLists /\ Cardinality(lbCalls) <= MaxEntryCalls

LogbookInit ==
    /\ lbStored = [there |-> Entry, edited |-> {}] /\ lbDevice = NoLogbook /\ lbShown = FALSE
    /\ lbEntries = {} /\ lbRows = "entries" /\ lbEditing = NoEntry /\ lbModal = "hidden" /\ lbLists = {} /\ lbCalls = {}

-----------------------------------------------------------------------------
(* The lists. *)
EntriesOf(device) == {e \in lbStored.there : EntryOf[e] = device}
LoadEntries(device) ==
    /\ lbRows' = "loading" /\ lbLists' = lbLists \cup {[of |-> device, entries |-> EntriesOf(device)]}
    /\ Cardinality(lbLists') <= MaxLists
EntriesArrive(list) ==
    /\ list.of # NoLogbook /\ lbEntries' = list.entries /\ lbRows' = "entries" /\ lbLists' = lbLists \ {list}
    /\ UNCHANGED <<lbStored, lbDevice, lbShown, lbWindow, lbCalls>>
\* The cached entries stay, though the table tells of the failure.
EntriesFail(list) ==
    /\ lbRows' = "failed" /\ lbLists' = lbLists \ {list}
    /\ UNCHANGED <<lbStored, lbDevice, lbShown, lbEntries, lbWindow, lbCalls>>

OpenLogbook(device) ==
    /\ ~lbShown /\ lbModal = "hidden" /\ lbDevice' = device /\ lbShown' = TRUE /\ lbEditing' = NoEntry
    /\ LoadEntries(device)
    /\ UNCHANGED <<lbStored, lbEntries, lbModal, lbCalls>>
CloseLogbook ==
    /\ lbShown /\ lbModal = "hidden" /\ lbShown' = FALSE /\ lbDevice' = NoLogbook /\ lbEditing' = NoEntry
    /\ UNCHANGED <<lbStored, lbEntries, lbRows, lbModal, lbLists, lbCalls>>
\* Escape hides the topmost window and forgets nothing.
Escape ==
    /\ \/ lbModal # "hidden" /\ lbModal' = "hidden" /\ UNCHANGED lbShown
       \/ lbModal = "hidden" /\ lbShown /\ lbShown' = FALSE /\ UNCHANGED lbModal
    /\ UNCHANGED <<lbStored, lbDevice, lbEntries, lbRows, lbEditing, lbLists, lbCalls>>

-----------------------------------------------------------------------------
(* The window of an entry. *)
\* openEntryModal: the button of a row, or a new entry.
OpenEntry(e) ==
    /\ lbShown /\ lbModal = "hidden" /\ lbEditing' = e
    /\ \/ e = NoEntry /\ lbModal' = "new"
       \/ lbRows = "entries" /\ e \in lbEntries /\ lbModal' = "edit"
    /\ UNCHANGED <<lbStored, lbTable, lbLists, lbCalls>>
CloseEntry ==
    /\ lbModal # "hidden" /\ lbModal' = "hidden" /\ lbEditing' = NoEntry
    /\ UNCHANGED <<lbStored, lbTable, lbLists, lbCalls>>
\* submitLogbookEntry and _lbEntryDelete.
AskEntry(what) ==
    /\ lbModal # "hidden" /\ (what = "delete" => lbModal = "edit")
    /\ lbCalls' = lbCalls \cup {[what |-> what, of |-> lbDevice, entry |-> lbEditing]}
    /\ Cardinality(lbCalls') <= MaxEntryCalls
    /\ UNCHANGED <<lbStored, lbTable, lbWindow, lbLists>>

\* _get_entry_or_404: an entry of another vehicle is not found.
Found(device, e) == e \in lbStored.there /\ EntryOf[e] = device
Accepted(c) ==
    \/ /\ c.what = "save" /\ c.entry = NoEntry
       /\ \E e \in Entry \ lbStored.there : EntryOf[e] = c.of
                                            /\ lbStored' = [lbStored EXCEPT !.there = @ \cup {e}]
    \/ c.what = "save" /\ Found(c.of, c.entry) /\ lbStored' = [lbStored EXCEPT !.edited = @ \cup {c.entry}]
    \/ /\ c.what = "delete" /\ Found(c.of, c.entry)
       /\ lbStored' = [there |-> lbStored.there \ {c.entry}, edited |-> lbStored.edited \ {c.entry}]
\* The answer closes whatever window is open and loads the vehicle of now.
EntryAnswered(c) ==
    /\ lbCalls' = lbCalls \ {c} /\ Accepted(c) /\ lbModal' = "hidden" /\ lbEditing' = NoEntry
    /\ lbRows' = "loading"
    /\ lbLists' = lbLists \cup {[of |-> lbDevice, entries |-> {e \in lbStored'.there : EntryOf[e] = lbDevice}]}
    /\ Cardinality(lbLists') <= MaxLists
    /\ UNCHANGED <<lbDevice, lbShown, lbEntries>>
EntryRefused(c) ==
    /\ lbCalls' = lbCalls \ {c}
    /\ UNCHANGED <<lbStored, lbTable, lbWindow, lbLists>>

LogbookNext ==
    \/ \E list \in lbLists : EntriesArrive(list) \/ EntriesFail(list)
    \/ \E device \in LogbookVehicle : OpenLogbook(device)
    \/ \E e \in Entry \cup {NoEntry} : OpenEntry(e)
    \/ \E what \in {"save", "delete"} : AskEntry(what)
    \/ \E c \in lbCalls : EntryAnswered(c) \/ EntryRefused(c)
    \/ CloseLogbook \/ Escape \/ CloseEntry

-----------------------------------------------------------------------------
\* An entry changes or goes only by a request that names its own vehicle, though a late list
\* may show the entries of one vehicle in the logbook of another.
EntriesKeptApart ==
    [][\A e \in lbStored.there :
         e \notin lbStored'.there \/ (e \in lbStored'.edited /\ e \notin lbStored.edited)
            => \E c \in lbCalls \ lbCalls' : c.of = EntryOf[e] /\ c.entry = e]_logbookVars

-----------------------------------------------------------------------------
(* The fill-ups: the distance driven between consecutive ones and what the table adds up,  *)
(* the window of one fill-up, and the reload after each change.  A fill-up carries the     *)
(* distance of its trip and the odometer, 0 where unknown; the window enters only the      *)
(* first, an odometer comes with a fill-up added elsewhere.  The list is in order of date. *)
CONSTANTS MaxOdometer, MaxTripDistance, MaxFillUps   \* bounds

ASSUME FuelAssumption ==
    MaxOdometer \in Nat /\ MaxTripDistance \in Nat /\ MaxFillUps \in Nat

FillUp == [trip : 0..MaxTripDistance, odometer : 0..MaxOdometer]
FillUps == UNION {[1..n -> FillUp] : n \in 0..MaxFillUps}

VARIABLES
    fuelStored,     \* the server's fill-ups
    fuelLogs,       \* _fuelLogs, as drawn
    fuelModal,      \* the place in the list of the fill-up edited, 0 for a new one, -1 closed
    fuelAsked,      \* the request under way: what, of which place, its trip distance
    fuelLoading     \* a list is on its way

fuelVars == <<fuelStored, fuelLogs, fuelModal, fuelAsked, fuelLoading>>
NotAsked == [what |-> "nothing"]

FuelTypeOK ==
    /\ fuelStored \in FillUps /\ fuelLogs \in FillUps /\ fuelModal \in -1..MaxFillUps
    /\ fuelAsked.what \in {"nothing", "save", "delete"} /\ fuelLoading \in BOOLEAN
FuelInit ==
    /\ fuelStored = <<>> /\ fuelLogs = <<>> /\ fuelModal = -1 /\ fuelAsked = NotAsked /\ fuelLoading = TRUE

-----------------------------------------------------------------------------
(* _renderFuelTable: the distance of a fill-up, 0 where none is shown, is that of its trip or *)
(* the step of the odometer since the one before, and the sum of all of them.                  *)
Gap(logs, i) ==
    IF i > 1 /\ logs[i - 1].odometer # 0 /\ logs[i].odometer > logs[i - 1].odometer
    THEN logs[i].odometer - logs[i - 1].odometer ELSE 0
DistanceOf(logs, i) == IF logs[i].trip > 0 THEN logs[i].trip ELSE Gap(logs, i)
SumOf(terms) ==
    LET sum[i \in 0..Len(terms)] == IF i = 0 THEN 0 ELSE sum[i - 1] + terms[i] IN sum[Len(terms)]
TotalDistance(logs) == SumOf([i \in 1..Len(logs) |-> DistanceOf(logs, i)])

-----------------------------------------------------------------------------
(* Loading; a failing load leaves an empty table. *)
FuelArrives ==
    /\ fuelLoading /\ fuelLoading' = FALSE /\ fuelLogs' \in {fuelStored, <<>>}
    /\ UNCHANGED <<fuelStored, fuelModal, fuelAsked>>
OpenFuelLog(i) ==
    /\ fuelModal = -1 /\ i \in 0..Len(fuelLogs) /\ (i > 0 => ~fuelLoading) /\ fuelModal' = i
    /\ UNCHANGED <<fuelStored, fuelLogs, fuelAsked, fuelLoading>>
CloseFuelLog ==
    /\ fuelModal # -1 /\ fuelModal' = -1
    /\ UNCHANGED <<fuelStored, fuelLogs, fuelAsked, fuelLoading>>
SaveFuelLog(trip) ==
    /\ fuelModal # -1 /\ fuelAsked = NotAsked /\ fuelAsked' = [what |-> "save", at |-> fuelModal, trip |-> trip]
    /\ UNCHANGED <<fuelStored, fuelLogs, fuelModal, fuelLoading>>
DeleteFuelLog ==
    /\ fuelModal > 0 /\ fuelAsked = NotAsked /\ fuelAsked' = [what |-> "delete", at |-> fuelModal]
    /\ UNCHANGED <<fuelStored, fuelLogs, fuelModal, fuelLoading>>

\* update_fuel_log leaves alone what is not given: a distance can be changed and not cleared.
FuelUpdated(trip) == IF trip = 0 THEN fuelStored ELSE [fuelStored EXCEPT ![fuelAsked.at].trip = trip]
FuelChanged ==
    \/ /\ fuelAsked.what = "save" /\ fuelAsked.at = 0 /\ Len(fuelStored) < MaxFillUps
       /\ \E at \in 1..Len(fuelStored) + 1 :
             fuelStored' = InsertAt(fuelStored, at, [trip |-> fuelAsked.trip, odometer |-> 0])
    \/ /\ fuelAsked.what = "save" /\ fuelAsked.at \in DOMAIN fuelStored /\ fuelStored' = FuelUpdated(fuelAsked.trip)
    \/ /\ fuelAsked.what = "delete" /\ fuelAsked.at \in DOMAIN fuelStored
       /\ fuelStored' = RemoveAt(fuelStored, fuelAsked.at)
FuelAnswered ==
    /\ fuelAsked # NotAsked /\ FuelChanged
    /\ fuelAsked' = NotAsked /\ fuelModal' = -1 /\ fuelLoading' = TRUE /\ UNCHANGED fuelLogs
\* A failing deletion looks like a done one.
FuelRefused ==
    /\ fuelAsked # NotAsked /\ fuelAsked' = NotAsked
    /\ IF fuelAsked.what = "delete" THEN fuelModal' = -1 /\ fuelLoading' = TRUE ELSE UNCHANGED <<fuelModal, fuelLoading>>
    /\ UNCHANGED <<fuelStored, fuelLogs>>
\* One added by a program that knows the odometer, after all others.
AddedElsewhere(fill) ==
    /\ Len(fuelStored) < MaxFillUps /\ fuelAsked = NotAsked /\ fuelLogs = fuelStored
    /\ \A i \in DOMAIN fuelStored : fuelStored[i].odometer <= fill.odometer
    /\ fuelStored' = Append(fuelStored, fill)
    /\ UNCHANGED <<fuelLogs, fuelModal, fuelAsked, fuelLoading>>
ReloadFuel ==
    /\ ~fuelLoading /\ fuelModal = -1 /\ fuelLoading' = TRUE
    /\ UNCHANGED <<fuelStored, fuelLogs, fuelModal, fuelAsked>>

FuelNext ==
    \/ FuelArrives \/ CloseFuelLog \/ DeleteFuelLog \/ FuelAnswered \/ FuelRefused \/ ReloadFuel
    \/ \E i \in 0..MaxFillUps : OpenFuelLog(i)
    \/ \E trip \in 0..MaxTripDistance : SaveFuelLog(trip)
    \/ \E fill \in FillUp : AddedElsewhere(fill)

-----------------------------------------------------------------------------
\* No kilometre is counted twice: whichever fill-ups carry a trip and which an odometer, the
\* steps of the odometer that count add up to no more than what it advanced.
DistancesCountOnce ==
    LET known == {fuelLogs[i].odometer : i \in DOMAIN fuelLogs} \ {0}
        trips == SumOf([i \in 1..Len(fuelLogs) |-> fuelLogs[i].trip]) IN
    TotalDistance(fuelLogs) - trips
      <= IF known = {} THEN 0 ELSE Max(known) - Min(known)
=============================================================================
