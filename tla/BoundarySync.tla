---------------------------- MODULE BoundarySync ----------------------------
(***************************************************************************)
(* The monitored areas and what is derived from them: boundary_loop,       *)
(* run_boundary_sync and areas_selection (app/main.py), the sync itself    *)
(* (app/boundary_sync.py), regenerate_query_regions (app/coverage.py), the *)
(* tables areas, query_regions and dataset_syncs (app/database.py) and the *)
(* job locks (app/locks.py).                                               *)
(*                                                                         *)
(* A sync downloads the territories and, from the first source that        *)
(* answers, the conservation units, replaces the areas in one transaction  *)
(* and generates the query regions in another.  The operator's selection   *)
(* does the same in its own transactions and undoes it when the regions    *)
(* would be too many.  Both hold the job locks boundary-sync and           *)
(* coverage-poll, the coverage cycle only the second.  The server may be   *)
(* killed anywhere, or a statement fail.                                   *)
(*                                                                         *)
(* The grid of regions is reduced to the set of areas it was generated     *)
(* from, the size of the grid to the number of those areas.  Time counts   *)
(* in hours and is kept relative: hours since an anchor.                   *)
(***************************************************************************)
EXTENDS Integers, FiniteSets, Sequences

CONSTANTS
    Territory,      \* ids of indigenous territories
    Source,         \* sources of conservation units whose answer can be used
    Watched,        \* the area whose choices the history follows: any one
    UnitOf,         \* UnitOf[s]: the ids that source s gives to the units it has
    MinTerritories, \* boundary_min_territories
    MaxQueryRegions,
    AutoSelectAll,  \* auto_select_all_on_first_sync
    AutoSelectNew,  \* auto_select_new_areas_when_all_selected
    Backoff,        \* _SYNC_BACKOFF_SCHEDULE_HOURS
    Interval,       \* boundary_sync_interval_days, in hours
    MaxAge,         \* bound: hours told apart
    MaxFaults       \* bound: kills and failing statements

Unit == UNION {UnitOf[s] : s \in Source}
AreaId == Territory \cup Unit

Hour == 0..MaxAge

ASSUME AreaAssumption ==
    /\ IsFiniteSet(Territory) /\ IsFiniteSet(Unit) /\ Territory \cap Unit = {}
    /\ {MinTerritories, MaxQueryRegions} \subseteq Nat
    /\ MinTerritories > 0
    /\ Watched \in AreaId
    /\ AutoSelectAll \in BOOLEAN /\ AutoSelectNew \in BOOLEAN
ASSUME TimeAssumption ==
    /\ Backoff \in Seq(Nat \ {0}) /\ Backoff # << >>
    /\ Interval \in Nat /\ MaxAge \in Nat /\ MaxFaults \in Nat
    /\ Interval <= MaxAge /\ \A i \in DOMAIN Backoff : Backoff[i] <= MaxAge

VARIABLES
    areas,      \* the areas table
    selected,   \* those with selected = 1
    regions,    \* query_regions: the areas the grid was generated from
    lock,       \* who holds the job lock coverage-poll
    sync,       \* the sync: where it stands and what it holds
    pick,       \* the selection request: where it stands, the previous selection
    run,        \* the latest row of dataset_syncs
    fails,      \* consecutive_sync_failures, as far as the schedule goes
    age,        \* hours since completed_at of that row, else since started_at
    torn,       \* history: areas or selection were changed, and the regions not
                \* generated, because of a fault
    unmet,      \* history: attempts since the last sync that succeeded
    since,      \* history: hours since the last attempt began
    wish,       \* history: what the operator last asked for the watched area: on or off
    lost,       \* history: a result without the watched area came since then
    faults

tables == <<areas, selected, regions>>
schedule == <<run, fails, age, unmet, since>>
choices == <<wish, lost>>
vars == <<tables, lock, sync, pick, schedule, torn, choices, faults>>

Nobody == "nobody"
None == "none"
IdleSync == [pc |-> "idle", records |-> {}]
IdlePick == [pc |-> "idle", previous |-> {}]

TypeOK ==
    /\ areas \subseteq AreaId /\ selected \subseteq areas /\ regions \subseteq AreaId
    /\ lock \in {Nobody, "sync", "pick", "cycle"}
    /\ sync \in [pc : {"idle", "download", "replace", "regions", "ok", "failed"},
                 records : SUBSET AreaId]
    /\ pick \in [pc : {"idle", "regions", "clear", "restore", "again"},
                 previous : SUBSET AreaId]
    /\ sync.pc # "idle" <=> lock = "sync"
    /\ pick.pc # "idle" <=> lock = "pick"
    /\ run \in {"none", "open", "failed", "ok"}
    /\ fails \in 0..Len(Backoff) /\ age \in Hour
    /\ wish \in {"on", "off", None} /\ lost \in BOOLEAN
    /\ torn \in BOOLEAN /\ unmet \in 0..Len(Backoff) /\ since \in Hour
    /\ faults \in 0..MaxFaults

Init ==
    /\ areas = {} /\ selected = {} /\ regions = {}
    /\ lock = Nobody /\ sync = IdleSync /\ pick = IdlePick
    /\ run = "none" /\ fails = 0 /\ age = 0
    /\ torn = FALSE /\ unmet = 0 /\ since = 0
    /\ wish = None /\ lost = FALSE /\ faults = 0

Capped(n, bound) == IF n < bound THEN n ELSE bound

(***************************************************************************)
(* When a sync is due                                                      *)
(***************************************************************************)

\* _sync_backoff_hours.
BackoffHours(count) == IF count = 0 THEN 0 ELSE Backoff[Capped(count, Len(Backoff))]

\* Mutation: a run that recorded no end is not taken for a failure.
DueAfterKill ==
    /\ run = "failed" => age >= BackoffHours(fails)
    /\ run = "ok" => age >= Interval

\* Mutation: a run without an end holds the next one off for ever.
DueUnlessOpen ==
    /\ run # "open"
    /\ run = "failed" => age >= BackoffHours(fails)
    /\ run = "ok" => age >= Interval

\* _sync_due: after a failure, or a run that never recorded its end, the backoff
\* must have gone by; after a success the interval.
Due ==
    /\ run \in {"failed", "open"} => age >= BackoffHours(fails)
    /\ run = "ok" => age >= Interval

(***************************************************************************)
(* The sync                                                                *)
(***************************************************************************)

\* Both job locks; every holder of boundary-sync also takes coverage-poll.
Free == lock = Nobody

\* The run is recorded as a failure until it says otherwise.
Start ==
    /\ Free
    /\ lock' = "sync"
    /\ sync' = [IdleSync EXCEPT !.pc = "download"]
    /\ run' = "open" /\ fails' = Capped(fails + 1, Len(Backoff)) /\ age' = 0
    /\ unmet' = Capped(unmet + 1, Len(Backoff)) /\ since' = 0
    /\ UNCHANGED <<tables, pick, torn, choices, faults>>

\* boundary_loop.  Nothing is awaited between the check and the locks.
AutoStart == Due /\ Start

\* The button of the dashboard and the command line ask nobody.
ManualStart == Start

\* The territories did not arrive in three tries, an archive is too big, unsafe or
\* cannot be read, or the units came from RAISG: _required_column finds no name among
\* the columns of its frame, and the last fallback ends the run.
DownloadFails ==
    /\ sync.pc = "download"
    /\ sync' = [sync EXCEPT !.pc = "failed"]
    /\ UNCHANGED <<tables, lock, pick, schedule, torn, choices, faults>>

Plausible(territories) == Cardinality(territories) >= MinTerritories

\* _download_funai: the territories of the target states with usable polygons.
TerritoryAnswers == SUBSET Territory

\* ICMBio, else CNUC: the usable units of the first source that answers, each with ids
\* of its own, or nothing when none does, nor RAISG.
UnitAnswers == {{}} \cup UNION {SUBSET UnitOf[s] : s \in Source}

\* _records_from_frames: one record per id, and an error when there is none at all.
Records(territories, units) == territories \cup units

\* Too few territories end the run; too few units, or none, are only logged.
Download(territories, units) ==
    /\ sync.pc = "download"
    /\ Records(territories, units) # {}
    /\ sync' = IF Plausible(territories)
               THEN [pc |-> "replace", records |-> Records(territories, units)]
               ELSE [sync EXCEPT !.pc = "failed"]
    /\ UNCHANGED <<tables, lock, pick, schedule, torn, choices, faults>>

\* default_new of replace_areas.
NewSelected ==
    \/ areas = {} /\ AutoSelectAll
    \/ areas # {} /\ selected = areas /\ AutoSelectNew

\* Mutation: rows that stay get the default of new ones.
ReplaceDefaults ==
    /\ sync.pc = "replace"
    /\ areas' = sync.records
    /\ selected' = (IF NewSelected THEN sync.records ELSE {})
    /\ sync' = [sync EXCEPT !.pc = "regions"]
    /\ lost' = (lost \/ Watched \notin sync.records)
    /\ UNCHANGED <<regions, lock, pick, schedule, torn, wish, faults>>

\* Mutation: the selection of an area that is gone stays behind.
ReplaceKeeps ==
    /\ sync.pc = "replace"
    /\ areas' = sync.records
    /\ selected' = selected \cup (IF NewSelected THEN sync.records \ areas ELSE {})
    /\ sync' = [sync EXCEPT !.pc = "regions"]
    /\ lost' = (lost \/ Watched \notin sync.records)
    /\ UNCHANGED <<regions, lock, pick, schedule, torn, wish, faults>>

\* replace_areas: one transaction.
Replace ==
    /\ sync.pc = "replace"
    /\ areas' = sync.records
    /\ selected' = (selected \cap sync.records)
                   \cup (IF NewSelected THEN sync.records \ areas ELSE {})
    /\ sync' = [sync EXCEPT !.pc = "regions"]
    /\ lost' = (lost \/ Watched \notin sync.records)
    /\ UNCHANGED <<regions, lock, pick, schedule, torn, wish, faults>>

\* More than max_query_regions.
TooBroad(set) == Cardinality(set) > MaxQueryRegions

\* Mutation: with nothing selected the old regions stay.
RegenerateSome == regions' = (IF selected = {} THEN regions ELSE selected) /\ torn' = FALSE

\* regenerate_query_regions reads the selection and replaces the regions.
Regenerate == regions' = selected /\ torn' = FALSE

SyncRegions ==
    /\ sync.pc = "regions"
    /\ IF TooBroad(selected)
       THEN sync' = [sync EXCEPT !.pc = "failed"] /\ UNCHANGED <<regions, torn>>
       ELSE sync' = [sync EXCEPT !.pc = "ok"] /\ Regenerate
    /\ UNCHANGED <<areas, selected, lock, pick, schedule, choices, faults>>

\* The end of the run is recorded and the locks are released.
SaveRun ==
    /\ sync.pc \in {"ok", "failed"}
    /\ run' = sync.pc /\ age' = 0
    /\ fails' = IF sync.pc = "ok" THEN 0 ELSE fails
    /\ unmet' = IF sync.pc = "ok" THEN 0 ELSE unmet
    /\ sync' = IdleSync /\ lock' = Nobody
    /\ UNCHANGED <<tables, pick, torn, since, choices, faults>>

(***************************************************************************)
(* The operator's selection                                                *)
(***************************************************************************)

\* areas_selection: the areas named, or those that match a category and a search.
Select(chosen, on) ==
    /\ Free
    /\ lock' = "pick"
    /\ pick' = [pc |-> "regions", previous |-> selected]
    /\ selected' = IF on THEN selected \cup chosen ELSE selected \ chosen
    /\ UNCHANGED <<areas, regions, sync, schedule, torn, choices, faults>>

PickOver == pick' = IdlePick /\ lock' = Nobody

\* The request was accepted: its changes are what the operator wishes.
Accept ==
    IF Watched \in selected <=> Watched \in pick.previous
    THEN UNCHANGED choices
    ELSE wish' = (IF Watched \in selected THEN "on" ELSE "off") /\ lost' = FALSE

PickRegions ==
    /\ pick.pc = "regions"
    /\ \/ ~TooBroad(selected) /\ Regenerate /\ PickOver /\ Accept
       \/ /\ TooBroad(selected)
          /\ pick' = [pick EXCEPT !.pc = "clear"]
          /\ UNCHANGED <<regions, lock, torn, choices>>
    /\ UNCHANGED <<areas, selected, sync, schedule, faults>>

\* The rollback: bulk_area_selection(False) ...
PickClear ==
    /\ pick.pc = "clear"
    /\ selected' = {}
    /\ pick' = [pick EXCEPT !.pc = "restore"]
    /\ UNCHANGED <<areas, regions, lock, sync, schedule, torn, choices, faults>>

\* ... set_area_selection(previous_selection, True), which ignores areas gone since ...
PickRestore ==
    /\ pick.pc = "restore"
    /\ selected' = selected \cup (pick.previous \cap areas)
    /\ pick' = [pick EXCEPT !.pc = "again"]
    /\ UNCHANGED <<areas, regions, lock, sync, schedule, torn, choices, faults>>

\* ... and the regions once more, which may be too many again.
PickAgain ==
    /\ pick.pc = "again"
    /\ IF TooBroad(selected) THEN UNCHANGED <<regions, torn>> ELSE Regenerate
    /\ PickOver
    /\ UNCHANGED <<areas, selected, sync, schedule, choices, faults>>

(***************************************************************************)
(* The coverage cycle, the clock, faults                                   *)
(***************************************************************************)

\* Mutation: the cycle takes a lock of its own.
CycleBeginAnyway == lock' = "cycle"

\* The cycle reads the regions, and after the requests the geometries.
CycleBegin == Free /\ lock' = "cycle"

CycleStart ==
    /\ CycleBegin
    /\ UNCHANGED <<tables, sync, pick, schedule, torn, choices, faults>>

CycleEnd ==
    /\ lock = "cycle"
    /\ lock' = Nobody
    /\ UNCHANGED <<tables, sync, pick, schedule, torn, choices, faults>>

Tick ==
    /\ age < MaxAge \/ since < MaxAge
    /\ age' = Capped(age + 1, MaxAge) /\ since' = Capped(since + 1, MaxAge)
    /\ UNCHANGED <<tables, lock, sync, pick, run, fails, unmet, torn, choices, faults>>

\* Who changed the selection sees an error and does not know what was done.
Forget == wish' = None /\ lost' = FALSE

\* The process that holds the locks is killed: they are released, and what it had
\* committed stays.
Kill ==
    /\ ~Free /\ faults < MaxFaults
    /\ faults' = faults + 1
    /\ lock' = Nobody /\ sync' = IdleSync /\ pick' = IdlePick
    /\ torn' = (torn \/ pick.pc # "idle" \/ sync.pc = "regions")
    /\ IF pick.pc # "idle" THEN Forget ELSE UNCHANGED choices
    /\ UNCHANGED <<tables, schedule>>

\* A statement fails, or a geometry: the sync records it; a selection request ends
\* where it is, its rollback being for too many regions only.
Breaks ==
    /\ faults < MaxFaults
    /\ faults' = faults + 1
    /\ \/ /\ sync.pc \in {"download", "replace", "regions"}
          /\ sync' = [sync EXCEPT !.pc = "failed"]
          /\ torn' = (torn \/ sync.pc = "regions")
          /\ UNCHANGED <<lock, pick, choices>>
       \/ /\ pick.pc # "idle"
          /\ PickOver
          /\ torn' = TRUE
          /\ Forget
          /\ UNCHANGED sync
    /\ UNCHANGED <<tables, schedule>>

SyncStep ==
    \/ DownloadFails
    \/ \E territories \in TerritoryAnswers, units \in UnitAnswers : Download(territories, units)
    \/ Replace \/ SyncRegions \/ SaveRun

PickStep == PickRegions \/ PickClear \/ PickRestore \/ PickAgain

Next ==
    \/ AutoStart \/ ManualStart \/ SyncStep
    \/ \E chosen \in SUBSET areas, on \in BOOLEAN : Select(chosen, on)
    \/ PickStep
    \/ CycleStart \/ CycleEnd
    \/ Tick \/ Kill \/ Breaks

Spec == Init /\ [][Next]_vars

\* Whoever holds the locks goes on and releases them, and time goes by.  The loop
\* looks every few hours, by chance at moments when a cycle holds the lock: it is
\* not always out of luck.
FairSpec ==
    /\ Spec
    /\ WF_vars(SyncStep) /\ WF_vars(PickStep) /\ WF_vars(CycleEnd) /\ WF_vars(Tick)
    /\ SF_vars(AutoStart)

(***************************************************************************)
(* Properties                                                              *)
(***************************************************************************)

\* The watched area is selected, or not, as the operator last said.
Obeyed ==
    /\ wish = "on" => Watched \in selected
    /\ wish = "off" => Watched \notin selected

\* "Selection and generated regions are one logical configuration change"
\* (areas_selection): with nobody at work the regions are those of the selection,
\* unless a fault tore them apart, or a sync let the selection grow past the limit.
RegionsMatch == Free /\ ~torn => regions = selected \/ TooBroad(selected)

\* The regions a cycle polls and the areas it classifies by belong together: neither
\* changes from its begin to its end.
OneMapPerCycle == [][lock = "cycle" /\ lock' = "cycle" => UNCHANGED tables]_vars

\* The operator's last word on an area holds, whatever syncs, refused requests and
\* faults come after it, as long as every result has brought the area again.
ChoicesKept == Free /\ Watched \in areas /\ ~lost => Obeyed

\* "Back off automatic boundary sync exponentially after consecutive failures" (SPEC),
\* also when the failure was that the server died: automatic attempts without a
\* success between them begin at least the backoff apart.
AttemptsApart ==
    [][AutoStart /\ unmet > 0 => since >= BackoffHours(unmet)]_vars

\* A failed or interrupted sync is tried again without the operator.
SyncRetried == (run \in {"failed", "open"} /\ sync.pc = "idle") ~> sync.pc # "idle"

\* SPEC: "Preserve operator selection across refreshes using stable identifiers":
\* the operator's last word on an area holds whenever there is such an area.
SelectionPreserved == Free /\ Watched \in areas => Obeyed

=============================================================================
