----------------------------- MODULE Detection -----------------------------
(***************************************************************************)
(* Two detection loops over one database: the free-provider coverage cycle *)
(* (app/main.py) and the FR24 cycle (app/fr24_scheduler.py), each feeding  *)
(* process_observation and process_missing (app/detection.py), for one     *)
(* aircraft.                                                               *)
(*                                                                         *)
(* The loops hold separate locks and meet only in the database.  A manual  *)
(* coverage cycle of the command line runs in a process of its own beside  *)
(* the server's FR24 cycle, so they interleave between any two SQL         *)
(* transactions; within one process they interleave at the awaits (the     *)
(* fetch, the delivery of an alert), a subset of the same behaviours.      *)
(*                                                                         *)
(* cas_upsert_state is one step here: what its transactions do between     *)
(* them is the subject of AircraftState.                                   *)
(***************************************************************************)
EXTENDS Episode

CONSTANTS
    Grid, FR24,     \* the two loops; also the providers they name in rows
    RegionOf,       \* RegionOf[l]: the region or cluster loop l covers
    Report,         \* what the aircraft may report: [pos, low, airline, altLow]
    MaxAge,         \* position_max_age_seconds
    MaxTime,        \* bound: the clock
    MaxMissing,     \* bound: missed cycles counted on one row
    MaxCrashes      \* bound: cycles cut short

Loop == {Grid, FR24}

ASSUME LoopAssumption == Grid # FR24 /\ Loop \subseteq Provider
ASSUME RegionAssumption ==
    RegionOf \in [Loop -> Region] /\ RegionOf[Grid] # RegionOf[FR24]
ASSUME ReportAssumption ==
    Report \subseteq [pos : Pos, low : BOOLEAN, airline : BOOLEAN, altLow : BOOLEAN]
ASSUME BoundsAssumption == {MaxAge, MaxTime, MaxMissing, MaxCrashes} \subseteq Nat

VARIABLES
    now,        \* the clock
    row, seq,   \* the aircraft's row (or None) and its updated_seq
    alerts,     \* the events table: [episode, type, provider, at]
    pc,         \* pc[l]: where loop l stands in its cycle
    obs,        \* obs[l]: what the fetch of the cycle returned for the aircraft
    complete,   \* complete[l]: the cycle covered the loop's region completely
    payload,    \* payload[l]: the row l is about to store
    base,       \* base[l]: the updated_seq the payload carries, or None
    crashes

vars == <<now, row, seq, alerts, pc, obs, complete, payload, base, crashes>>
locals == <<obs, complete, payload, base>>

Phase == {"idle", "fetched", "PROBABLE_STOP", "DISAPPEARED", "store"}

TypeOK ==
    /\ now \in 0..MaxTime
    /\ row \in State \cup {None}
    /\ seq \in Nat
    /\ \A a \in alerts :
          /\ a.episode \in 0..MaxTime /\ a.at \in 0..MaxTime
          /\ a.type \in {"PROBABLE_STOP", "DISAPPEARED"} /\ a.provider \in Loop
    /\ pc \in [Loop -> Phase]
    /\ obs \in [Loop -> Observation \cup {None}]
    /\ complete \in [Loop -> BOOLEAN]
    /\ payload \in [Loop -> State \cup {None}]
    /\ base \in [Loop -> Nat \cup {None}]
    /\ crashes \in 0..MaxCrashes

Init ==
    /\ now = 0
    /\ row = None /\ seq = 0
    /\ alerts = {}
    /\ pc = [l \in Loop |-> "idle"]
    /\ obs = [l \in Loop |-> None]
    /\ complete = [l \in Loop |-> FALSE]
    /\ payload = [l \in Loop |-> None]
    /\ base = [l \in Loop |-> None]
    /\ crashes = 0

Goto(l, label) == pc' = [pc EXCEPT ![l] = label]

\* The cycle ends, or is abandoned: its locals go with it.
Return(l) ==
    /\ Goto(l, "idle")
    /\ obs' = [obs EXCEPT ![l] = None]
    /\ complete' = [complete EXCEPT ![l] = FALSE]
    /\ payload' = [payload EXCEPT ![l] = None]
    /\ base' = [base EXCEPT ![l] = None]

(***************************************************************************)
(* The fetch                                                               *)
(***************************************************************************)

Fresh(t) == now - t <= MaxAge

\* _free_grid_actively_tracking: another provider holds a fresh claim.
GridTracks == row # None /\ row.prov # FR24 /\ Fresh(row.seen)

Observed(l, report, t) ==
    [seen |-> t, pos |-> report.pos, low |-> report.low, airline |-> report.airline,
     altLow |-> report.altLow, prov |-> l, region |-> RegionOf[l]]

\* Providers drop positions older than position_max_age_seconds.
Sightings(l) ==
    {Observed(l, report, t) : report \in Report, t \in {u \in 0..now : Fresh(u)}}

\* The FR24 cycle leaves out aircraft the free grid tracks, as it receives them.
Kept(l, sighting) == IF l = FR24 /\ GridTracks THEN None ELSE sighting

\* The providers answer: with the aircraft or without it, for the whole region
\* or not (a failed provider; a truncated FR24 response).
Fetch(l, sighting, whole) ==
    /\ pc[l] = "idle"
    /\ Goto(l, "fetched")
    /\ obs' = [obs EXCEPT ![l] = Kept(l, sighting)]
    /\ complete' = [complete EXCEPT ![l] = whole]
    /\ UNCHANGED <<now, row, seq, alerts, payload, base, crashes>>

(***************************************************************************)
(* process_observation and process_missing                                 *)
(***************************************************************************)

\* A new episode is written without a revision, all other rows with the one read.
Base(o) == IF Inside(o.pos) /\ ~Continuing(row) THEN None ELSE seq

Plan(l, new, rev, label) ==
    /\ payload' = [payload EXCEPT ![l] = new]
    /\ base' = [base EXCEPT ![l] = rev]
    /\ Goto(l, label)
    /\ UNCHANGED <<obs, complete>>

\* get_state, and the decision taken on what it returned.
Process(l) ==
    /\ pc[l] = "fetched"
    /\ obs[l] # None
    /\ \/ /\ Writes(row, obs[l])
          /\ Plan(l, Update(row, obs[l]), Base(obs[l]),
                  IF RaisesStop(row, obs[l]) THEN "PROBABLE_STOP" ELSE "store")
       \/ /\ ~Writes(row, obs[l])
          /\ Return(l)
    /\ UNCHANGED <<now, row, seq, alerts, crashes>>

\* Mutation: an incomplete cycle counts like a complete one.
CoveredAlways(l) == {RegionOf[l]}

Covered(l) == IF complete[l] THEN {RegionOf[l]} ELSE {}

CountedHere(l) ==
    row # None /\ Counts(row, Covered(l)) /\ row.missing < MaxMissing

\* active_states, and what the snapshot says of the aircraft the cycle missed.
Snapshot(l) ==
    /\ pc[l] = "fetched"
    /\ obs[l] = None
    /\ \/ /\ CountedHere(l)
          /\ Plan(l, Missed(row), seq,
                  IF GoneDue(Missed(row)) THEN "DISAPPEARED" ELSE "store")
       \/ /\ ~CountedHere(l)
          /\ Return(l)
    /\ UNCHANGED <<now, row, seq, alerts, crashes>>

Recorded(episode, type) ==
    \E a \in alerts : a.episode = episode /\ a.type = type

\* insert_event succeeds unless the deduplication key is taken.
Insertable(episode, type) == ~Recorded(episode, type)

Flagged(p, type) ==
    IF type = "PROBABLE_STOP" THEN [p EXCEPT !.stopped = TRUE]
                              ELSE [p EXCEPT !.gone = TRUE]

\* _persist: the event first, the flag in the row to be stored only if it is new.
\* The event names the provider of the position it is about.
Alert(l, type) ==
    LET p == payload[l]
    IN  /\ pc[l] = type
        /\ \/ /\ Insertable(p.episode, type)
              /\ alerts' = alerts \cup {[episode |-> p.episode, type |-> type,
                                         provider |-> p.prov, at |-> now]}
              /\ payload' = [payload EXCEPT ![l] = Flagged(p, type)]
           \/ /\ ~Insertable(p.episode, type)
              /\ UNCHANGED <<alerts, payload>>
        /\ Goto(l, "store")
        /\ UNCHANGED <<now, row, seq, obs, complete, base, crashes>>

\* Mutation: an unconditional write, as before updated_seq.
LandsAlways(p, rev) == TRUE

\* cas_upsert_state lands a payload on no row, on the revision it was read at,
\* or on a staler row.
Lands(p, rev) == row # None => (seq = rev \/ p.seen > row.seen)

\* Mutation: a retried payload inherits the flags of the row it replaces.
StoredWithFlags(p, rev) ==
    IF row = None \/ seq = rev THEN p
    ELSE [p EXCEPT !.stopped = @ \/ row.stopped, !.gone = @ \/ row.gone]

\* The retry writes the payload as it was, whatever it replaces.
Stored(p, rev) == p

Store(l) ==
    /\ pc[l] = "store"
    /\ \/ /\ Lands(payload[l], base[l])
          /\ row' = Stored(payload[l], base[l])
          /\ seq' = seq + 1
       \/ /\ ~Lands(payload[l], base[l])
          /\ UNCHANGED <<row, seq>>
    /\ Return(l)
    /\ UNCHANGED <<now, alerts, crashes>>

(***************************************************************************)
(* The surroundings                                                        *)
(***************************************************************************)

\* The process dies or an exception ends the cycle; what was committed stays.
Crash(l) ==
    /\ pc[l] # "idle"
    /\ crashes < MaxCrashes
    /\ crashes' = crashes + 1
    /\ Return(l)
    /\ UNCHANGED <<now, row, seq, alerts>>

Tick ==
    /\ now < MaxTime
    /\ now' = now + 1
    /\ UNCHANGED <<row, seq, alerts, pc, obs, complete, payload, base, crashes>>

Step(l) ==
    \/ Process(l)
    \/ Snapshot(l)
    \/ Alert(l, "PROBABLE_STOP")
    \/ Alert(l, "DISAPPEARED")
    \/ Store(l)

Next ==
    \/ \E l \in Loop :
          \/ \E sighting \in Sightings(l) \cup {None}, whole \in BOOLEAN :
                Fetch(l, sighting, whole)
          \/ Step(l)
          \/ Crash(l)
    \/ Tick

Spec == Init /\ [][Next]_vars

\* A cycle in progress goes on.  Nothing makes one begin: the FR24 loop stops at the
\* kill switch, with the budget exhausted, and when its cluster is removed.
FairSpec == Spec /\ \A l \in Loop : WF_vars(Step(l))

(***************************************************************************)
(* Properties                                                              *)
(***************************************************************************)

\* The row stays coherent under both loops' writes.
RowCoherent == row # None => Coherent(row)

\* A flag in the row is backed by the event of that very episode, so a flag can
\* never silence an alert that was not recorded.
FlagsBacked ==
    row # None =>
        /\ row.stopped => Recorded(row.episode, "PROBABLE_STOP")
        /\ row.gone => Recorded(row.episode, "DISAPPEARED")

\* A missed cycle is counted only on top of the very row it was counted from:
\* the active_states() snapshot never overwrites an observation committed since
\* (the lost update cas_upsert_state was written against).
CountsOnTop ==
    [][row # None /\ row'.missing > row.missing
       => row' = [Missed(row) EXCEPT !.gone = row'.gone]]_vars

\* ... and only for a cycle that covered the row's own region completely without
\* the aircraft ("provider failures never increment disappearance").
CountsCoveredRegion ==
    [][row # None /\ row'.missing > row.missing
       => \E l \in Loop :
             complete[l] /\ obs[l] = None /\ RegionOf[l] = row.region]_vars

\* Could still disappear: an open, low, unscheduled episode last seen inside.
Waiting(e) ==
    /\ row # None /\ row.episode = e
    /\ row.outsideObs = 0 /\ ~row.airline /\ row.altLow
    /\ row.insideObs >= GoneObservations

\* An aircraft that stays away is reported by the loop that owns its row, as long as
\* that loop goes on completing cycles without it, whatever the other one does; each
\* loses the row only to a fresher observation.
GoneReported ==
    \A e \in 0..MaxTime, l \in Loop :
        []<><<Fetch(l, None, TRUE)>>_vars =>
            (Waiting(e) /\ row.prov = l ~>
                Recorded(e, "DISAPPEARED") \/ ~Waiting(e) \/ row.prov # l)

=============================================================================
