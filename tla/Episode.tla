------------------------------ MODULE Episode ------------------------------
(***************************************************************************)
(* What one observation, or one complete coverage cycle without the        *)
(* aircraft, does to an aircraft_state row: the decisions of               *)
(* process_observation and process_missing (app/detection.py) as           *)
(* operators.  The modules that instantiate an engine (one loop with its   *)
(* history, or two loops over one database) say when they happen.          *)
(*                                                                         *)
(* The world is a line of positions, some of them inside the selected      *)
(* areas; times are whole numbers.  Two numbers of the source are reduced  *)
(* to the one comparison made with them: the ground speed to "low", the    *)
(* altitude to "altLow" (unknown, or not above disappear_max_altitude_ft). *)
(***************************************************************************)
EXTENDS Integers

CONSTANTS
    Pos,                \* positions an aircraft reports
    Area,               \* those inside a selected area
    Radius,             \* stationary_radius_meters
    Provider,           \* providers of observations
    Region,             \* query regions and FR24 clusters
    OutsideConfirm,     \* outside_confirmation_observations
    StopObservations,   \* min_inside_observations_for_stop
    StopDuration,       \* stop_min_duration_seconds
    GoneObservations,   \* min_inside_observations_for_disappearance
    GonePolls,          \* disappear_after_successful_polls
    None                \* SQL NULL

ASSUME WorldAssumption == Pos \subseteq Int /\ Area \subseteq Pos
\* At least 1 each; SETTING_DEFS require more of some.
ASSUME SettingsAssumption ==
    /\ Radius \in Nat
    /\ {OutsideConfirm, StopObservations, GoneObservations, GonePolls} \subseteq Nat \ {0}
    /\ StopDuration \in Nat \ {0}
ASSUME NoneAssumption == None \notin Int

Observation ==
    [seen : Nat, pos : Pos, low : BOOLEAN, airline : BOOLEAN, altLow : BOOLEAN,
     prov : Provider, region : Region]

\* An aircraft_state row; the episode is named by the second it was opened in.
State ==
    [seen : Nat, pos : Pos, airline : BOOLEAN, altLow : BOOLEAN,
     prov : Provider, region : Region,
     inside : BOOLEAN,              \* area_ids_json is not '[]'
     insideObs : Nat, outsideObs : Nat,
     since : Nat \cup {None}, anchor : Pos \cup {None},
     missing : Nat,
     episode : Nat \cup {None},
     stopped : BOOLEAN, gone : BOOLEAN]

ASSUME NoneIsNoState == None \notin State

Inside(pos) == pos \in Area

Distance(p, q) == IF p < q THEN q - p ELSE p - q

HasEpisode(row) == row # None /\ row.episode # None

\* Out-of-order data cannot rewrite state.
Stale(row, obs) == row # None /\ obs.seen <= row.seen

\* Mutation: the row names its new provider, but keeps the region it had.
LocatedKeepsRegion(row, obs) ==
    [row EXCEPT !.seen = obs.seen, !.pos = obs.pos, !.altLow = obs.altLow,
                !.prov = obs.prov, !.missing = 0]

Located(row, obs) ==
    [row EXCEPT !.seen = obs.seen, !.pos = obs.pos, !.altLow = obs.altLow,
                !.prov = obs.prov, !.region = obs.region, !.missing = 0]

(***************************************************************************)
(* Outside every selected area                                             *)
(***************************************************************************)

\* _close_episode: the row is kept, its episode is forgotten.
Closed(obs) ==
    [seen |-> obs.seen, pos |-> obs.pos, airline |-> obs.airline,
     altLow |-> obs.altLow, prov |-> obs.prov, region |-> obs.region,
     inside |-> FALSE, insideObs |-> 0, outsideObs |-> 0,
     since |-> None, anchor |-> None, missing |-> 0, episode |-> None,
     stopped |-> FALSE, gone |-> FALSE]

\* Mutation: the first observation outside closes the episode.
LeftAtOnce(row, obs) == Closed(obs)

\* An open episode closes after OutsideConfirm observations outside; until then
\* the row keeps its areas, its classification and its stationary window.
Left(row, obs) ==
    IF row.outsideObs + 1 >= OutsideConfirm
    THEN Closed(obs)
    ELSE [Located(row, obs) EXCEPT !.outsideObs = @ + 1]

(***************************************************************************)
(* Inside a selected area                                                  *)
(***************************************************************************)

Continuing(row) == HasEpisode(row) /\ row.inside

Opened(obs) ==
    [seen |-> obs.seen, pos |-> obs.pos, airline |-> obs.airline,
     altLow |-> obs.altLow, prov |-> obs.prov, region |-> obs.region,
     inside |-> TRUE, insideObs |-> 1, outsideObs |-> 0,
     since |-> IF obs.low THEN obs.seen ELSE None,
     anchor |-> IF obs.low THEN obs.pos ELSE None,
     missing |-> 0, episode |-> obs.seen, stopped |-> FALSE, gone |-> FALSE]

\* Mutation: displacement is measured from the last position, not the anchor.
KeepsWindowByStep(row, obs) ==
    /\ row.missing = 0
    /\ row.anchor # None
    /\ Distance(row.pos, obs.pos) <= Radius

\* The stationary window goes on over another low-speed observation near its
\* anchor, unless a cycle went by without the aircraft.
KeepsWindow(row, obs) ==
    /\ row.missing = 0
    /\ row.anchor # None
    /\ Distance(row.anchor, obs.pos) <= Radius

\* Mutation: excessive displacement ends the window and starts none.
WindowedNoRestart(row, obs) ==
    IF ~obs.low THEN [row EXCEPT !.since = None, !.anchor = None]
    ELSE IF KeepsWindow(row, obs) THEN row
    ELSE IF row.missing = 0 /\ row.anchor # None THEN [row EXCEPT !.since = None, !.anchor = None]
    ELSE [row EXCEPT !.since = obs.seen, !.anchor = obs.pos]

Windowed(row, obs) ==
    IF ~obs.low THEN [row EXCEPT !.since = None, !.anchor = None]
    ELSE IF KeepsWindow(row, obs) THEN row
    ELSE [row EXCEPT !.since = obs.seen, !.anchor = obs.pos]

\* Mutation: the outside counter is cleared to NULL.
AdvancedToNull(row, obs) ==
    [Located(Windowed(row, obs), obs) EXCEPT
        !.airline = obs.airline, !.insideObs = @ + 1, !.outsideObs = None]

Advanced(row, obs) ==
    [Located(Windowed(row, obs), obs) EXCEPT
        !.airline = obs.airline, !.insideObs = @ + 1, !.outsideObs = 0]

\* Due on the advanced row; with no window the duration is zero.
StopDue(row, obs) ==
    /\ ~row.airline /\ ~row.stopped
    /\ row.insideObs >= StopObservations
    /\ obs.low
    /\ row.since # None /\ obs.seen - row.since >= StopDuration

\* What an accepted observation makes of the row, before any event is recorded.
Update(row, obs) ==
    IF Inside(obs.pos)
    THEN IF Continuing(row) THEN Advanced(row, obs) ELSE Opened(obs)
    ELSE IF HasEpisode(row) THEN Left(row, obs) ELSE Closed(obs)

\* Outside with no row there is nothing to track.
Writes(row, obs) == ~Stale(row, obs) /\ (Inside(obs.pos) \/ row # None)

\* PROBABLE_STOP is considered only where an episode goes on inside.
RaisesStop(row, obs) ==
    /\ Writes(row, obs)
    /\ Inside(obs.pos) /\ Continuing(row)
    /\ StopDue(Advanced(row, obs), obs)

(***************************************************************************)
(* A complete cycle that did not return the aircraft                       *)
(***************************************************************************)

\* Mutation: a pending exit counts missed cycles too.
CountsWhileLeaving(row, successful) ==
    /\ row.region \in successful
    /\ HasEpisode(row) /\ row.inside
    /\ ~row.airline

Counts(row, successful) ==
    /\ row.region \in successful
    /\ HasEpisode(row) /\ row.inside
    /\ row.outsideObs = 0
    /\ ~row.airline

Missed(row) == [row EXCEPT !.missing = @ + 1]

\* Due on the row with the missed cycle counted.
GoneDue(row) ==
    /\ row.insideObs >= GoneObservations /\ row.altLow
    /\ ~row.gone
    /\ row.missing >= GonePolls

(***************************************************************************)
(* What every stored row looks like                                        *)
(***************************************************************************)

\* The columns of a row agree with each other: an episode is open exactly while
\* the row has areas, a closed row is blank, the stationary window lies within
\* the episode, missed cycles are not counted over a pending exit, and a flag is
\* up only once the thresholds for its alert were met.
Coherent(row) ==
    /\ row.inside <=> row.episode # None
    /\ row.episode = None =>
          /\ row.insideObs = 0 /\ row.outsideObs = 0 /\ row.missing = 0
          /\ row.since = None /\ ~row.stopped /\ ~row.gone
    /\ row.episode # None => row.episode <= row.seen /\ row.insideObs >= 1
    /\ row.since = None <=> row.anchor = None
    /\ row.since # None => row.episode <= row.since /\ row.since <= row.seen
    /\ row.missing > 0 => row.outsideObs = 0
    /\ row.outsideObs < OutsideConfirm
    /\ row.outsideObs = 0 => (row.inside <=> Inside(row.pos))
    /\ row.stopped => row.insideObs >= StopObservations
    /\ row.gone => row.insideObs >= GoneObservations

=============================================================================
