----------------------------- MODULE TrackFetch -----------------------------
(***************************************************************************)
(* The manual purchase of a flight's track (fr24_track_fetch, app/main.py; *)
(* save_fr24_track, app/database.py).  The flight of an event is read from *)
(* the enrichment row of its episode, which the FR24 cycle may meanwhile   *)
(* write again; the request then takes a file lock named after the flight, *)
(* looks for the track once more, checks the budget, pays, and stores the  *)
(* answer under UNIQUE(event_id) and UNIQUE(fr24_id).                      *)
(*                                                                         *)
(* The handler awaits the provider and the closing of its client: other    *)
(* requests, enrichment, the retention and a crash come in between.  The   *)
(* lock is there for several processes, so that the look-up before it is   *)
(* a step of its own.                                                      *)
(***************************************************************************)
EXTENDS FR24Credits, FiniteSets

CONSTANTS
    Request,   \* requests of the operator
    Event,     \* rows of events
    EpisodeOf, \* EpisodeOf[v]: the episode named in the details of event v
    MaxCrashes \* bound

ASSUME EventAssumption == EpisodeOf \in [Event -> Episode] /\ None \notin Event \cup Flight
ASSUME RequestAssumption == IsFiniteSet(Request)
ASSUME CrashAssumption == MaxCrashes \in Nat

VARIABLES
    events,    \* the events retained
    tracks,    \* fr24_tracks: whose flight is stored for which event, and what it
               \* was charged for (estimated_credits)
    pc,        \* pc[r]: "idle", "found", "fetch" or "save"
    event,     \* event[r]: the event asked for, or None
    flight,    \* flight[r]: its fr24_id, or None
    lastMonth, \* lastMonth[r]: the request's billing cycle is over
    bill,      \* bill[r]: flights in the answer being stored
    paid,      \* history: paid[f]: flights f paid for
    wasted,    \* history: wasted[f]: those not kept, for a reason nobody can help
    crashes

request == <<pc, event, flight, lastMonth, bill>>
vars == <<credits, events, tracks, request, paid, wasted, crashes>>

Track == [event : Event, flight : Flight, bill : 0..1]

TypeOK ==
    /\ CreditsTypeOK
    /\ events \subseteq Event
    /\ tracks \subseteq Track /\ \A t \in tracks : t.event \in events
    /\ pc \in [Request -> {"idle", "found", "fetch", "save"}]
    /\ event \in [Request -> Event \cup {None}]
    /\ flight \in [Request -> Flight \cup {None}]
    /\ lastMonth \in [Request -> BOOLEAN]
    /\ bill \in [Request -> 0..1]
    /\ paid \in [Flight -> Nat] /\ wasted \in [Flight -> Nat]
    /\ crashes \in 0..MaxCrashes

Init ==
    /\ CreditsInit
    /\ events = Event /\ tracks = {}
    /\ pc = [r \in Request |-> "idle"]
    /\ event = [r \in Request |-> None] /\ flight = [r \in Request |-> None]
    /\ lastMonth = [r \in Request |-> FALSE] /\ bill = [r \in Request |-> 0]
    /\ paid = [f \in Flight |-> 0] /\ wasted = [f \in Flight |-> 0]
    /\ crashes = 0

Goto(r, label) == pc' = [pc EXCEPT ![r] = label]

\* The request is answered, whatever the answer, and its lock released.
Return(r) ==
    /\ Goto(r, "idle")
    /\ event' = [event EXCEPT ![r] = None] /\ flight' = [flight EXCEPT ![r] = None]
    /\ lastMonth' = [lastMonth EXCEPT ![r] = FALSE] /\ bill' = [bill EXCEPT ![r] = 0]

(***************************************************************************)
(* One request                                                             *)
(***************************************************************************)

\* Mutation: only the event's own track counts.
FetchedForEvent(v, f) == \E t \in tracks : t.event = v

\* get_fr24_track_by_event: the event's own track, or that of its flight.
Fetched(v, f) == \E t \in tracks : t.event = v \/ t.flight = f

\* Up to the first "already_fetched": the event exists and its flight is known.
Find(r, v) ==
    /\ pc[r] = "idle"
    /\ v \in events
    /\ row[EpisodeOf[v]] # None
    /\ ~Fetched(v, row[EpisodeOf[v]].flight)
    /\ event' = [event EXCEPT ![r] = v]
    /\ flight' = [flight EXCEPT ![r] = row[EpisodeOf[v]].flight]
    /\ Goto(r, "found")
    /\ UNCHANGED <<credits, events, tracks, lastMonth, bill, paid, wasted, crashes>>

\* Mutation: the lock is named after the event.
LockedByEvent(r) ==
    \E s \in Request \ {r} : pc[s] \in {"fetch", "save"} /\ event[s] = event[r]

\* exclusive_job_lock on the flight is held by another request.
Locked(r) ==
    \E s \in Request \ {r} : pc[s] \in {"fetch", "save"} /\ flight[s] = flight[r]

\* Mutation: the pause is lifted for what the operator asks for.
NeverRefused == FALSE

Refused == Paused

\* With the lock held: the second look and the budget.
Admit(r) ==
    /\ pc[r] = "found"
    /\ IF Locked(r) \/ Fetched(event[r], flight[r]) \/ Refused
       THEN Return(r)
       ELSE Goto(r, "fetch") /\ UNCHANGED <<event, flight, lastMonth, bill>>
    /\ UNCHANGED <<credits, events, tracks, paid, wasted, crashes>>

\* fetch_track succeeds; credits are billed per flight returned.
Pay(r, n) ==
    /\ pc[r] = "fetch"
    /\ Charge(TrackCredits(n), lastMonth[r])
    /\ bill' = [bill EXCEPT ![r] = n]
    /\ paid' = [paid EXCEPT ![flight[r]] = @ + n]
    /\ Goto(r, "save")
    /\ UNCHANGED <<row, events, tracks, event, flight, lastMonth, wasted, crashes>>

\* fetch_track fails; nothing is charged.
Fail(r) ==
    /\ pc[r] = "fetch"
    /\ Return(r)
    /\ UNCHANGED <<credits, events, tracks, paid, wasted, crashes>>

Waste(r) == wasted' = [wasted EXCEPT ![flight[r]] = @ + bill[r]]

\* save_fr24_track refuses the answer when the event was deleted meanwhile, when it
\* got the track of another flight, or when the flight is stored already.
Store(r) ==
    /\ pc[r] = "save"
    /\ IF event[r] \in events /\ ~Fetched(event[r], flight[r])
       THEN /\ tracks' = tracks \cup {[event |-> event[r], flight |-> flight[r], bill |-> bill[r]]}
            /\ UNCHANGED wasted
       ELSE /\ UNCHANGED tracks
            /\ IF event[r] \notin events \/ \E t \in tracks : t.event = event[r] /\ t.flight # flight[r]
               THEN Waste(r) ELSE UNCHANGED wasted
    /\ Return(r)
    /\ UNCHANGED <<credits, events, paid, crashes>>

(***************************************************************************)
(* The surroundings                                                        *)
(***************************************************************************)

\* The FR24 cycle (module FR24Cycle) writes the enrichment row of an episode, with
\* the flight the aircraft is on by now.
Enrich(e, status, f) ==
    /\ Eligible(e)
    /\ SaveEnrichment(e, status, f)
    /\ UNCHANGED <<used, events, tracks, request, paid, wasted, crashes>>

Interval ==
    /\ IntervalPasses
    /\ UNCHANGED <<used, events, tracks, request, paid, wasted, crashes>>

\* Mutation: the tracks of a deleted event stay.
DeleteWithoutCascade(v) ==
    /\ v \in events
    /\ events' = events \ {v}
    /\ UNCHANGED <<credits, tracks, request, paid, wasted, crashes>>

\* The retention deletes an event, and its track with it (ON DELETE CASCADE).
Delete(v) ==
    /\ v \in events
    /\ events' = events \ {v}
    /\ tracks' = {t \in tracks : t.event # v}
    /\ wasted' = [f \in Flight |->
                    IF [event |-> v, flight |-> f, bill |-> 1] \in tracks
                    THEN wasted[f] + 1 ELSE wasted[f]]
    /\ UNCHANGED <<credits, request, paid, crashes>>

NewMonth ==
    /\ used' = 0
    /\ lastMonth' = [r \in Request |-> pc[r] = "fetch"]
    /\ UNCHANGED <<row, events, tracks, pc, event, flight, bill, paid, wasted, crashes>>

Billed(f) == Cardinality({r \in Request : pc[r] = "save" /\ flight[r] = f /\ bill[r] = 1})

\* The server dies; every request and every lock is gone.
Crash ==
    /\ crashes < MaxCrashes
    /\ crashes' = crashes + 1
    /\ wasted' = [f \in Flight |-> wasted[f] + Billed(f)]
    /\ pc' = [r \in Request |-> "idle"]
    /\ event' = [r \in Request |-> None] /\ flight' = [r \in Request |-> None]
    /\ lastMonth' = [r \in Request |-> FALSE] /\ bill' = [r \in Request |-> 0]
    /\ UNCHANGED <<credits, events, tracks, paid>>

Next ==
    \/ \E r \in Request :
          \/ \E v \in Event : Find(r, v)
          \/ Admit(r) \/ (\E n \in 0..1 : Pay(r, n)) \/ Fail(r) \/ Store(r)
    \/ \E e \in Episode, status \in Terminal \cup {"failed"}, f \in Flight : Enrich(e, status, f)
    \/ Interval
    \/ \E v \in Event : Delete(v)
    \/ NewMonth \/ Crash

Spec == Init /\ [][Next]_vars

(***************************************************************************)
(* Properties                                                              *)
(***************************************************************************)

\* main: "Per-ID cross-process lock closes the duplicate-spend window": a flight is
\* paid for again only if what was bought is not kept: a crash came before it was
\* stored, its event was deleted, or its event has the track of another flight.
PaidOnce == \A f \in Flight : paid[f] <= 1 + wasted[f]

\* _pause_fr24_budget_block: beyond the exhausted budget only what was admitted before.
Overshoot ==
    BudgetPolicy = "pause_fr24" =>
        used <= OperatingBudget - 1 + TrackCredits(1) * Cardinality(Request)

=============================================================================
