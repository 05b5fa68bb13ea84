--------------------------- MODULE CoverageCycle ---------------------------
(***************************************************************************)
(* The free-provider coverage cycle: run_coverage_cycle (app/main.py),     *)
(* fetch_all, _get_json and test_provider (app/providers/providers.py),    *)
(* normalize_readsb (app/providers/readsb.py) and the daily request        *)
(* counter of app/database.py, with the operator changing the settings     *)
(* meanwhile.                                                              *)
(*                                                                         *)
(* One cycle runs at a time (poll_lock, the coverage-poll job lock); the   *)
(* operator's provider tests run beside it and take no lock.  A request is *)
(* awaited, so the counter of the metered provider, looked up before the   *)
(* request and incremented after it, is shared without protection.         *)
(*                                                                         *)
(* An answer is reduced to the positions it reports, as times per          *)
(* aircraft; discarding old or malformed ones (normalize_readsb,           *)
(* POSITION_MAX_AGE_SECONDS) happened before.  The order in which the      *)
(* regions are asked is left open.  Detection takes over from Detect.      *)
(***************************************************************************)
EXTENDS SettingsStore

CONSTANTS
    Cycle,          \* the coverage cycle as a requester
    Tester,         \* the provider tests that may run at once
    GridProvider,   \* the providers of the grid: PROVIDER_INFO without flightradar24
    FR24Provider,   \* flightradar24, accepted in the list and not polled here
    DefaultProvider,
    Listed,         \* Listed[v]: the providers that value v of flight_providers names
    Metered,        \* airplanes_live
    Keyed,          \* providers asked only with a key (adsbexchange)
    Quota,          \* its requests of a day (500)
    MaxTries,       \* tries of _get_json (3)
    Region,         \* query_regions
    Aircraft,
    Time            \* times of a position

Providers == "flight_providers"
Requester == {Cycle} \cup Tester

ASSUME ProviderAssumption ==
    /\ {DefaultProvider, Metered} \cup Keyed \subseteq GridProvider
    /\ FR24Provider \notin GridProvider
    /\ Providers \in Key
    /\ Listed \in [Accepted[Providers] -> SUBSET (GridProvider \cup {FR24Provider})]
ASSUME CycleBoundsAssumption ==
    /\ Quota \in Nat /\ MaxTries \in Nat \ {0} /\ Time \subseteq Nat
    /\ IsFiniteSet(Tester) /\ Cycle \notin Tester
    /\ None \notin Nat

VARIABLES
    pc,         \* where the cycle stands
    phase,      \* the operating phase it began in
    regions,    \* the query regions it polls
    polled,     \* the providers it polls
    todo,       \* pairs of a provider and a region it has still to ask
    answered,   \* successful_by_region, as pairs; requests_successful counts them
    failed,     \* pairs with an entry in errors
    merged,     \* observations: the position kept per aircraft
    received,   \* history: the positions per aircraft in this cycle's answers
    counted,    \* history: the regions process_missing was given
    row,        \* the poll_runs row of the last cycle
    req,        \* req[w]: the request of requester w, in _get_json
    attempts    \* provider_requests.attempts of the metered provider today

fetching == <<regions, polled, todo, answered, failed, merged, received>>
cycle == <<pc, phase, fetching, counted, row>>
vars == <<settings, cycle, req, attempts>>

Pair == GridProvider \X Region
Call == [pair : Pair, tries : 0..(MaxTries - 1), sent : BOOLEAN]
RunRow == {"none", "open", "no regions", "ok", "no answers", "error"}

InFlight == {w \in Requester : req[w] # None /\ req[w].sent /\ req[w].pair[1] = Metered}

TypeOK ==
    /\ SettingsTypeOK
    /\ pc \in {"idle", "begun", "fetch", "detect", "save", "failed"}
    /\ phase \in Accepted[Phase] \cup {None}
    /\ regions \in {{}, Region} /\ polled \subseteq GridProvider
    /\ todo \subseteq polled \X regions
    /\ answered \subseteq polled \X regions /\ failed \subseteq polled \X regions
    /\ merged \in [Aircraft -> Time \cup {None}]
    /\ received \in [Aircraft -> SUBSET Time]
    /\ counted \subseteq regions
    /\ row \in RunRow
    /\ req \in [Requester -> Call \cup {None}]
    /\ req[Cycle] # None => pc = "fetch" /\ req[Cycle].pair \in todo
    /\ attempts \in Nat

Init ==
    /\ SettingsInit
    /\ pc = "idle" /\ phase = None
    /\ regions = {} /\ polled = {} /\ todo = {} /\ answered = {} /\ failed = {}
    /\ merged = [a \in Aircraft |-> None] /\ received = [a \in Aircraft |-> {}]
    /\ counted = {} /\ row = "none"
    /\ req = [w \in Requester |-> None]
    /\ attempts = 0

(***************************************************************************)
(* The cycle                                                               *)
(***************************************************************************)

\* The run is recorded; in Live the messages owed come first (EmailDelivery), during
\* which the operator may change the settings.
Begin(somewhere) ==
    /\ pc = "idle"
    /\ pc' = "begun"
    /\ phase' = Setting(Phase)
    /\ regions' = (IF somewhere THEN Region ELSE {})
    /\ row' = "open"
    /\ UNCHANGED <<settings, polled, todo, answered, failed, merged, received, counted, req,
                   attempts>>

\* The cycle is over, and what it held in memory is gone.
Over ==
    /\ pc' = "idle" /\ phase' = None
    /\ regions' = {} /\ polled' = {} /\ todo' = {} /\ answered' = {} /\ failed' = {}
    /\ merged' = [a \in Aircraft |-> None] /\ received' = [a \in Aircraft |-> {}]
    /\ counted' = {}

NoRegions ==
    /\ pc = "begun" /\ regions = {}
    /\ Over /\ row' = "no regions"
    /\ UNCHANGED <<settings, req, attempts>>

\* Mutation: flightradar24 is left in the list.
PolledWithFR24(list) == IF list = {} THEN {DefaultProvider} ELSE list

\* An empty list means the default provider; flightradar24 is skipped, and when it is
\* the only one listed nothing is polled.
Polled(list) == (IF list = {} THEN {DefaultProvider} ELSE list) \ {FR24Provider}

\* fetch_all looks the providers up again.
Fetch ==
    /\ pc = "begun" /\ regions # {}
    /\ pc' = "fetch"
    /\ polled' = Polled(Listed[Setting(Providers)])
    /\ todo' = polled' \X regions
    /\ UNCHANGED <<settings, phase, regions, answered, failed, merged, received, counted,
                   row, req, attempts>>

(***************************************************************************)
(* One request                                                             *)
(***************************************************************************)

\* What becomes of the cycle's bookkeeping when its request fails.
Failed(w, pair) ==
    /\ IF w = Cycle
       THEN failed' = failed \cup {pair} /\ todo' = todo \ {pair}
       ELSE UNCHANGED <<failed, todo>>
    /\ UNCHANGED <<answered, merged, received>>

Stays == UNCHANGED <<todo, answered, failed, merged, received>>

\* Mutation: the request that reaches the limit is not the last one.
QuotaLeftOver(provider) == provider = Metered => attempts <= Quota

QuotaLeft(provider) == provider = Metered => attempts < Quota

\* A try: the quota is looked up, then the request goes out and is awaited.
Try(w, call) ==
    \/ /\ QuotaLeft(call.pair[1])
       /\ req' = [req EXCEPT ![w] = [call EXCEPT !.sent = TRUE]]
       /\ Stays
    \/ /\ ~QuotaLeft(call.pair[1])
       /\ req' = [req EXCEPT ![w] = None]
       /\ Failed(w, call.pair)

Asking(w, pair) ==
    /\ req[w] = None
    /\ w = Cycle => pc = "fetch" /\ pair \in todo

Ask(w, pair) ==
    /\ Asking(w, pair)
    /\ Try(w, [pair |-> pair, tries |-> 0, sent |-> FALSE])
    /\ UNCHANGED <<settings, pc, phase, regions, polled, counted, row, attempts>>

\* Without its key the provider is not asked at all.
KeyMissing(w, pair) ==
    /\ Asking(w, pair) /\ pair[1] \in Keyed
    /\ Failed(w, pair)
    /\ UNCHANGED <<settings, pc, phase, regions, polled, counted, row, req, attempts>>

\* After the pause of _retry_delay.
Again(w) ==
    /\ req[w] # None /\ ~req[w].sent
    /\ Try(w, req[w])
    /\ UNCHANGED <<settings, pc, phase, regions, polled, counted, row, attempts>>

Waiting(w) == req[w] # None /\ req[w].sent

\* record_provider_request, on the day the answer comes.
Counts(w, outcome) == req[w].pair[1] = Metered /\ outcome \in {"ok", "unusable", "error"}

Counted(w, outcome) == attempts' = IF Counts(w, outcome) THEN attempts + 1 ELSE attempts

\* Mutation: the position that came last is kept.
LatestArrived(kept, time) == time

Freshest(kept, time) == IF kept = None THEN time ELSE IF time > kept THEN time ELSE kept

\* A usable answer: positions is a function from the aircraft it reports to times.
Answer(w, positions) ==
    /\ Waiting(w)
    /\ req' = [req EXCEPT ![w] = None]
    /\ Counted(w, "ok")
    /\ IF w = Cycle
       THEN /\ answered' = answered \cup {req[w].pair}
            /\ todo' = todo \ {req[w].pair}
            /\ merged' = [a \in Aircraft |-> IF a \in DOMAIN positions
                             THEN Freshest(merged[a], positions[a]) ELSE merged[a]]
            /\ received' = [a \in Aircraft |-> IF a \in DOMAIN positions
                               THEN received[a] \cup {positions[a]} ELSE received[a]]
            /\ UNCHANGED failed
       ELSE Stays
    /\ UNCHANGED <<settings, pc, phase, regions, polled, counted, row>>

\* Mutation: a request is repeated as often as it fails.
RetriesAlways(w, outcome) == TRUE

\* 401, 403, 404 and an answer that does not parse as a report end the request; so
\* does, with the metered provider, an answer that never came.
Retries(w, outcome) ==
    /\ \/ outcome = "error"
       \/ outcome = "lost" /\ req[w].pair[1] # Metered
    /\ req[w].tries + 1 < MaxTries

\* The next try, counted up to the last there is.
NextTry(call) ==
    [call EXCEPT !.sent = FALSE,
                 !.tries = IF call.tries + 1 < MaxTries THEN call.tries + 1 ELSE call.tries]

\* Any other outcome: denied (401, 403, 404: not counted), an error status or body,
\* an object that cannot be read as a report, no answer at all (not counted).
Fails(w, outcome) ==
    /\ Waiting(w)
    /\ Counted(w, outcome)
    /\ \/ /\ Retries(w, outcome)
          /\ req' = [req EXCEPT ![w] = NextTry(@)]
          /\ Stays
       \/ /\ ~Retries(w, outcome)
          /\ req' = [req EXCEPT ![w] = None]
          /\ Failed(w, req[w].pair)
    /\ UNCHANGED <<settings, pc, phase, regions, polled, counted, row>>

(***************************************************************************)
(* Handing over to detection                                               *)
(***************************************************************************)

\* Mutation: a region counts when any provider answered for it.
CoveredByAny == {r \in regions : polled = {} \/ \E p \in polled : <<p, r>> \in answered}

\* fully_successful_regions.
Covered == {r \in regions : \A p \in polled : <<p, r>> \in answered}

\* Every pair was asked; process_observation starts.
Fetched ==
    /\ pc = "fetch" /\ todo = {} /\ req[Cycle] = None
    /\ pc' = "detect"
    /\ UNCHANGED <<settings, phase, fetching, counted, row, req, attempts>>

\* All observations were processed and process_missing gets the covered regions, or
\* an error in between ends the cycle without it.
Detect(completes) ==
    /\ pc = "detect"
    /\ IF completes
       THEN pc' = "save" /\ counted' = Covered
       ELSE pc' = "failed" /\ UNCHANGED counted
    /\ UNCHANGED <<settings, phase, fetching, row, req, attempts>>

Save ==
    /\ pc \in {"save", "failed"}
    /\ Over
    /\ row' = IF pc = "failed" THEN "error" ELSE IF answered = {} THEN "no answers" ELSE "ok"
    /\ UNCHANGED <<settings, req, attempts>>

(***************************************************************************)
(* The surroundings                                                        *)
(***************************************************************************)

\* Midnight, UTC: the counter of the new day starts.
NewDay ==
    /\ attempts' = 0
    /\ UNCHANGED <<settings, cycle, req>>

\* A request for the settings, between two awaits of the cycle.
Update(q) ==
    /\ settings_update(q.clear, q.values)
    /\ UNCHANGED <<cycle, req, attempts>>

Stopped ==
    /\ Over
    /\ req' = [w \in Requester |-> None]
    /\ UNCHANGED <<row, attempts>>

\* The server stops, perhaps within a request for the settings, and starts again.
ServerRestarts(e, rotated) == Restart(e, rotated) /\ Stopped

ServerKilled(q) == UpdateKilled(q.clear, q.values) /\ Stopped

Works(w) ==
    \/ \E pair \in Pair : Ask(w, pair) \/ KeyMissing(w, pair)
    \/ Again(w)
    \/ \E seen \in SUBSET Aircraft : \E positions \in [seen -> Time] : Answer(w, positions)
    \/ \E outcome \in {"denied", "error", "unusable", "lost"} : Fails(w, outcome)

CycleStep ==
    \/ NoRegions \/ Fetch \/ Works(Cycle) \/ Fetched
    \/ \E completes \in BOOLEAN : Detect(completes)
    \/ Save

Next ==
    \/ \E somewhere \in BOOLEAN : Begin(somewhere)
    \/ CycleStep
    \/ \E w \in Tester : Works(w)
    \/ NewDay
    \/ \E q \in Request : Update(q) \/ ServerKilled(q)
    \/ \E e \in Environment, rotated \in BOOLEAN : ServerRestarts(e, rotated)

Spec == Init /\ [][Next]_vars

\* Requests time out and retries are few, so a cycle goes on.
FairSpec == Spec /\ WF_vars(CycleStep)

(***************************************************************************)
(* Properties                                                              *)
(***************************************************************************)

\* SPEC: "Airplanes.live must stop before exceeding 500 attempts per UTC day".  The
\* limit is looked up before a request and counted after it: the requests counted
\* and those under way pass it by at most one per test running beside the cycle.
\* (Requests that were denied or not answered are never counted.)
QuotaOvershoot ==
    attempts + Cardinality(InFlight) <= Quota + Cardinality(Requester) - 1

\* SPEC: "Provider failures never increment disappearance": a region handed to
\* process_missing is one for which no provider's request failed in this cycle and
\* from which every polled provider has answered.
FailuresNeverCount ==
    \A r \in counted : \A p \in GridProvider :
        /\ <<p, r>> \notin failed
        /\ p \in polled => <<p, r>> \in answered

\* SPEC: "merge observations by ICAO hex using the freshest observation", in
\* whatever order the answers of the providers and regions come.
FreshestKept ==
    \A a \in Aircraft :
        IF received[a] = {} THEN merged[a] = None
        ELSE merged[a] \in received[a] /\ \A time \in received[a] : time <= merged[a]

\* Every cycle ends, whatever the providers do and the operator changes, so the next
\* one is not skipped for ever because of the lock.
CycleEnds == pc # "idle" ~> pc = "idle"

\* "Absent for three complete successful coverage cycles of its last region" (README):
\* a region is counted as covered only when somebody reported on it.
AbsenceMeasured == \A r \in counted : \E p \in GridProvider : <<p, r>> \in answered

=============================================================================
