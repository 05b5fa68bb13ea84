--------------------------- MODULE EpisodeHistory ---------------------------
(***************************************************************************)
(* One detection loop and one aircraft, against the whole history of its   *)
(* open episode.  The row keeps counters and one window; the history keeps *)
(* what they summarise, so the properties below say what an alert means    *)
(* rather than how it was computed.                                        *)
(*                                                                         *)
(* A step is the processing of one observation or of one complete coverage *)
(* cycle without the aircraft, or either of them cut short by a crash      *)
(* between recording the event and storing the row.                        *)
(***************************************************************************)
EXTENDS Episode, Sequences, FiniteSets

CONSTANTS
    Report,         \* what the aircraft may report: [pos, low, airline, altLow]
    MaxTime,        \* bound: observation times are 1..MaxTime
    MaxMissing      \* bound: complete cycles missed in a row

ASSUME ReportAssumption ==
    Report \subseteq [pos : Pos, low : BOOLEAN, airline : BOOLEAN, altLow : BOOLEAN]
ASSUME SourceAssumption == Provider # {} /\ Region # {}
ASSUME NoneIsNoObservation == None \notin Observation
ASSUME BoundsAssumption == MaxTime \in Nat /\ MaxMissing \in Nat

VARIABLES
    row,        \* the aircraft's row, or None
    alerts,     \* the events table, by deduplication key: [episode, type]
    log,        \* history of the open episode: its observations, None for a miss
    raised      \* history: the alert recorded by the last step and its evidence

vars == <<row, alerts, log, raised>>

Source == CHOOSE s \in Provider \X Region : TRUE

Observed(report, t) ==
    [seen |-> t, pos |-> report.pos, low |-> report.low, airline |-> report.airline,
     altLow |-> report.altLow, prov |-> Source[1], region |-> Source[2]]

TypeOK ==
    /\ row \in State \cup {None}
    /\ alerts \subseteq
         [episode : 1..MaxTime, type : {"PROBABLE_STOP", "DISAPPEARED"}]
    /\ \A i \in DOMAIN log : log[i] \in Observation \cup {None}

Init ==
    /\ row = None
    /\ alerts = {}
    /\ log = << >>
    /\ raised = None

\* The unique deduplication key of an event is its episode and type.
Key(episode, type) == [episode |-> episode, type |-> type]

Recorded(episode, type) == Key(episode, type) \in alerts

\* insert_event under the UNIQUE key.
Insert(episode, type, evidence) ==
    /\ alerts' = alerts \cup {Key(episode, type)}
    /\ raised' = IF Recorded(episode, type) THEN None
                 ELSE [type |-> type, evidence |-> evidence]

NoAlert == raised' = None /\ UNCHANGED alerts

\* The flag goes up only if this call recorded the event.
Flags(due, episode, type) == due /\ ~Recorded(episode, type)

LogWith(entry) == Append(log, entry)

\* process_observation, to its end.
Observe(report, t) ==
    LET obs == Observed(report, t)
        next == Update(row, obs)
        due == RaisesStop(row, obs)
    IN  /\ Writes(row, obs)
        /\ row' = IF due
                  THEN [next EXCEPT !.stopped = Flags(due, next.episode, "PROBABLE_STOP")]
                  ELSE next
        /\ IF due THEN Insert(next.episode, "PROBABLE_STOP", LogWith(obs))
                  ELSE NoAlert
        /\ log' = IF next.episode = None THEN << >>
                  ELSE IF row # None /\ row.episode = next.episode THEN LogWith(obs)
                  ELSE << obs >>

\* The process dies after insert_event and before upsert_state.
CrashInObserve(report, t) ==
    LET obs == Observed(report, t)
    IN  /\ RaisesStop(row, obs)
        /\ Insert(row.episode, "PROBABLE_STOP", LogWith(obs))
        /\ UNCHANGED <<row, log>>

MissedInARow ==
    Cardinality({i \in DOMAIN log : \A j \in i..Len(log) : log[j] = None})

\* process_missing for this aircraft, to its end: the cycle covered its region
\* and did not return it.
Miss ==
    LET missed == Missed(row)
        due == GoneDue(missed)
    IN  /\ row # None
        /\ HasEpisode(row)
        /\ MissedInARow < MaxMissing
        /\ log' = LogWith(None)
        /\ IF Counts(row, {row.region})
           THEN /\ row' = IF due
                          THEN [missed EXCEPT !.gone = Flags(due, row.episode, "DISAPPEARED")]
                          ELSE missed
                /\ IF due THEN Insert(row.episode, "DISAPPEARED", LogWith(None))
                          ELSE NoAlert
           ELSE NoAlert /\ UNCHANGED row

CrashInMiss ==
    /\ row # None
    /\ Counts(row, {row.region})
    /\ MissedInARow < MaxMissing
    /\ GoneDue(Missed(row))
    /\ Insert(row.episode, "DISAPPEARED", LogWith(None))
    /\ UNCHANGED <<row, log>>

Next ==
    \/ \E report \in Report, t \in 1..MaxTime :
          Observe(report, t) \/ CrashInObserve(report, t)
    \/ Miss
    \/ CrashInMiss

Spec == Init /\ [][Next]_vars

(***************************************************************************)
(* What an alert means                                                     *)
(***************************************************************************)

InsideAt(l, i) == l[i] # None /\ Inside(l[i].pos)

InsideCount(l) == Cardinality({i \in DOMAIN l : InsideAt(l, i)})

\* Every inside observation from i on is slow and near the one at i.
StillFrom(l, i) ==
    /\ InsideAt(l, i)
    /\ \A j \in i..Len(l) :
          InsideAt(l, j) => l[j].low /\ Distance(l[i].pos, l[j].pos) <= Radius

\* Complete cycles missed the aircraft between two consecutive observations of
\* it inside, and the first of them did not classify it as an airliner (whose
\* missed cycles are not counted).
GapInside(l, k, m) ==
    /\ k + 1 < m
    /\ InsideAt(l, k) /\ InsideAt(l, m) /\ ~l[k].airline
    /\ \A j \in (k + 1)..(m - 1) : l[j] = None

Evidence(l) == l[Len(l)]

\* A PROBABLE_STOP alert rests on enough inside observations and a long enough
\* window in which every inside observation was slow and near the window's
\* anchor, with no gap between two of them (process_observation).  Observations
\* outside, pending confirmation, do not end the window, although SPEC says that the
\* "timer resets on high-speed movement, excessive displacement".
StopJustified ==
    raised # None /\ raised.type = "PROBABLE_STOP" =>
        LET l == raised.evidence
        IN  /\ InsideCount(l) >= StopObservations
            /\ ~Evidence(l).airline
            /\ \E i \in DOMAIN l :
                  /\ StillFrom(l, i)
                  /\ Evidence(l).seen - l[i].seen >= StopDuration
                  /\ \A k, m \in i..Len(l) : ~GapInside(l, k, m)

\* Observations that start the timer, or let it run.
Slow(l) == {i \in DOMAIN l : InsideAt(l, i) /\ l[i].low}

\* From i to j the aircraft was not seen moving fast inside, and no counted cycle
\* missed it.
Undisturbed(l, i, j) ==
    /\ \A k \in i..j : InsideAt(l, k) => l[k].low
    /\ \A k, m \in i..j : ~GapInside(l, k, m)

\* The observation at j lets a timer run that started at i.
Carries(l, i, j) ==
    Undisturbed(l, i, j) /\ Distance(l[i].pos, l[j].pos) <= Radius

\* Where the timer of a stop started in a log: "timer begins only on a low-speed
\* observation", at each one that does not carry the timer last started.  The
\* membership of a place depends on earlier ones only, so there is one such set.
Starts(l) ==
    {S \in SUBSET Slow(l) :
        \A j \in Slow(l) :
            j \in S <=> ~\E i \in S :
                            i < j /\ S \cap ((i + 1)..(j - 1)) = {} /\ Carries(l, i, j)}

\* Whenever the timer reaches the duration on a slow observation inside, with enough
\* observations inside, the alert of the episode is recorded: no halt hides behind an
\* anchor left from an earlier one, a flag or a crash.  The timer restarts as the code
\* restarts it: on fast movement inside, on displacement from the anchor, and at gaps
\* that were counted.  SPEC ("timer resets on high-speed movement, excessive
\* displacement, or an observation gap") names them without these limits: the cycles
\* that miss an airliner, and those around a pending exit, restart nothing in the code,
\* nor does fast movement outside.
NoStopMissed ==
    \A S \in Starts(log) : \A i \in S :
        /\ \A j \in S : j <= i
        /\ Len(log) \in Slow(log)
        /\ InsideCount(log) >= StopObservations
        /\ ~Evidence(log).airline
        /\ Evidence(log).seen - log[i].seen >= StopDuration
        => Recorded(row.episode, "PROBABLE_STOP")

\* A DISAPPEARED alert rests on an aircraft last seen inside, low and not an
\* airliner, then absent from GonePolls complete cycles in a row
\* (process_missing).
GoneJustified ==
    raised # None /\ raised.type = "DISAPPEARED" =>
        LET l == raised.evidence
        IN  /\ InsideCount(l) >= GoneObservations
            /\ \E i \in DOMAIN l :
                  /\ InsideAt(l, i)
                  /\ l[i].altLow /\ ~l[i].airline
                  /\ \A j \in (i + 1)..Len(l) : l[j] = None
                  /\ Len(l) - i >= GonePolls

\* SPEC, Episode closure: an episode ends only after OutsideConfirm
\* observations outside in a row (the last of them is the step itself).
ClosureConfirmed ==
    [][row # None /\ row.episode # None /\ row'.episode # row.episode
       => LET tail == {i \in DOMAIN log :
                          \A j \in i..Len(log) : ~InsideAt(log, j)}
          IN  /\ ~Inside(row'.pos)
              /\ Cardinality({i \in tail : log[i] # None}) + 1 >= OutsideConfirm]_vars

=============================================================================
