----------------------------- MODULE FR24Cycle -----------------------------
(***************************************************************************)
(* The paid side of the FR24 polling loop (app/fr24_scheduler.py): the     *)
(* kill switch, the budget at cycle start, one Light request per cluster,  *)
(* and the enrichment of candidates in batches with bounded retries;       *)
(* beside it what the operator spends of the same credits, the manual      *)
(* tests (fr24_test, app/main.py) and the purchases of tracks              *)
(* (fr24_track_fetch).  What the cycle does to detection is in module      *)
(* Detection; here it only yields the aircraft that are candidates.        *)
(*                                                                         *)
(* Every request is awaited: the others, midnight of the first of the      *)
(* month, and a crash may come between any two steps.  No lock keeps the   *)
(* operator's requests apart.  The clusters come in any order, which       *)
(* matters to Detection only.  The HTTP attempts of one request, which is  *)
(* logged once, are not told apart.  Of the purchase of a track there is   *)
(* here what it spends and when it looks at the budget; what becomes of    *)
(* the track is in module TrackFetch.                                      *)
(***************************************************************************)
EXTENDS FR24Credits, FiniteSets

CONSTANTS
    Cluster,       \* the clusters
    ResponseLimit, \* fr24_response_limit
    BatchSize,     \* _SUMMARY_BATCH_SIZE (10)
    Tester,        \* manual tests that may be under way together
    Buyer,         \* purchases of tracks that may be under way together
    MaxCrashes,    \* bound: cycles cut short
    MaxUsed        \* bound: without the pause, cycles start below this only

ASSUME FiniteAssumption ==
    /\ IsFiniteSet(Cluster) /\ IsFiniteSet(Episode)
    /\ IsFiniteSet(Tester) /\ IsFiniteSet(Buyer)
    /\ Tester \cap Buyer = {}
ASSUME CycleAssumption ==
    /\ ResponseLimit \in Nat \ {0} /\ BatchSize \in Nat \ {0}
    /\ MaxCrashes \in Nat /\ MaxUsed \in Nat

VARIABLES
    pc,           \* "sleep", "poll", "summary" or "save"
    rested,       \* fr24_poll_interval_seconds have passed since the last cycle
    todo,         \* the clusters of this cycle still to poll
    lastMonth,    \* the cycle's billing_cycle_id is no longer the current one
    nonessential, \* the budget was normal when the cycle began, enrichment is on
    seen,         \* aircraft reported so far that are candidates for enrichment
    candidates,   \* those selected for enrichment and not saved yet
    left,         \* those whose batch has not been requested
    got,          \* those whose summary came back
    answer,       \* "ok" or "failed": how fetch_summary_full ended
    manual,       \* the operator's requests of this billing cycle awaiting an answer
    calls,        \* history: calls[e]: summary requests that asked for e
    lost,         \* history: lost[e]: those of them cut short before they were saved
    crashes

enrichment == <<candidates, left, got, answer>>
cycle == <<pc, todo, lastMonth, nonessential, seen, enrichment>>
history == <<calls, lost, crashes>>
vars == <<credits, cycle, rested, manual, history>>

TypeOK ==
    /\ CreditsTypeOK
    /\ pc \in {"sleep", "poll", "summary", "save"}
    /\ rested \in BOOLEAN /\ lastMonth \in BOOLEAN /\ nonessential \in BOOLEAN
    /\ todo \subseteq Cluster
    /\ seen \subseteq Episode /\ candidates \subseteq Episode /\ left \subseteq candidates
    /\ got \subseteq Episode
    /\ answer \in {"ok", "failed"}
    /\ manual \subseteq Tester \cup Buyer
    /\ calls \in [Episode -> Nat] /\ lost \in [Episode -> Nat]
    /\ crashes \in 0..MaxCrashes

Init ==
    /\ CreditsInit
    /\ pc = "sleep" /\ rested = TRUE
    /\ todo = {} /\ lastMonth = FALSE /\ nonessential = FALSE
    /\ seen = {} /\ candidates = {} /\ left = {} /\ got = {} /\ answer = "ok"
    /\ manual = {}
    /\ calls = [e \in Episode |-> 0] /\ lost = [e \in Episode |-> 0]
    /\ crashes = 0

(***************************************************************************)
(* The cycle                                                               *)
(***************************************************************************)

\* Mutation: the batches still to ask for are not forgotten.
IdleKeepsLeft ==
    /\ pc' = "sleep" /\ todo' = {} /\ lastMonth' = FALSE /\ nonessential' = FALSE
    /\ seen' = {} /\ candidates' = {} /\ got' = {}
    /\ answer' = "ok"
    /\ UNCHANGED left

\* What the locals of a cycle are outside one.
Idle ==
    /\ pc' = "sleep" /\ todo' = {} /\ lastMonth' = FALSE /\ nonessential' = FALSE
    /\ seen' = {} /\ candidates' = {} /\ left' = {} /\ got' = {}
    /\ answer' = "ok"

\* The kill switch is off, no cluster is enabled, or the budget is exhausted under
\* pause_fr24: the cycle is skipped.
Skip ==
    /\ pc = "sleep" /\ rested
    /\ Idle /\ rested' = FALSE
    /\ UNCHANGED <<credits, manual, history>>

\* The cycle takes the clusters the operator has enabled at this moment and looks
\* at the budget for the only time.
Begin(enabled, enrich) ==
    /\ pc = "sleep" /\ rested
    /\ enabled # {}
    /\ ~Paused
    /\ BudgetPolicy = "pause_fr24" \/ used < MaxUsed
    /\ pc' = "poll"
    /\ todo' = enabled
    /\ nonessential' = (enrich /\ BudgetState = "normal")
    /\ rested' = FALSE
    /\ UNCHANGED <<credits, lastMonth, seen, enrichment, manual, history>>

\* The cluster has no computed bounds, or its request fails; nothing is charged.
ClusterFails(c) ==
    /\ pc = "poll" /\ c \in todo
    /\ todo' = todo \ {c}
    /\ UNCHANGED <<credits, pc, lastMonth, nonessential, seen, enrichment, rested, manual, history>>

\* Light answers with n records, and of the aircraft kept those in found turn out to
\* be candidates.  That an answer of ResponseLimit records does not cover the cluster
\* matters to Detection only, and the Count request that follows it is charged nothing.
ClusterAnswers(c, n, found) ==
    /\ pc = "poll" /\ c \in todo
    /\ Cardinality(found) <= n
    /\ Charge(LightCredits(n), lastMonth)
    /\ seen' = seen \cup found
    /\ todo' = todo \ {c}
    /\ UNCHANGED <<row, pc, lastMonth, nonessential, enrichment, rested, manual, history>>

\* The end of _run_fr24_cycle_locked.
Finish == Idle /\ UNCHANGED rested

\* All clusters polled: detection runs, then the candidates are selected.
Select ==
    /\ pc = "poll" /\ todo = {}
    /\ LET chosen == IF nonessential THEN {e \in seen : Eligible(e)} ELSE {}
       IN  IF chosen = {} THEN Finish
           ELSE /\ candidates' = chosen /\ left' = chosen
                /\ seen' = {}
                /\ pc' = "summary"
                /\ UNCHANGED <<todo, lastMonth, nonessential, got, answer, rested>>
    /\ UNCHANGED <<credits, manual, history>>

Asked(batch) == calls' = [e \in Episode |-> IF e \in batch THEN calls[e] + 1 ELSE calls[e]]

Batch(batch) ==
    /\ batch \subseteq left
    /\ Cardinality(batch) = IF Cardinality(left) < BatchSize THEN Cardinality(left) ELSE BatchSize

\* One batch of fetch_summary_full, answered with the summaries of "returned".
SummaryAnswers(batch, returned) ==
    /\ pc = "summary" /\ Batch(batch) /\ returned \subseteq batch
    /\ Asked(batch)
    /\ Charge(SummaryCredits(Cardinality(returned)), lastMonth)
    /\ got' = got \cup returned
    /\ left' = left \ batch
    /\ pc' = IF left' = {} THEN "save" ELSE "summary"
    /\ UNCHANGED <<row, todo, lastMonth, nonessential, seen, candidates, answer,
                   rested, manual, lost, crashes>>

\* A batch fails: so do the ones before it, and the ones after it are not asked for.
SummaryFails(batch) ==
    /\ pc = "summary" /\ Batch(batch)
    /\ Asked(batch)
    /\ left' = left \ batch /\ got' = {} /\ answer' = "failed"
    /\ pc' = "save"
    /\ UNCHANGED <<credits, todo, lastMonth, nonessential, seen, candidates,
                   rested, manual, lost, crashes>>

Outcome(e) ==
    CASE answer = "failed" -> "failed"
      [] answer = "ok" /\ e \in got -> "ok"
      [] OTHER -> "empty"

\* The tries are recorded one by one, nothing awaited in between.  The flight is the
\* one the observation carried, which may differ from try to try.
Save(e, flight) ==
    /\ pc = "save" /\ e \in candidates
    /\ SaveEnrichment(e, Outcome(e), flight)
    /\ IF candidates = {e} THEN Finish
       ELSE /\ candidates' = candidates \ {e} /\ left' = left \ {e}
            /\ UNCHANGED <<pc, todo, lastMonth, nonessential, seen, got, answer, rested>>
    /\ UNCHANGED <<used, manual, history>>

(***************************************************************************)
(* The surroundings                                                        *)
(***************************************************************************)

Admit(m) ==
    /\ m \notin manual
    /\ BudgetPolicy = "pause_fr24" \/ used < MaxUsed
    /\ manual' = manual \cup {m}
    /\ UNCHANGED <<credits, cycle, rested, history>>

\* The answer, or none, which costs nothing.
Answer(m, cost) ==
    /\ m \in manual
    /\ \/ Charge(cost, FALSE)
       \/ UNCHANGED used
    /\ manual' = manual \ {m}
    /\ UNCHANGED <<row, cycle, rested, history>>

\* Mutation: the manual test spends regardless of the budget.
TestAlways == TRUE

TestAllowed == ~Paused

\* fr24_test: refused in the state in which the loop itself refuses to spend; any
\* number of them run side by side.
TestStarts(m) == TestAllowed /\ Admit(m)

\* Its answer, of at most one record.
TestEnds(m, n) == Answer(m, LightCredits(n))

\* fr24_track_fetch looks at the budget once it has the lock of its flight.
TrackStarts(m) == ~Paused /\ Admit(m)

\* Its answer, of at most one flight.
TrackEnds(m, n) == Answer(m, TrackCredits(n))

\* A poll interval goes by, in a cycle or between two.
Interval ==
    /\ rested' = (pc = "sleep")
    /\ UNCHANGED <<used, cycle, manual, history>>
    /\ IntervalPasses

\* The billing cycle ends: its credits no longer count, nor do those still to come
\* of the requests made in it, so that the operator's are nothing more to this module.
NewMonth ==
    /\ used' = 0
    /\ lastMonth' = (pc # "sleep")
    /\ manual' = {}
    /\ UNCHANGED <<row, pc, todo, nonessential, seen, enrichment, rested, history>>

Dropped == lost' = [e \in Episode |-> IF e \in candidates \ left THEN lost[e] + 1 ELSE lost[e]]

\* An exception ends the cycle.
Abort ==
    /\ pc # "sleep" /\ crashes < MaxCrashes
    /\ crashes' = crashes + 1
    /\ Dropped /\ Idle
    /\ UNCHANGED <<credits, rested, manual, calls>>

\* The process dies; what it kept in memory is gone.
Crash ==
    /\ crashes < MaxCrashes
    /\ crashes' = crashes + 1
    /\ Dropped /\ Idle
    /\ rested' = TRUE /\ manual' = {}
    /\ UNCHANGED <<credits, calls>>

Poll ==
    /\ pc = "poll"
    /\ \E c \in todo :
          \/ ClusterFails(c)
          \/ \E n \in 0..ResponseLimit, found \in SUBSET Episode : ClusterAnswers(c, n, found)

Summarise ==
    /\ pc = "summary"
    /\ \E batch \in SUBSET left :
          SummaryFails(batch) \/ \E returned \in SUBSET batch : SummaryAnswers(batch, returned)

Proceed ==
    Poll \/ Summarise \/ Select \/ \E e \in candidates, flight \in Flight : Save(e, flight)

Next ==
    \/ Skip
    \/ \E enabled \in SUBSET Cluster, enrich \in BOOLEAN : Begin(enabled, enrich)
    \/ Proceed
    \/ \E m \in Tester : TestStarts(m) \/ \E n \in 0..1 : TestEnds(m, n)
    \/ \E m \in Buyer : TrackStarts(m) \/ \E n \in 0..1 : TrackEnds(m, n)
    \/ Interval
    \/ NewMonth \/ Abort \/ Crash

Spec == Init /\ [][Next]_vars

\* A cycle that has begun goes on, and time passes.
FairSpec == Spec /\ WF_vars(Proceed) /\ WF_vars(Interval)

(***************************************************************************)
(* Properties                                                              *)
(***************************************************************************)

\* README: pause_fr24 is "an actual hard ceiling out of the box", "evaluated at the
\* start of each cycle".  The ceiling is passed by at most what one cycle, and the
\* operator's requests that were under way together, had been admitted to spend.
Overshoot ==
    BudgetPolicy = "pause_fr24" =>
        used <= OperatingBudget - 1
                + (Cardinality(Cluster) * LightCredits(ResponseLimit)
                   + SummaryCredits(Cardinality(Episode)))
                + (Cardinality(Tester) * LightCredits(1) + Cardinality(Buyer) * TrackCredits(1))

\* README: "tried at most three times per episode": no more than MaxAttempts paid
\* requests ask for an episode, not counting those whose outcome a crash lost.
TriesBounded == \A e \in Episode : calls[e] <= MaxAttempts + lost[e]

Settled(e) == row[e] # None /\ (row[e].status \in Terminal \/ row[e].attempts = MaxAttempts)

\* save_fr24_enrichment: "a late/stale writer cannot resurrect an episode the system
\* has given up on", nor replace a summary it has.
SettledStays == [][\A e \in Episode : Settled(e) => row'[e] = row[e]]_vars

\* An aircraft that the cycles keep seeing as a candidate, with the budget normal, is
\* enriched or given up: no schedule strands it.
EnrichmentSettles ==
    \A e \in Episode :
        []<>(pc = "poll" /\ todo = {} /\ nonessential /\ e \in seen) => <>Settled(e)

=============================================================================
