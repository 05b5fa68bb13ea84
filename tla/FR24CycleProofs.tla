-------------------------- MODULE FR24CycleProofs --------------------------
(***************************************************************************)
(* The outcome of an enrichment stays, an episode is not asked for more    *)
(* often than allowed, and an exhausted budget is passed by a bounded      *)
(* amount, for any clusters, episodes, batches and limits.                 *)
(*                                                                         *)
(* The first two rest on one fact: a candidate, from its selection to the  *)
(* moment its try is recorded, has a row that is still open, because one   *)
(* cycle runs at a time and nobody else writes the row.                    *)
(***************************************************************************)
EXTENDS FR24Cycle, FiniteSetTheorems, TLAPS

(***************************************************************************)
(* What the operators of FR24Credits do to its two variables.              *)
(***************************************************************************)

\* What an enrichment try or the passing of time makes of a row is a row.
LEMMA EnrichmentType ==
    ASSUME row \in [Episode -> Enrichment \cup {None}]
    PROVE  /\ \A e \in Episode, s \in Terminal \cup {"failed"}, f \in Flight :
                  SaveEnrichment(e, s, f) => row' \in [Episode -> Enrichment \cup {None}]
           /\ IntervalPasses => row' \in [Episode -> Enrichment \cup {None}]
<1>1. ASSUME NEW e \in Episode, NEW s \in Terminal \cup {"failed"}, NEW f \in Flight,
             SaveEnrichment(e, s, f)
      PROVE  row' \in [Episode -> Enrichment \cup {None}]
  <2>1. \A n \in 1..MaxAttempts : Schedule(s, n) \in (1..MaxAttempts) \cup {0, None}
    BY AttemptsAssumption DEF Schedule
  <2>2. Saved(row[e], s, f) \in Enrichment \cup {None}
    <3>1. CASE row[e] = None
      BY <2>1, <3>1, AttemptsAssumption DEF Saved, Enrichment
    <3>2. CASE row[e] # None /\ row[e].attempts >= MaxAttempts
      BY <3>2 DEF Saved
    <3>3. CASE row[e] # None /\ ~(row[e].attempts >= MaxAttempts)
      <4>1. row[e] \in Enrichment
        BY <3>3
      <4>2. row[e].attempts + 1 \in 1..MaxAttempts
        BY <3>3, <4>1, AttemptsAssumption DEF Enrichment
      <4> QED BY <2>1, <3>3, <4>2 DEF Saved, Enrichment
    <3> QED BY <3>1, <3>2, <3>3
  <2> QED BY <1>1, <2>2 DEF SaveEnrichment
<1>2. ASSUME IntervalPasses
      PROVE  row' \in [Episode -> Enrichment \cup {None}]
  <2>1. ASSUME NEW e \in Episode
        PROVE  Sooner(row[e]) \in Enrichment \cup {None}
    <3>1. CASE row[e] = None \/ row[e].wait \in {0, None}
      BY <3>1 DEF Sooner
    <3>2. CASE ~(row[e] = None \/ row[e].wait \in {0, None})
      <4>1. row[e] \in Enrichment /\ row[e].wait \in 1..MaxAttempts
        BY <3>2 DEF Enrichment
      <4>2. row[e].wait - 1 \in (1..MaxAttempts) \cup {0, None}
        BY <4>1, AttemptsAssumption
      <4> QED BY <3>2, <4>1, <4>2 DEF Sooner, Enrichment
    <3> QED BY <3>1, <3>2
  <2> QED BY <1>2, <2>1 DEF IntervalPasses
<1> QED BY <1>1, <1>2

\* A charge leaves a number of credits.
LEMMA ChargeType ==
    ASSUME used \in Nat, NEW cost \in Nat, NEW old, Charge(cost, old)
    PROVE  used' \in Nat
BY DEF Charge

\* pause_fr24 stops at the budget and not before it.
LEMMA PausedAtBudget ==
    ASSUME used \in Nat, BudgetPolicy = "pause_fr24"
    PROVE  ~Paused => used <= OperatingBudget - 1
BY BudgetAssumption DEF Paused, BudgetState, AtLeast

(***************************************************************************)
(* The inductive invariant                                                 *)
(***************************************************************************)

Attempts(e) == IF row[e] = None THEN 0 ELSE row[e].attempts

\* Only a cycle past its selection has candidates.
Local == pc \in {"sleep", "poll"} => candidates = {}

Open == \A e \in candidates : ~Settled(e)

\* A settled row is not scheduled.
Unscheduled == \A e \in Episode : Settled(e) => row[e].wait = None

\* Every request for an episode is recorded as a try, lost, or about to be recorded.
Counted ==
    \A e \in Episode :
        calls[e] <= Attempts(e) + lost[e] + (IF e \in candidates \ left THEN 1 ELSE 0)

IInv == TypeOK /\ Local /\ Open /\ Unscheduled /\ Counted

LEMMA InitSound == Init => IInv
<1> SUFFICES ASSUME Init PROVE IInv
  OBVIOUS
<1>1. TypeOK
  <2>1. CreditsTypeOK
    BY DEF Init, CreditsInit, CreditsTypeOK
  <2>2. crashes \in 0..MaxCrashes
    BY CycleAssumption DEF Init
  <2>3. calls \in [Episode -> Nat] /\ lost \in [Episode -> Nat]
    BY DEF Init
  <2> QED BY <2>1, <2>2, <2>3 DEF Init, TypeOK
<1>2. Local /\ Open
  BY DEF Init, Local, Open
<1>3. Unscheduled /\ Counted
  BY DEF Init, CreditsInit, Unscheduled, Settled, Counted, Attempts
<1> QED BY <1>1, <1>2, <1>3 DEF IInv

(***************************************************************************)
(* Types                                                                   *)
(***************************************************************************)

\* An idle cycle has its locals in their types.
LEMMA IdleType ==
    ASSUME Idle
    PROVE  /\ pc' = "sleep" /\ lastMonth' \in BOOLEAN /\ nonessential' \in BOOLEAN
           /\ todo' \subseteq Cluster
           /\ seen' \subseteq Episode /\ candidates' \subseteq Episode /\ left' \subseteq candidates'
           /\ got' \subseteq Episode /\ answer' \in {"ok", "failed"}
BY DEF Idle

\* Prices are natural numbers.
LEMMA Prices ==
    ASSUME NEW n \in Nat
    PROVE  LightCredits(n) \in Nat /\ SummaryCredits(n) \in Nat /\ TrackCredits(n) \in Nat
BY DEF LightCredits, SummaryCredits, TrackCredits

\* Subsets of the episodes have a size.
LEMMA EpisodesSize ==
    ASSUME NEW S \in SUBSET Episode
    PROVE  IsFiniteSet(S) /\ Cardinality(S) \in Nat /\ Cardinality(S) <= Cardinality(Episode)
           /\ Cardinality(Episode) \in Nat
BY FiniteAssumption, FS_Subset, FS_CardinalityType

LEMMA RequestType == TypeOK /\ (Poll \/ Summarise) => TypeOK'
<1> SUFFICES ASSUME TypeOK, Poll \/ Summarise PROVE TypeOK'
  OBVIOUS
<1> USE DEF TypeOK, CreditsTypeOK
<1>1. ASSUME NEW c \in todo, ClusterFails(c) PROVE TypeOK'
  BY <1>1 DEF ClusterFails, credits, enrichment, history
<1>2. ASSUME NEW c \in todo, NEW n \in 0..ResponseLimit, NEW found \in SUBSET Episode,
             ClusterAnswers(c, n, found)
      PROVE  TypeOK'
  <2>1. used' \in Nat
    BY <1>2, Prices, ChargeType, CycleAssumption DEF ClusterAnswers
  <2> QED BY <1>2, <2>1 DEF ClusterAnswers, enrichment, history
<1>3. ASSUME NEW batch \in SUBSET left, SummaryFails(batch) PROVE TypeOK'
  BY <1>3 DEF SummaryFails, Asked, credits
<1>4. ASSUME NEW batch \in SUBSET left, NEW returned \in SUBSET batch, SummaryAnswers(batch, returned)
      PROVE  TypeOK'
  <2>1. used' \in Nat
    BY <1>4, Prices, ChargeType, EpisodesSize DEF SummaryAnswers
  <2> QED BY <1>4, <2>1 DEF SummaryAnswers, Asked
<1> QED BY <1>1, <1>2, <1>3, <1>4 DEF Poll, Summarise

\* Whatever the operator does is an admission or an answer.
Operator ==
    \/ \E m \in Tester : TestStarts(m) \/ \E n \in 0..1 : TestEnds(m, n)
    \/ \E m \in Buyer : TrackStarts(m) \/ \E n \in 0..1 : TrackEnds(m, n)

LEMMA OperatorAction ==
    Operator => \E m \in Tester \cup Buyer : Admit(m) \/ \E cost \in Nat : Answer(m, cost)
<1>1. ASSUME NEW m \in Tester, TestStarts(m) PROVE Admit(m)
  BY <1>1 DEF TestStarts
<1>2. ASSUME NEW m \in Buyer, TrackStarts(m) PROVE Admit(m)
  BY <1>2 DEF TrackStarts
<1>3. ASSUME NEW m \in Tester, NEW n \in 0..1, TestEnds(m, n) PROVE \E cost \in Nat : Answer(m, cost)
  BY <1>3, Prices DEF TestEnds
<1>4. ASSUME NEW m \in Buyer, NEW n \in 0..1, TrackEnds(m, n) PROVE \E cost \in Nat : Answer(m, cost)
  BY <1>4, Prices DEF TrackEnds
<1> QED BY <1>1, <1>2, <1>3, <1>4 DEF Operator

LEMMA NextType == TypeOK /\ [Next]_vars => TypeOK'
<1> SUFFICES ASSUME TypeOK, [Next]_vars PROVE TypeOK'
  OBVIOUS
<1> USE DEF TypeOK, CreditsTypeOK
<1>1. CASE Skip
  BY <1>1, IdleType DEF Skip, credits, history
<1>2. ASSUME NEW enabled \in SUBSET Cluster, NEW enrich \in BOOLEAN, Begin(enabled, enrich)
      PROVE  TypeOK'
  BY <1>2 DEF Begin, credits, enrichment, history
<1>3. CASE Poll \/ Summarise
  BY <1>3, RequestType
<1>4. CASE Select
  <2>1. CASE Finish
    BY <1>4, <2>1, IdleType DEF Select, Finish, credits, history
  <2>2. CASE ~Finish
    BY <1>4, <2>2 DEF Select, credits, history
  <2> QED BY <2>1, <2>2
<1>5. ASSUME NEW e \in candidates, NEW flight \in Flight, Save(e, flight) PROVE TypeOK'
  <2>1. row' \in [Episode -> Enrichment \cup {None}]
    BY <1>5, EnrichmentType DEF Save, Outcome, Terminal
  <2>2. CASE Finish
    BY <1>5, <2>1, <2>2, IdleType DEF Save, Finish, history
  <2>3. CASE ~Finish
    BY <1>5, <2>1, <2>3 DEF Save, history
  <2> QED BY <2>2, <2>3
<1>6. ASSUME NEW m \in Tester \cup Buyer, Admit(m) PROVE TypeOK'
  BY <1>6 DEF Admit, credits, cycle, enrichment, history
<1>7. ASSUME NEW m \in Tester \cup Buyer, NEW cost \in Nat, Answer(m, cost) PROVE TypeOK'
  <2>1. used' \in Nat
    BY <1>7, ChargeType DEF Answer
  <2> QED BY <1>7, <2>1 DEF Answer, cycle, enrichment, history
<1>8. CASE Interval
  BY <1>8, EnrichmentType DEF Interval, cycle, enrichment, history
<1>9. CASE NewMonth
  BY <1>9 DEF NewMonth, enrichment, history
<1>10. CASE Abort
  BY <1>10, IdleType, CycleAssumption DEF Abort, Dropped, credits
<1>11. CASE Crash
  BY <1>11, IdleType, CycleAssumption DEF Crash, Dropped, credits
<1>12. CASE UNCHANGED vars
  BY <1>12 DEF vars, credits, cycle, enrichment, history
<1> QED BY <1>1, <1>2, <1>3, <1>4, <1>5, <1>6, <1>7, <1>8, <1>9, <1>10, <1>11, <1>12, OperatorAction
    DEF Next, Proceed, Operator

(***************************************************************************)
(* Rows and tries                                                          *)
(***************************************************************************)

\* A recorded try adds one to the tries of an open row, and settles it unscheduled.
LEMMA SaveRow ==
    ASSUME TypeOK, NEW e \in Episode, NEW status \in Terminal \cup {"failed"}, NEW flight \in Flight,
           ~Settled(e), SaveEnrichment(e, status, flight)
    PROVE  /\ Attempts(e)' = Attempts(e) + 1
           /\ Settled(e)' => row'[e].wait = None
           /\ \A x \in Episode \ {e} : row'[x] = row[x]
<1>1. row[e] \in Enrichment \cup {None} /\ row'[e] = Saved(row[e], status, flight)
      /\ \A x \in Episode \ {e} : row'[x] = row[x]
  BY DEF TypeOK, CreditsTypeOK, SaveEnrichment
<1>2. row'[e] \in Enrichment
  <2>1. row' \in [Episode -> Enrichment \cup {None}]
    BY EnrichmentType DEF TypeOK, CreditsTypeOK
  <2>2. row'[e] # None
    <3>1. CASE row[e] = None
      <4>1. row'[e].attempts = 1 /\ row'[e].flight = flight
            /\ row'[e] = [status |-> status, attempts |-> 1, wait |-> Schedule(status, 1), flight |-> flight]
        BY <1>1, <3>1 DEF Saved
      <4>2. Schedule(status, 1) \in (1..MaxAttempts) \cup {0, None}
        BY AttemptsAssumption DEF Schedule
      <4> QED BY <4>1, <4>2, NoneIsNoRow, AttemptsAssumption DEF Enrichment
    <3>2. CASE row[e] # None
      <4>1. row[e] \in Enrichment /\ ~(row[e].attempts >= MaxAttempts)
        BY <1>1, <3>2, AttemptsAssumption DEF Settled, Enrichment
      <4>2. row'[e] = [status |-> status, attempts |-> row[e].attempts + 1,
                       wait |-> Schedule(status, row[e].attempts + 1), flight |-> flight]
        BY <1>1, <3>2, <4>1 DEF Saved
      <4>3. row[e].attempts + 1 \in 1..MaxAttempts
        BY <4>1, AttemptsAssumption DEF Enrichment
      <4>4. Schedule(status, row[e].attempts + 1) \in (1..MaxAttempts) \cup {0, None}
        BY <4>3 DEF Schedule
      <4> QED BY <4>2, <4>3, <4>4, NoneIsNoRow DEF Enrichment
    <3> QED BY <3>1, <3>2
  <2> QED BY <2>1, <2>2
<1>3. /\ row'[e].attempts = Attempts(e) + 1
      /\ row'[e].status = status
      /\ row'[e].wait = Schedule(status, Attempts(e) + 1)
  <2>1. CASE row[e] = None
    BY <1>1, <2>1 DEF Saved, Attempts
  <2>2. CASE row[e] # None
    <3>1. ~(row[e].attempts >= MaxAttempts)
      BY <1>1, <2>2, AttemptsAssumption DEF Settled, Enrichment
    <3> QED BY <1>1, <2>2, <3>1 DEF Saved, Attempts
  <2> QED BY <2>1, <2>2
<1>4. Attempts(e)' = Attempts(e) + 1
  BY <1>2, <1>3, NoneIsNoRow DEF Attempts
<1>5. Settled(e)' => row'[e].wait = None
  <2>1. Settled(e)' => status \in Terminal \/ Attempts(e) + 1 >= MaxAttempts
    BY <1>3, AttemptsAssumption DEF Settled
  <2> QED BY <1>3, <2>1 DEF Schedule
<1> QED BY <1>1, <1>4, <1>5

\* Time changes neither tries nor outcomes, and no settled row.
LEMMA IntervalRow ==
    ASSUME TypeOK, Unscheduled, IntervalPasses, NEW e \in Episode
    PROVE  /\ Attempts(e)' = Attempts(e)
           /\ Settled(e)' <=> Settled(e)
           /\ Settled(e) => row'[e] = row[e]
<1>1. row'[e] = Sooner(row[e]) /\ row[e] \in Enrichment \cup {None}
  BY DEF IntervalPasses, TypeOK, CreditsTypeOK
<1>2. CASE row[e] = None \/ row[e].wait \in {0, None}
  BY <1>1, <1>2 DEF Sooner, Attempts, Settled
<1>3. CASE ~(row[e] = None \/ row[e].wait \in {0, None})
  <2>1. row[e] \in Enrichment /\ row[e].wait \in 1..MaxAttempts
    BY <1>1, <1>3 DEF Enrichment
  <2>2. row'[e] = [row[e] EXCEPT !.wait = @ - 1]
    BY <1>1, <1>3 DEF Sooner
  <2>3. row'[e] \in Enrichment /\ row'[e].attempts = row[e].attempts /\ row'[e].status = row[e].status
    BY <2>1, <2>2, AttemptsAssumption DEF Enrichment
  <2>4. row'[e] # None
    BY <2>3, NoneIsNoRow
  <2>5. ~Settled(e)
    BY <1>3 DEF Unscheduled
  <2> QED BY <1>3, <2>3, <2>4, <2>5 DEF Attempts, Settled
<1> QED BY <1>2, <1>3

(***************************************************************************)
(* Every step keeps the invariant                                          *)
(***************************************************************************)

Rest == Local /\ Open /\ Unscheduled /\ Counted

\* A step that leaves rows, candidates and calls alone.
LEMMA Quiet ==
    ASSUME IInv, UNCHANGED <<row, candidates, left, calls, lost>>, Local'
    PROVE  Rest'
<1>1. \A e \in Episode : (Settled(e)' <=> Settled(e)) /\ Attempts(e)' = Attempts(e)
  BY DEF Settled, Attempts
<1>2. Open'
  BY <1>1 DEF IInv, Open, Settled
<1>3. Unscheduled' /\ Counted'
  BY <1>1 DEF IInv, Unscheduled, Counted
<1> QED BY <1>2, <1>3 DEF Rest

\* The cycle ends with nobody about to be recorded, or counts what is lost.
LEMMA IdleSound ==
    ASSUME IInv, Idle, UNCHANGED <<row, calls>>,
           \/ candidates = {} /\ UNCHANGED lost
           \/ Dropped
    PROVE  Rest'
<1>1. candidates' = {} /\ left' = {} /\ pc' = "sleep"
  BY DEF Idle
<1>2. \A e \in Episode : (Settled(e)' <=> Settled(e)) /\ Attempts(e)' = Attempts(e) /\ Attempts(e) \in Nat
  <2> SUFFICES ASSUME NEW e \in Episode
               PROVE  (Settled(e)' <=> Settled(e)) /\ Attempts(e)' = Attempts(e) /\ Attempts(e) \in Nat
    OBVIOUS
  <2>1. row[e] \in Enrichment \cup {None}
    BY DEF IInv, TypeOK, CreditsTypeOK
  <2> QED BY <2>1, AttemptsAssumption DEF Settled, Attempts, Enrichment
<1>3. Local' /\ Open'
  BY <1>1 DEF Local, Open
<1>4. Unscheduled'
  BY <1>2 DEF IInv, Unscheduled
<1>5. Counted'
  <2> SUFFICES ASSUME NEW e \in Episode
               PROVE  calls'[e] <= Attempts(e)' + lost'[e] + 0
    BY <1>1 DEF Counted
  <2>1. calls[e] <= Attempts(e) + lost[e] + (IF e \in candidates \ left THEN 1 ELSE 0)
        /\ calls[e] \in Nat /\ lost[e] \in Nat
    BY DEF IInv, Counted, TypeOK
  <2>2. lost'[e] = lost[e] + (IF e \in candidates \ left THEN 1 ELSE 0)
    BY DEF Dropped, IInv, TypeOK
  <2> QED BY <1>2, <2>1, <2>2
<1> QED BY <1>3, <1>4, <1>5 DEF Rest

\* Only open rows become candidates, and none has been asked for.
LEMMA SelectSound ==
    ASSUME IInv, Select
    PROVE  Rest'
<1>1. candidates = {} /\ UNCHANGED <<row, calls, lost>>
  BY DEF IInv, Local, Select, credits, history
<1>2. CASE Finish
  BY <1>1, <1>2, IdleSound DEF Finish
<1>3. CASE ~Finish
  <2> DEFINE chosen == IF nonessential THEN {e \in seen : Eligible(e)} ELSE {}
  <2>1. candidates' = chosen /\ left' = chosen /\ pc' = "summary"
    BY <1>3 DEF Select
  <2>2. \A e \in chosen : ~Settled(e)
    <3> SUFFICES ASSUME NEW e \in Episode, Eligible(e) PROVE ~Settled(e)
      BY DEF IInv, TypeOK
    <3>1. row[e] \in Enrichment \cup {None}
      BY DEF IInv, TypeOK, CreditsTypeOK
    <3> QED BY <3>1, AttemptsAssumption DEF Eligible, Settled, Terminal, Enrichment
  <2>3. \A e \in Episode : (Settled(e)' <=> Settled(e)) /\ Attempts(e)' = Attempts(e)
    BY <1>1 DEF Settled, Attempts
  <2>4. Local'
    BY <2>1 DEF Local
  <2>5. Open'
    BY <1>1, <2>1, <2>2 DEF Open, Settled
  <2>6. Unscheduled'
    BY <1>1, <2>3 DEF IInv, Unscheduled
  <2>7. Counted'
    <3> SUFFICES ASSUME NEW e \in Episode PROVE calls'[e] <= Attempts(e)' + lost'[e] + 0
      BY <2>1 DEF Counted
    <3>1. calls[e] <= Attempts(e) + lost[e] + 0
      BY <1>1 DEF IInv, Counted
    <3> QED BY <1>1, <2>3, <3>1
  <2> QED BY <2>4, <2>5, <2>6, <2>7 DEF Rest
<1> QED BY <1>2, <1>3

\* A batch that is asked for is one request more for each of it, to be recorded.
LEMMA AskSound ==
    ASSUME IInv, NEW batch \in SUBSET left, Asked(batch), pc' \in {"summary", "save"},
           left' = left \ batch, UNCHANGED <<row, candidates, lost>>
    PROVE  Rest'
<1>1. \A e \in Episode : (Settled(e)' <=> Settled(e)) /\ Attempts(e)' = Attempts(e)
  BY DEF Settled, Attempts
<1>2. Local'
  BY DEF Local
<1>3. Open' /\ Unscheduled'
  BY <1>1 DEF IInv, Open, Unscheduled, Settled
<1>4. Counted'
  <2> SUFFICES ASSUME NEW e \in Episode
               PROVE  calls'[e] <= Attempts(e)' + lost'[e] + (IF e \in candidates' \ left' THEN 1 ELSE 0)
    BY DEF Counted
  <2>1. calls[e] <= Attempts(e) + lost[e] + (IF e \in candidates \ left THEN 1 ELSE 0)
        /\ calls[e] \in Nat /\ lost[e] \in Nat /\ left \subseteq candidates
    BY DEF IInv, Counted, TypeOK
  <2>2. Attempts(e)' = Attempts(e) /\ Attempts(e) \in Nat
    <3>1. row[e] \in Enrichment \cup {None}
      BY DEF IInv, TypeOK, CreditsTypeOK
    <3> QED BY <1>1, <3>1, AttemptsAssumption DEF Attempts, Enrichment
  <2>3. calls'[e] = IF e \in batch THEN calls[e] + 1 ELSE calls[e]
    BY DEF Asked
  <2>4. CASE e \in batch
    BY <2>1, <2>2, <2>3, <2>4
  <2>5. CASE e \notin batch
    BY <2>1, <2>2, <2>3, <2>5
  <2> QED BY <2>4, <2>5
<1> QED BY <1>2, <1>3, <1>4 DEF Rest

\* A recorded try turns what was about to be recorded into an attempt.
LEMMA SaveSound ==
    ASSUME IInv, NEW e \in candidates, NEW flight \in Flight, Save(e, flight)
    PROVE  Rest'
<1> DEFINE status == Outcome(e)
<1>1. pc = "save" /\ e \in candidates /\ ~Settled(e) /\ SaveEnrichment(e, status, flight)
      /\ status \in Terminal \cup {"failed"} /\ UNCHANGED <<calls, lost>>
  BY DEF Save, IInv, Open, Outcome, Terminal, history
<1>2. /\ Attempts(e)' = Attempts(e) + 1
      /\ Settled(e)' => row'[e].wait = None
      /\ \A x \in Episode \ {e} : row'[x] = row[x]
  <2>1. e \in Episode
    BY DEF IInv, TypeOK
  <2> QED BY <1>1, <2>1, SaveRow DEF IInv
<1>3. candidates' = candidates \ {e} /\ left' = left \ {e} /\ (pc' = "save" \/ candidates' = {})
  <2>1. left \subseteq candidates
    BY DEF IInv, TypeOK
  <2> QED BY <1>1, <2>1 DEF Save, Finish, Idle
<1>4. \A x \in Episode \ {e} : (Settled(x)' <=> Settled(x)) /\ Attempts(x)' = Attempts(x)
  BY <1>2 DEF Settled, Attempts
<1>5. candidates \subseteq Episode
  BY DEF IInv, TypeOK
<1>6. Local'
  BY <1>3 DEF Local
<1>7. Open'
  <2> SUFFICES ASSUME NEW x \in candidates' PROVE ~Settled(x)'
    BY DEF Open
  <2>1. x \in candidates /\ x \in Episode \ {e}
    BY <1>3, <1>5
  <2> QED BY <1>4, <2>1 DEF IInv, Open
<1>8. Unscheduled'
  <2> SUFFICES ASSUME NEW x \in Episode, Settled(x)' PROVE row'[x].wait = None
    BY DEF Unscheduled
  <2> QED BY <1>2, <1>4 DEF IInv, Unscheduled
<1>9. Counted'
  <2> SUFFICES ASSUME NEW x \in Episode
               PROVE  calls'[x] <= Attempts(x)' + lost'[x] + (IF x \in candidates' \ left' THEN 1 ELSE 0)
    BY DEF Counted
  <2>1. calls[x] <= Attempts(x) + lost[x] + (IF x \in candidates \ left THEN 1 ELSE 0)
        /\ calls[x] \in Nat /\ lost[x] \in Nat
    BY DEF IInv, Counted, TypeOK
  <2>2. Attempts(x) \in Nat
    <3>1. row[x] \in Enrichment \cup {None}
      BY DEF IInv, TypeOK, CreditsTypeOK
    <3> QED BY <3>1, AttemptsAssumption DEF Attempts, Enrichment
  <2>3. CASE x = e
    BY <1>1, <1>2, <1>3, <2>1, <2>2, <2>3
  <2>4. CASE x # e
    BY <1>1, <1>3, <1>4, <2>1, <2>2, <2>4
  <2> QED BY <2>3, <2>4
<1> QED BY <1>6, <1>7, <1>8, <1>9 DEF Rest

LEMMA IntervalSound ==
    ASSUME IInv, Interval
    PROVE  Rest'
<1>1. IntervalPasses /\ UNCHANGED <<candidates, left, calls, lost, pc>>
  BY DEF Interval, cycle, enrichment, history
<1>2. \A e \in Episode : /\ Attempts(e)' = Attempts(e)
                         /\ Settled(e)' <=> Settled(e)
                         /\ Settled(e) => row'[e] = row[e]
  BY <1>1, IntervalRow DEF IInv
<1>3. candidates \subseteq Episode
  BY DEF IInv, TypeOK
<1>4. Local'
  BY <1>1 DEF IInv, Local
<1>5. Open'
  <2> SUFFICES ASSUME NEW e \in candidates' PROVE ~Settled(e)'
    BY DEF Open
  <2>1. e \in candidates /\ e \in Episode
    BY <1>1, <1>3
  <2> QED BY <1>2, <2>1 DEF IInv, Open
<1>6. Unscheduled' /\ Counted'
  BY <1>1, <1>2 DEF IInv, Unscheduled, Counted
<1> QED BY <1>4, <1>5, <1>6 DEF Rest

LEMMA NextSound == IInv /\ [Next]_vars => IInv'
<1> SUFFICES ASSUME IInv, [Next]_vars PROVE Rest'
  BY NextType DEF IInv, Rest
<1> USE DEF credits, cycle, enrichment, history
<1>1. CASE Skip
  <2>1. candidates = {}
    BY <1>1 DEF Skip, IInv, Local
  <2> QED BY <1>1, <2>1, IdleSound DEF Skip
<1>2. ASSUME NEW enabled \in SUBSET Cluster, NEW enrich \in BOOLEAN, Begin(enabled, enrich)
      PROVE  Rest'
  BY <1>2, Quiet DEF Begin, IInv, Local
<1>3. ASSUME NEW c \in todo, ClusterFails(c) PROVE Rest'
  BY <1>3, Quiet DEF ClusterFails, IInv, Local
<1>4. ASSUME NEW c \in todo, NEW n \in 0..ResponseLimit, NEW found \in SUBSET Episode,
             ClusterAnswers(c, n, found)
      PROVE  Rest'
  BY <1>4, Quiet DEF ClusterAnswers, IInv, Local
<1>5. CASE Select
  BY <1>5, SelectSound
<1>6. ASSUME NEW batch \in SUBSET left, SummaryFails(batch) PROVE Rest'
  BY <1>6, AskSound DEF SummaryFails
<1>7. ASSUME NEW batch \in SUBSET left, NEW returned \in SUBSET batch, SummaryAnswers(batch, returned)
      PROVE  Rest'
  BY <1>7, AskSound DEF SummaryAnswers
<1>8. ASSUME NEW e \in candidates, NEW flight \in Flight, Save(e, flight) PROVE Rest'
  BY <1>8, SaveSound
<1>9. CASE Operator \/ NewMonth \/ UNCHANGED vars
  <2>1. UNCHANGED <<row, candidates, left, calls, lost, pc>>
    BY <1>9, OperatorAction DEF Admit, Answer, NewMonth, vars
  <2> QED BY <2>1, Quiet DEF IInv, Local
<1>10. CASE Interval
  BY <1>10, IntervalSound
<1>11. CASE Abort \/ Crash
  BY <1>11, IdleSound DEF Abort, Crash
<1> QED BY <1>1, <1>2, <1>3, <1>4, <1>5, <1>6, <1>7, <1>8, <1>9, <1>10, <1>11
    DEF Next, Proceed, Poll, Summarise, Operator

THEOREM Invariance == Spec => []IInv
BY InitSound, NextSound, PTL DEF Spec

\* The credits, the rows and the cycle's locals keep their types
\* (_run_fr24_cycle_locked, save_fr24_enrichment).
THEOREM CycleTypeCorrect == Spec => []TypeOK
<1>1. IInv => TypeOK
  BY DEF IInv
<1> QED BY <1>1, Invariance, PTL

\* No episode is asked for more often than MaxAttempts, not counting tries that a
\* crash lost (_enrich_new_candidates).
THEOREM TriesBoundedCorrect == Spec => []TriesBounded
<1>1. IInv => TriesBounded
  <2> SUFFICES ASSUME IInv, NEW e \in Episode PROVE calls[e] <= MaxAttempts + lost[e]
    BY DEF TriesBounded
  <2>1. calls[e] <= Attempts(e) + lost[e] + (IF e \in candidates \ left THEN 1 ELSE 0)
        /\ calls[e] \in Nat /\ lost[e] \in Nat
    BY DEF IInv, Counted, TypeOK
  <2>2. row[e] \in Enrichment \cup {None}
    BY DEF IInv, TypeOK, CreditsTypeOK
  <2>3. Attempts(e) \in 0..MaxAttempts
    BY <2>2, AttemptsAssumption DEF Attempts, Enrichment
  <2>4. e \in candidates => Attempts(e) < MaxAttempts
    BY <2>2, <2>3, AttemptsAssumption DEF IInv, Open, Settled, Attempts
  <2> QED BY <2>1, <2>3, <2>4, AttemptsAssumption
<1> QED BY <1>1, Invariance, PTL

\* A summary, an empty answer or a surrender is final (save_fr24_enrichment).
THEOREM SettledStaysCorrect == Spec => SettledStays
<1>1. IInv /\ [Next]_vars => [\A e \in Episode : Settled(e) => row'[e] = row[e]]_vars
  <2> SUFFICES ASSUME IInv, Next, NEW e \in Episode, Settled(e) PROVE row'[e] = row[e]
    OBVIOUS
  <2>1. ASSUME NEW x \in candidates, NEW flight \in Flight, Save(x, flight) PROVE row'[e] = row[e]
    <3>1. x # e
      BY <2>1 DEF Save, IInv, Open
    <3> QED BY <2>1, <3>1 DEF Save, SaveEnrichment, IInv, TypeOK, CreditsTypeOK
  <2>2. CASE Interval
    BY <2>2, IntervalRow DEF IInv, Interval
  <2>3. CASE Poll \/ Summarise \/ Select
    BY <2>3 DEF Poll, Summarise, Select, ClusterFails, ClusterAnswers, SummaryFails, SummaryAnswers, credits
  <2>4. CASE Skip \/ (\E enabled \in SUBSET Cluster, enrich \in BOOLEAN : Begin(enabled, enrich))
             \/ Operator \/ NewMonth \/ Abort \/ Crash
    BY <2>4, OperatorAction DEF Skip, Begin, Admit, Answer, NewMonth, Abort, Crash, credits
  <2> QED BY <2>1, <2>2, <2>3, <2>4 DEF Next, Proceed, Operator
<1> QED BY <1>1, Invariance, PTL DEF Spec, SettledStays

(***************************************************************************)
(* The budget: what is spent in this month and what the cycle and the      *)
(* operator's requests may still spend stay under the ceiling together.    *)
(***************************************************************************)

Light == LightCredits(ResponseLimit)

Summaries == 2 * Cardinality(Episode)

CycleMaySpend ==
    CASE pc = "poll" /\ ~lastMonth -> Cardinality(todo) * Light + Summaries
      [] pc = "summary" /\ ~lastMonth -> 2 * Cardinality(left)
      [] OTHER -> 0

ManualMaySpend == 6 * Cardinality(manual \cap Tester) + 40 * Cardinality(manual \cap Buyer)

Manuals == 6 * Cardinality(Tester) + 40 * Cardinality(Buyer)

Ceiling == OperatingBudget - 1 + (Cardinality(Cluster) * Light + Summaries) + Manuals

Within == used + CycleMaySpend + ManualMaySpend <= Ceiling

\* The operator's requests under way are so many of a finite number.
LEMMA ManualParts ==
    /\ Cardinality(Tester) \in Nat /\ Cardinality(Buyer) \in Nat
    /\ Cardinality(manual \cap Tester) \in Nat /\ Cardinality(manual \cap Buyer) \in Nat
    /\ Cardinality(manual \cap Tester) <= Cardinality(Tester)
    /\ Cardinality(manual \cap Buyer) <= Cardinality(Buyer)
<1>1. manual \cap Tester \in SUBSET Tester /\ manual \cap Buyer \in SUBSET Buyer
  OBVIOUS
<1> QED BY <1>1, FiniteAssumption, FS_Subset, FS_CardinalityType

\* A set loses one of its members, and another none.
LEMMA OneLess ==
    ASSUME NEW S, NEW T, NEW U, IsFiniteSet(T), T \cap U = {}, NEW m \in S \cap T
    PROVE  /\ Cardinality((S \ {m}) \cap T) = Cardinality(S \cap T) - 1
           /\ (S \ {m}) \cap U = S \cap U
<1>1. (S \ {m}) \cap T = (S \cap T) \ {m} /\ (S \ {m}) \cap U = S \cap U
  OBVIOUS
<1>2. IsFiniteSet(S \cap T)
  <2>1. S \cap T \in SUBSET T
    OBVIOUS
  <2> QED BY <2>1, FS_Subset
<1>3. Cardinality((S \cap T) \ {m}) = Cardinality(S \cap T) - 1
  BY <1>2, FS_RemoveElement
<1> QED BY <1>1, <1>3

\* The parts of the ceiling are natural numbers, and so is what is left of each.
LEMMA Parts ==
    ASSUME TypeOK
    PROVE  /\ Light \in Nat /\ Light >= 6
           /\ \A n \in 0..ResponseLimit : LightCredits(n) \in Nat /\ LightCredits(n) <= Light
           /\ Summaries \in Nat
           /\ Cardinality(Cluster) \in Nat /\ Cardinality(todo) \in Nat
           /\ Cardinality(left) \in Nat /\ 2 * Cardinality(left) <= Summaries
           /\ Cardinality(todo) * Light \in Nat
           /\ Cardinality(Cluster) * Light \in Nat
           /\ Cardinality(todo) * Light <= Cardinality(Cluster) * Light
<1>1. Light \in Nat /\ Light >= 6 /\ \A n \in 0..ResponseLimit : LightCredits(n) \in Nat /\ LightCredits(n) <= Light
  BY CycleAssumption DEF Light, LightCredits
<1>2. left \in SUBSET Episode /\ todo \in SUBSET Cluster
  BY DEF TypeOK
<1>3. Cardinality(left) \in Nat /\ Cardinality(Episode) \in Nat /\ Cardinality(left) <= Cardinality(Episode)
  BY <1>2, EpisodesSize
<1>4. /\ Cardinality(Cluster) \in Nat /\ Cardinality(todo) \in Nat
      /\ Cardinality(todo) <= Cardinality(Cluster)
  BY <1>2, FiniteAssumption, FS_Subset, FS_CardinalityType
<1>5. \A a, b, k \in Nat : a <= b => a * k \in Nat /\ b * k \in Nat /\ a * k <= b * k
  OBVIOUS
<1> QED BY <1>1, <1>3, <1>4, <1>5 DEF Summaries

Parted ==
    /\ CycleMaySpend \in Nat /\ CycleMaySpend <= Cardinality(Cluster) * Light + Summaries
    /\ ManualMaySpend \in Nat /\ ManualMaySpend <= Manuals /\ Manuals \in Nat
    /\ Ceiling \in Nat
    /\ Cardinality(Cluster) * Light \in Nat /\ Summaries \in Nat
    /\ used \in Nat

LEMMA Nonnegative == TypeOK => Parted
<1>1. ManualMaySpend \in Nat /\ ManualMaySpend <= Manuals /\ Manuals \in Nat
  BY ManualParts DEF ManualMaySpend, Manuals
<1> SUFFICES ASSUME TypeOK PROVE Parted
  OBVIOUS
<1>2. CycleMaySpend \in Nat /\ CycleMaySpend <= Cardinality(Cluster) * Light + Summaries
  BY Parts DEF CycleMaySpend
<1>3. Cardinality(Cluster) * Light \in Nat /\ Summaries \in Nat /\ used \in Nat
  BY Parts DEF TypeOK, CreditsTypeOK
<1>4. Ceiling \in Nat
  BY <1>1, <1>3, BudgetAssumption DEF Ceiling
<1> QED BY <1>1, <1>2, <1>3, <1>4 DEF Parted

LEMMA NonnegativeNext == TypeOK' => Parted'
BY Nonnegative, PTL

\* A step after which no more may be spent than before.
LEMMA NoMore ==
    ASSUME TypeOK, TypeOK', Within,
           used' + CycleMaySpend' + ManualMaySpend' <= used + CycleMaySpend + ManualMaySpend
    PROVE  Within'
BY Nonnegative, NonnegativeNext DEF Parted, Within, Ceiling

\* Admitting a cycle or a request, with credits left.
LEMMA AdmitWithin ==
    ASSUME TypeOK, TypeOK', BudgetPolicy = "pause_fr24", ~Paused, used' = used
    PROVE  Within'
<1>1. used <= OperatingBudget - 1
  BY PausedAtBudget DEF TypeOK, CreditsTypeOK
<1> QED BY <1>1, Nonnegative, NonnegativeNext, BudgetAssumption DEF Parted, Within, Ceiling

\* A cluster less to poll is one answer less to pay for.
LEMMA PollWithin ==
    ASSUME TypeOK, TypeOK', Within, NEW c \in todo, pc = "poll", pc' = "poll",
           todo' = todo \ {c}, UNCHANGED <<lastMonth, left, manual>>,
           \/ used' = used
           \/ \E n \in 0..ResponseLimit : Charge(LightCredits(n), lastMonth)
    PROVE  Within'
<1>1. Cardinality(todo') = Cardinality(todo) - 1 /\ Cardinality(todo) \in Nat \ {0}
  <2>1. IsFiniteSet(todo)
    BY FiniteAssumption, FS_Subset DEF TypeOK
  <2>2. Cardinality(todo') \in Nat /\ Cardinality(todo') = Cardinality(todo) - 1
    BY <2>1, FS_RemoveElement, FS_CardinalityType
  <2>3. Cardinality(todo) \in Nat
    BY <2>1, FS_CardinalityType
  <2> QED BY <2>2, <2>3
<1>2. Cardinality(todo') * Light = Cardinality(todo) * Light - Light
  <2>1. \A a, k \in Nat : (a - 1) * k = a * k - k
    OBVIOUS
  <2> QED BY <1>1, <2>1, Parts
<1>3. ManualMaySpend' = ManualMaySpend
  BY DEF ManualMaySpend
<1>4. CASE lastMonth
  <2>1. CycleMaySpend' = 0 /\ CycleMaySpend = 0 /\ used' = used
    BY <1>4 DEF Charge, CycleMaySpend
  <2> QED BY <1>3, <2>1, NoMore, Nonnegative DEF Parted
<1>5. CASE ~lastMonth
  <2>1. CycleMaySpend = Cardinality(todo) * Light + Summaries
        /\ CycleMaySpend' = Cardinality(todo) * Light - Light + Summaries
    BY <1>2, <1>5 DEF CycleMaySpend
  <2>2. used' <= used + Light /\ used' \in Nat /\ used \in Nat /\ Light \in Nat
    BY <1>5, Parts DEF Charge, TypeOK, CreditsTypeOK
  <2>3. Cardinality(todo) * Light \in Nat /\ Summaries \in Nat /\ ManualMaySpend \in Nat
    BY Parts, Nonnegative DEF Parted
  <2> QED BY <1>3, <2>1, <2>2, <2>3, NoMore
<1> QED BY <1>4, <1>5

\* A batch less to ask for is as many summaries less to pay for.
LEMMA SummaryWithin ==
    ASSUME TypeOK, TypeOK', Within, NEW batch \in SUBSET left, pc = "summary", pc' \in {"summary", "save"},
           left' = left \ batch, UNCHANGED <<lastMonth, manual>>,
           \/ used' = used
           \/ \E returned \in SUBSET batch : Charge(SummaryCredits(Cardinality(returned)), lastMonth)
    PROVE  Within'
<1>1. IsFiniteSet(left) /\ IsFiniteSet(batch) /\ left \in SUBSET Episode /\ batch \in SUBSET Episode
  BY EpisodesSize DEF TypeOK
<1>2. Cardinality(left') = Cardinality(left) - Cardinality(batch)
      /\ Cardinality(left) \in Nat /\ Cardinality(batch) \in Nat /\ Cardinality(left') \in Nat
  <2>1. left \cap batch = batch /\ left' \in SUBSET Episode
    BY <1>1
  <2> QED BY <1>1, <2>1, FS_Difference, EpisodesSize
<1>3. \A returned \in SUBSET batch :
         Cardinality(returned) \in Nat /\ Cardinality(returned) <= Cardinality(batch)
  BY <1>1, FS_Subset, FS_CardinalityType
<1>4. ManualMaySpend' = ManualMaySpend /\ ManualMaySpend \in Nat
  BY Nonnegative DEF ManualMaySpend, Parted
<1>5. CASE lastMonth
  <2>1. CycleMaySpend' = 0 /\ CycleMaySpend = 0 /\ used' = used
    BY <1>5 DEF Charge, CycleMaySpend
  <2> QED BY <1>4, <2>1, NoMore, Nonnegative DEF Parted
<1>6. CASE ~lastMonth
  <2>1. CycleMaySpend = 2 * Cardinality(left) /\ CycleMaySpend' <= 2 * Cardinality(left')
        /\ CycleMaySpend' \in Nat
    BY <1>2, <1>6 DEF CycleMaySpend
  <2>2. used' <= used + 2 * Cardinality(batch) /\ used' \in Nat /\ used \in Nat
    BY <1>2, <1>3, <1>6 DEF Charge, SummaryCredits, TypeOK, CreditsTypeOK
  <2> QED BY <1>2, <1>4, <2>1, <2>2, NoMore
<1> QED BY <1>5, <1>6

\* A cycle that is over, or records its tries, spends nothing more.
LEMMA SpentWithin ==
    ASSUME TypeOK, TypeOK', Within, pc' \in {"sleep", "save"}, used' = used, ManualMaySpend' <= ManualMaySpend
    PROVE  Within'
BY NoMore, Nonnegative, NonnegativeNext DEF CycleMaySpend, Parted

\* An answer takes at most what was kept for it.
LEMMA AnswerWithin ==
    ASSUME TypeOK, TypeOK', Within,
           (\E m \in Tester, n \in 0..1 : TestEnds(m, n)) \/ (\E m \in Buyer, n \in 0..1 : TrackEnds(m, n))
    PROVE  Within'
<1>1. CycleMaySpend' = CycleMaySpend
  <2>1. UNCHANGED <<pc, lastMonth, todo, left>>
    BY DEF TestEnds, TrackEnds, Answer, cycle, enrichment
  <2> QED BY <2>1 DEF CycleMaySpend
<1>2. used' \in Nat /\ used' + ManualMaySpend' <= used + ManualMaySpend
  <2>1. ASSUME NEW m \in Tester, NEW n \in 0..1, TestEnds(m, n)
        PROVE  used' \in Nat /\ used' + ManualMaySpend' <= used + ManualMaySpend
    <3>1. m \in manual \cap Tester /\ manual' = manual \ {m}
      BY <2>1 DEF TestEnds, Answer
    <3>2. Cardinality(manual' \cap Tester) = Cardinality(manual \cap Tester) - 1
          /\ manual' \cap Buyer = manual \cap Buyer
      BY <3>1, OneLess, FiniteAssumption
    <3>3. ManualMaySpend' = ManualMaySpend - 6 /\ ManualMaySpend \in Nat
      <4> DEFINE x == Cardinality(manual \cap Tester)
                 y == Cardinality(manual \cap Buyer)
      <4>1. x \in Nat /\ y \in Nat
        BY ManualParts
      <4>2. Cardinality(manual' \cap Tester) = x - 1 /\ Cardinality(manual' \cap Buyer) = y
        BY <3>2
      <4> HIDE DEF x, y
      <4>3. 6 * (x - 1) = 6 * x - 6
        BY <4>1
      <4> QED BY <4>1, <4>2, <4>3 DEF ManualMaySpend, x, y
    <3>4. used \in Nat /\ used' \in Nat /\ used' <= used + 6
      BY <2>1 DEF TestEnds, Answer, Charge, LightCredits, TypeOK, CreditsTypeOK
    <3> DEFINE u == used'
               k == ManualMaySpend
    <3>5. u \in Nat /\ used \in Nat /\ u <= used + 6 /\ k \in Nat
      BY <3>3, <3>4
    <3>6. u + (k - 6) <= used + k
      <4> HIDE DEF u, k
      <4> QED BY <3>5
    <3> QED BY <3>3, <3>5, <3>6
  <2>2. ASSUME NEW m \in Buyer, NEW n \in 0..1, TrackEnds(m, n)
        PROVE  used' \in Nat /\ used' + ManualMaySpend' <= used + ManualMaySpend
    <3>1. m \in manual \cap Buyer /\ manual' = manual \ {m}
      BY <2>2 DEF TrackEnds, Answer
    <3>2. Cardinality(manual' \cap Buyer) = Cardinality(manual \cap Buyer) - 1
          /\ manual' \cap Tester = manual \cap Tester
      BY <3>1, OneLess, FiniteAssumption
    <3>3. ManualMaySpend' = ManualMaySpend - 40 /\ ManualMaySpend \in Nat
      <4> DEFINE x == Cardinality(manual \cap Buyer)
                 y == Cardinality(manual \cap Tester)
      <4>1. x \in Nat /\ y \in Nat
        BY ManualParts
      <4>2. Cardinality(manual' \cap Buyer) = x - 1 /\ Cardinality(manual' \cap Tester) = y
        BY <3>2
      <4> HIDE DEF x, y
      <4>3. 40 * (x - 1) = 40 * x - 40
        BY <4>1
      <4> QED BY <4>1, <4>2, <4>3 DEF ManualMaySpend, x, y
    <3>4. used \in Nat /\ used' \in Nat /\ used' <= used + 40
      BY <2>2 DEF TrackEnds, Answer, Charge, TrackCredits, TypeOK, CreditsTypeOK
    <3> DEFINE u == used'
               k == ManualMaySpend
    <3>5. u \in Nat /\ used \in Nat /\ u <= used + 40 /\ k \in Nat
      BY <3>3, <3>4
    <3>6. u + (k - 40) <= used + k
      <4> HIDE DEF u, k
      <4> QED BY <3>5
    <3> QED BY <3>3, <3>5, <3>6
  <2> QED BY <2>1, <2>2
<1> QED BY <1>1, <1>2, NoMore, Nonnegative, NonnegativeNext DEF Parted

\* Nothing is kept for requests that are not under way.
LEMMA NoneMaySpend == manual' = {} => ManualMaySpend' = 0
<1>1. {} \cap Tester = {} /\ {} \cap Buyer = {}
  OBVIOUS
<1>2. Cardinality({}) = 0
  BY FS_EmptySet
<1> QED BY <1>1, <1>2 DEF ManualMaySpend

LEMMA StepWithin ==
    ASSUME TypeOK, TypeOK', BudgetPolicy = "pause_fr24", Within, [Next]_vars
    PROVE  Within'
<1> USE DEF credits, cycle, enrichment, history
<1>1. ManualMaySpend \in Nat /\ CycleMaySpend \in Nat /\ used \in Nat
  BY Nonnegative DEF Parted
<1>2. CASE Skip
  BY <1>1, <1>2, SpentWithin DEF Skip, Idle, ManualMaySpend
<1>3. ASSUME NEW enabled \in SUBSET Cluster, NEW enrich \in BOOLEAN, Begin(enabled, enrich)
      PROVE  Within'
  BY <1>3, AdmitWithin DEF Begin
<1>4. ASSUME NEW c \in todo, ClusterFails(c) PROVE Within'
  BY <1>4, PollWithin DEF ClusterFails
<1>5. ASSUME NEW c \in todo, NEW n \in 0..ResponseLimit, NEW found \in SUBSET Episode,
             ClusterAnswers(c, n, found)
      PROVE  Within'
  BY <1>5, PollWithin DEF ClusterAnswers
<1>6. CASE Select
  <2>1. CASE Finish
    BY <1>1, <1>6, <2>1, SpentWithin DEF Select, Finish, Idle, ManualMaySpend
  <2>2. CASE ~Finish
    <3>1. pc = "poll" /\ todo = {} /\ pc' = "summary" /\ UNCHANGED <<lastMonth, used, manual>>
      BY <1>6, <2>2 DEF Select
    <3>2. 2 * Cardinality(left') <= Summaries /\ Summaries \in Nat /\ Cardinality(left') \in Nat
      <4>1. left' \in SUBSET Episode
        BY DEF TypeOK
      <4> QED BY <4>1, EpisodesSize DEF Summaries
    <3>3. Cardinality(todo) * Light \in Nat
      BY Parts
    <3>4. CycleMaySpend' <= CycleMaySpend /\ CycleMaySpend' \in Nat
      BY <3>1, <3>2, <3>3 DEF CycleMaySpend
    <3>5. ManualMaySpend' = ManualMaySpend /\ used' = used
      BY <3>1 DEF ManualMaySpend
    <3>6. used' + CycleMaySpend' + ManualMaySpend' <= used + CycleMaySpend + ManualMaySpend
      <4> DEFINE c == CycleMaySpend'
      <4>1. c \in Nat /\ c <= CycleMaySpend
        BY <3>4
      <4>2. used + c + ManualMaySpend <= used + CycleMaySpend + ManualMaySpend
        <5> HIDE DEF c
        <5> QED BY <1>1, <4>1
      <4> QED BY <3>5, <4>2
    <3> QED BY <3>6, NoMore
  <2> QED BY <2>1, <2>2
<1>7. ASSUME NEW batch \in SUBSET left, SummaryFails(batch) PROVE Within'
  BY <1>7, SummaryWithin DEF SummaryFails
<1>8. ASSUME NEW batch \in SUBSET left, NEW returned \in SUBSET batch, SummaryAnswers(batch, returned)
      PROVE  Within'
  BY <1>8, SummaryWithin DEF SummaryAnswers
<1>9. ASSUME NEW e \in candidates, NEW flight \in Flight, Save(e, flight) PROVE Within'
  BY <1>1, <1>9, SpentWithin DEF Save, Finish, Idle, ManualMaySpend
<1>10. ASSUME NEW m, TestStarts(m) \/ TrackStarts(m) PROVE Within'
  BY <1>10, AdmitWithin DEF TestStarts, TestAllowed, TrackStarts, Admit
<1>11. ASSUME (\E m \in Tester, n \in 0..1 : TestEnds(m, n)) \/ (\E m \in Buyer, n \in 0..1 : TrackEnds(m, n))
       PROVE  Within'
  BY <1>11, AnswerWithin
<1>12. CASE Interval \/ UNCHANGED vars
  <2>1. CycleMaySpend' = CycleMaySpend /\ ManualMaySpend' = ManualMaySpend /\ used' = used
    BY <1>12 DEF Interval, vars, CycleMaySpend, ManualMaySpend
  <2> QED BY <1>1, <2>1, NoMore
<1>13. CASE NewMonth
  <2>1. CycleMaySpend' = 0 /\ used' = 0
    BY <1>13 DEF NewMonth, CycleMaySpend, TypeOK
  <2>2. ManualMaySpend' = 0
    BY <1>13, NoneMaySpend DEF NewMonth
  <2> QED BY <1>1, <2>1, <2>2, NoMore
<1>14. CASE Abort \/ Crash
  <2>1. pc' = "sleep" /\ used' = used /\ (manual' = manual \/ manual' = {})
    BY <1>14 DEF Abort, Crash, Idle
  <2>2. ManualMaySpend' <= ManualMaySpend
    <3>1. manual' = manual => ManualMaySpend' = ManualMaySpend
      BY DEF ManualMaySpend
    <3>2. manual' = {} => ManualMaySpend' = 0
      BY NoneMaySpend
    <3> QED BY <1>1, <2>1, <3>1, <3>2
  <2> QED BY <2>1, <2>2, SpentWithin
<1> QED BY <1>2, <1>3, <1>4, <1>5, <1>6, <1>7, <1>8, <1>9, <1>10, <1>11, <1>12, <1>13, <1>14
    DEF Next, Proceed, Poll, Summarise

\* pause_fr24 lets the credits pass the budget by no more than what one cycle and the
\* operator's requests under way together, however many, had been admitted to spend
\* (_run_fr24_cycle_locked, fr24_test, fr24_track_fetch).
THEOREM OvershootCorrect == Spec => []Overshoot
<1> DEFINE Inv == BudgetPolicy = "pause_fr24" => Within
<1>1. Init => Inv
  <2> SUFFICES ASSUME Init, TypeOK PROVE Within
    BY InitSound DEF IInv
  <2>1. CycleMaySpend = 0 /\ used = 0
    BY DEF Init, CreditsInit, CycleMaySpend
  <2> QED BY <2>1, Nonnegative, BudgetAssumption DEF Within, Parted, Ceiling
<1>2. TypeOK /\ Inv /\ [Next]_vars => Inv'
  BY NextType, StepWithin
<1>3. TypeOK /\ Inv => Overshoot
  <2> SUFFICES ASSUME TypeOK, Within
               PROVE  used <= OperatingBudget - 1
                              + (Cardinality(Cluster) * Light + SummaryCredits(Cardinality(Episode)))
                              + (Cardinality(Tester) * LightCredits(1) + Cardinality(Buyer) * TrackCredits(1))
    BY DEF Overshoot, Light
  <2>1. Cardinality(Tester) * LightCredits(1) + Cardinality(Buyer) * TrackCredits(1) = Manuals
    BY ManualParts DEF LightCredits, TrackCredits, Manuals
  <2>2. SummaryCredits(Cardinality(Episode)) = Summaries
    BY DEF SummaryCredits, Summaries
  <2> QED BY <2>1, <2>2, Nonnegative, BudgetAssumption DEF Within, Ceiling, Parted
<1> QED BY <1>1, <1>2, <1>3, CycleTypeCorrect, PTL DEF Spec
=============================================================================
