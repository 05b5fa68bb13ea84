-------------------------- MODULE TrackFetchProofs --------------------------
(***************************************************************************)
(* A flight's track is not paid for twice while it is kept, and an         *)
(* exhausted budget stops the purchases, for any number of requests,       *)
(* events and flights.                                                     *)
(*                                                                         *)
(* What makes it true: two admitted requests never hold the same flight    *)
(* (the lock), a flight whose lock is held has no stored track (the second *)
(* look), and every flight paid for is wasted, stored, or waits to be      *)
(* stored by the one request that holds it.                                *)
(***************************************************************************)
EXTENDS TrackFetch, FiniteSetTheorems, TLAPS

(***************************************************************************)
(* What the operators of FR24Credits do to its two variables.              *)
(***************************************************************************)

\* What an enrichment try or the passing of time makes of a row is a row.
LEMMA EnrichmentType ==
    ASSUME row \in [Episode -> Enrichment \cup {None}]
    PROVE  /\ \A e \in Episode, s \in Terminal \cup {"failed"}, f \in Flight :
                  SaveEnrichment(e, s, f) => row' \in [Episode -> Enrichment \cup {None}]
           /\ IntervalPasses => row' \in [Episode -> Enrichment \cup {None}]
<1>1. ASSUME NEW e \in Episode, NEW s \in Terminal \cup {"failed"}, NEW f \in Flight,
             SaveEnrichment(e, s, f)
      PROVE  row' \in [Episode -> Enrichment \cup {None}]
  <2>1. \A n \in 1..MaxAttempts : Schedule(s, n) \in (1..MaxAttempts) \cup {0, None}
    BY AttemptsAssumption DEF Schedule
  <2>2. Saved(row[e], s, f) \in Enrichment \cup {None}
    <3>1. CASE row[e] = None
      BY <2>1, <3>1, AttemptsAssumption DEF Saved, Enrichment
    <3>2. CASE row[e] # None /\ row[e].attempts >= MaxAttempts
      BY <3>2 DEF Saved
    <3>3. CASE row[e] # None /\ ~(row[e].attempts >= MaxAttempts)
      <4>1. row[e] \in Enrichment
        BY <3>3
      <4>2. row[e].attempts + 1 \in 1..MaxAttempts
        BY <3>3, <4>1, AttemptsAssumption DEF Enrichment
      <4> QED BY <2>1, <3>3, <4>2 DEF Saved, Enrichment
    <3> QED BY <3>1, <3>2, <3>3
  <2> QED BY <1>1, <2>2 DEF SaveEnrichment
<1>2. ASSUME IntervalPasses
      PROVE  row' \in [Episode -> Enrichment \cup {None}]
  <2>1. ASSUME NEW e \in Episode
        PROVE  Sooner(row[e]) \in Enrichment \cup {None}
    <3>1. CASE row[e] = None \/ row[e].wait \in {0, None}
      BY <3>1 DEF Sooner
    <3>2. CASE ~(row[e] = None \/ row[e].wait \in {0, None})
      <4>1. row[e] \in Enrichment /\ row[e].wait \in 1..MaxAttempts
        BY <3>2 DEF Enrichment
      <4>2. row[e].wait - 1 \in (1..MaxAttempts) \cup {0, None}
        BY <4>1, AttemptsAssumption
      <4> QED BY <3>2, <4>1, <4>2 DEF Sooner, Enrichment
    <3> QED BY <3>1, <3>2
  <2> QED BY <1>2, <2>1 DEF IntervalPasses
<1> QED BY <1>1, <1>2

\* pause_fr24 stops at the budget and not before it.
LEMMA PausedAtBudget ==
    ASSUME used \in Nat, BudgetPolicy = "pause_fr24"
    PROVE  ~Paused => used <= OperatingBudget - 1
BY BudgetAssumption DEF Paused, BudgetState, AtLeast

(***************************************************************************)
(* The inductive invariant                                                 *)
(***************************************************************************)

Admitted(r) == pc[r] \in {"fetch", "save"}

\* A request past its first look knows its event and flight; only an answer has a bill.
Underway ==
    \A r \in Request :
        /\ pc[r] # "idle" => event[r] \in Event /\ flight[r] \in Flight
        /\ pc[r] # "save" => bill[r] = 0

Mutex ==
    \A r, s \in Request :
        Admitted(r) /\ Admitted(s) /\ flight[r] = flight[s] => r = s

NotStored == \A r \in Request : Admitted(r) => \A t \in tracks : t.flight # flight[r]

\* UNIQUE(fr24_id).
Unique == \A t, u \in tracks : t.flight = u.flight => t = u

Kept(f) == IF \E t \in tracks : t.flight = f /\ t.bill = 1 THEN 1 ELSE 0

Pending(f) == IF \E r \in Request : pc[r] = "save" /\ flight[r] = f /\ bill[r] = 1 THEN 1 ELSE 0

Accounted == \A f \in Flight : paid[f] = wasted[f] + Kept(f) + Pending(f)

IInv == TypeOK /\ Underway /\ Mutex /\ NotStored /\ Unique /\ Accounted

LEMMA InitSound == Init => IInv
<1> SUFFICES ASSUME Init PROVE IInv
  OBVIOUS
<1>1. TypeOK
  BY CrashAssumption DEF Init, CreditsInit, TypeOK, CreditsTypeOK
<1>2. Underway /\ Mutex /\ NotStored /\ Unique
  BY DEF Init, Underway, Mutex, NotStored, Unique, Admitted
<1>3. Accounted
  BY DEF Init, Accounted, Kept, Pending
<1> QED BY <1>1, <1>2, <1>3 DEF IInv

(***************************************************************************)
(* Every step keeps the types                                              *)
(***************************************************************************)

LEMMA ReturnType ==
    ASSUME TypeOK, NEW r \in Request, Return(r)
    PROVE  /\ pc' \in [Request -> {"idle", "found", "fetch", "save"}]
           /\ event' \in [Request -> Event \cup {None}]
           /\ flight' \in [Request -> Flight \cup {None}]
           /\ lastMonth' \in [Request -> BOOLEAN]
           /\ bill' \in [Request -> 0..1]
BY DEF TypeOK, Return, Goto

LEMMA NextType == TypeOK /\ Underway /\ [Next]_vars => TypeOK'
<1> SUFFICES ASSUME TypeOK, Underway, [Next]_vars PROVE TypeOK'
  OBVIOUS
<1> USE DEF TypeOK, CreditsTypeOK
<1>1. ASSUME NEW r \in Request, NEW v \in Event, Find(r, v) PROVE TypeOK'
  <2>1. row[EpisodeOf[v]] \in Enrichment
    BY <1>1, EventAssumption DEF Find
  <2> QED BY <1>1, <2>1 DEF Find, Goto, credits, Enrichment
<1>2. ASSUME NEW r \in Request, Admit(r) PROVE TypeOK'
  <2>1. CASE Return(r)
    BY <1>2, <2>1, ReturnType DEF Admit, credits
  <2>2. CASE Goto(r, "fetch") /\ UNCHANGED <<event, flight, lastMonth, bill>>
    BY <1>2, <2>2 DEF Admit, Goto, credits
  <2> QED BY <1>2, <2>1, <2>2 DEF Admit
<1>3. ASSUME NEW r \in Request, NEW n \in 0..1, Pay(r, n) PROVE TypeOK'
  <2>1. used' \in Nat
    BY <1>3 DEF Pay, Charge, TrackCredits
  <2>2. flight[r] \in Flight
    BY <1>3 DEF Pay, Underway
  <2>3. paid' \in [Flight -> Nat]
    BY <1>3, <2>2 DEF Pay
  <2> QED BY <1>3, <2>1, <2>3 DEF Pay, Goto
<1>4. ASSUME NEW r \in Request, Fail(r) PROVE TypeOK'
  BY <1>4, ReturnType DEF Fail, credits
<1>5. ASSUME NEW r \in Request, Store(r) PROVE TypeOK'
  <2>1. event[r] \in Event /\ flight[r] \in Flight /\ bill[r] \in 0..1
    BY <1>5 DEF Store, Underway
  <2>2. wasted' \in [Flight -> Nat]
    BY <1>5, <2>1 DEF Store, Waste
  <2>3. tracks' \subseteq Track /\ \A t \in tracks' : t.event \in events
    <3>1. [event |-> event[r], flight |-> flight[r], bill |-> bill[r]] \in Track
      BY <2>1 DEF Track
    <3> QED BY <1>5, <3>1 DEF Store
  <2> QED BY <1>5, <2>2, <2>3, ReturnType DEF Store, credits
<1>6. ASSUME NEW e \in Episode, NEW status \in Terminal \cup {"failed"}, NEW f \in Flight,
             Enrich(e, status, f)
      PROVE  TypeOK'
  <2>1. row' \in [Episode -> Enrichment \cup {None}]
    BY <1>6, EnrichmentType DEF Enrich
  <2> QED BY <1>6, <2>1 DEF Enrich, request
<1>7. CASE Interval
  <2>1. row' \in [Episode -> Enrichment \cup {None}]
    BY <1>7, EnrichmentType DEF Interval
  <2> QED BY <1>7, <2>1 DEF Interval, request
<1>8. ASSUME NEW v \in Event, Delete(v) PROVE TypeOK'
  BY <1>8 DEF Delete, credits, request
<1>9. CASE NewMonth
  BY <1>9 DEF NewMonth
<1>10. CASE Crash
  <2>1. \A f \in Flight : Billed(f) \in Nat
    <3> TAKE f \in Flight
    <3>1. {r \in Request : pc[r] = "save" /\ flight[r] = f /\ bill[r] = 1} \in SUBSET Request
      OBVIOUS
    <3> QED BY <3>1, RequestAssumption, FS_Subset, FS_CardinalityType DEF Billed
  <2>2. wasted' \in [Flight -> Nat]
    BY <1>10, <2>1 DEF Crash
  <2> QED BY <1>10, <2>2, CrashAssumption DEF Crash, credits
<1>11. CASE UNCHANGED vars
  BY <1>11 DEF vars, credits, request
<1> QED BY <1>1, <1>2, <1>3, <1>4, <1>5, <1>6, <1>7, <1>8, <1>9, <1>10, <1>11 DEF Next

(***************************************************************************)
(* Every step keeps the account                                            *)
(***************************************************************************)

\* A step that only lets requests go idle, or leaves them alone, and keeps the
\* tracks, keeps what relates requests and tracks.
LEMMA Quiet ==
    ASSUME IInv, tracks' \subseteq tracks,
           \A r \in Request :
              \/ pc'[r] \in {"idle", "found"} /\ bill'[r] = 0
                 /\ (pc'[r] = "found" => event'[r] \in Event /\ flight'[r] \in Flight)
              \/ /\ pc'[r] = pc[r] /\ event'[r] = event[r]
                 /\ flight'[r] = flight[r] /\ bill'[r] = bill[r]
    PROVE  Underway' /\ Mutex' /\ NotStored' /\ Unique'
<1>1. Underway'
  BY DEF IInv, Underway
<1>2. Mutex' /\ NotStored'
  BY DEF IInv, Mutex, NotStored, Admitted
<1>3. Unique'
  BY DEF IInv, Unique
<1> QED BY <1>1, <1>2, <1>3

\* ... and if no bill is dropped, the account.
LEMMA SameAccount ==
    ASSUME IInv, tracks' = tracks, paid' = paid, wasted' = wasted,
           \A r \in Request :
              \/ pc[r] # "save" /\ pc'[r] # "save"
              \/ pc'[r] = pc[r] /\ flight'[r] = flight[r] /\ bill'[r] = bill[r]
    PROVE  Accounted'
<1> SUFFICES ASSUME NEW f \in Flight
             PROVE  paid'[f] = wasted'[f] + Kept(f)' + Pending(f)'
  BY DEF Accounted
<1>1. Kept(f)' = Kept(f)
  BY DEF Kept
<1>2. Pending(f)' = Pending(f)
  BY DEF Pending
<1> QED BY <1>1, <1>2 DEF IInv, Accounted

LEMMA FindSound ==
    ASSUME IInv, NEW r \in Request, NEW v \in Event, Find(r, v)
    PROVE  Underway' /\ Mutex' /\ NotStored' /\ Unique' /\ Accounted'
<1>1. row[EpisodeOf[v]].flight \in Flight
  BY EventAssumption DEF IInv, TypeOK, CreditsTypeOK, Find, Enrichment
<1>2. /\ pc'[r] = "found" /\ event'[r] = v /\ flight'[r] \in Flight /\ bill'[r] = 0
      /\ \A s \in Request \ {r} : pc'[s] = pc[s] /\ event'[s] = event[s]
                                  /\ flight'[s] = flight[s] /\ bill'[s] = bill[s]
  BY <1>1 DEF Find, Goto, IInv, TypeOK, Underway
<1>3. tracks' = tracks /\ paid' = paid /\ wasted' = wasted /\ pc[r] = "idle"
  BY DEF Find
<1>4. Underway' /\ Mutex' /\ NotStored' /\ Unique'
  BY <1>2, <1>3, Quiet
<1>5. Accounted'
  BY <1>2, <1>3, SameAccount
<1> QED BY <1>4, <1>5

\* What Return leaves.
LEMMA Returned ==
    ASSUME TypeOK, NEW r \in Request, Return(r)
    PROVE  /\ pc'[r] = "idle" /\ bill'[r] = 0
           /\ \A s \in Request \ {r} : pc'[s] = pc[s] /\ event'[s] = event[s]
                                       /\ flight'[s] = flight[s] /\ bill'[s] = bill[s]
BY DEF Return, Goto, TypeOK

LEMMA AdmitSound ==
    ASSUME IInv, NEW r \in Request, Admit(r)
    PROVE  Underway' /\ Mutex' /\ NotStored' /\ Unique' /\ Accounted'
<1>1. tracks' = tracks /\ paid' = paid /\ wasted' = wasted /\ pc[r] = "found"
  BY DEF Admit
<1>2. CASE Return(r)
  <2>1. /\ pc'[r] = "idle" /\ bill'[r] = 0
        /\ \A s \in Request \ {r} : pc'[s] = pc[s] /\ event'[s] = event[s]
                                    /\ flight'[s] = flight[s] /\ bill'[s] = bill[s]
    BY <1>2, Returned DEF IInv
  <2>2. Underway' /\ Mutex' /\ NotStored' /\ Unique'
    BY <1>1, <2>1, Quiet
  <2>3. Accounted'
    BY <1>1, <2>1, SameAccount
  <2> QED BY <2>2, <2>3
<1>3. CASE ~Return(r)
  <2>1. /\ ~Locked(r) /\ ~Fetched(event[r], flight[r])
        /\ Goto(r, "fetch") /\ UNCHANGED <<event, flight, bill>>
    BY <1>3 DEF Admit
  <2>2. /\ pc'[r] = "fetch"
        /\ \A s \in Request \ {r} : pc'[s] = pc[s]
    BY <2>1 DEF Goto, IInv, TypeOK
  <2>3. Accounted'
    BY <1>1, <2>1, <2>2, SameAccount
  <2>4. Underway'
    BY <1>1, <2>1, <2>2 DEF IInv, Underway
  <2>5. \A s \in Request \ {r} : Admitted(s) => flight[s] # flight[r]
    BY <2>1 DEF Locked, Admitted
  <2>6. Mutex'
    BY <2>1, <2>2, <2>5 DEF IInv, Mutex, Admitted
  <2>7. NotStored'
    BY <1>1, <2>1, <2>2 DEF IInv, NotStored, Admitted, Fetched
  <2> QED BY <1>1, <2>3, <2>4, <2>6, <2>7 DEF IInv, Unique
<1> QED BY <1>2, <1>3

LEMMA PaySound ==
    ASSUME IInv, NEW r \in Request, NEW n \in 0..1, Pay(r, n)
    PROVE  Underway' /\ Mutex' /\ NotStored' /\ Unique' /\ Accounted'
<1>1. /\ tracks' = tracks /\ wasted' = wasted /\ pc[r] = "fetch" /\ pc'[r] = "save"
      /\ event' = event /\ flight' = flight /\ bill'[r] = n
      /\ \A s \in Request \ {r} : pc'[s] = pc[s] /\ bill'[s] = bill[s]
  BY DEF Pay, Goto, IInv, TypeOK
<1>2. flight[r] \in Flight /\ bill[r] = 0
  BY <1>1 DEF IInv, Underway
<1>3. paid' = [paid EXCEPT ![flight[r]] = @ + n] /\ paid \in [Flight -> Nat]
  BY DEF Pay, IInv, TypeOK
<1>4. Underway' /\ Mutex' /\ NotStored' /\ Unique'
  <2>1. Underway'
    BY <1>1 DEF IInv, Underway
  <2>2. Mutex' /\ NotStored'
    BY <1>1 DEF IInv, Mutex, NotStored, Admitted
  <2> QED BY <1>1, <2>1, <2>2 DEF IInv, Unique
<1>5. Accounted'
  <2> SUFFICES ASSUME NEW f \in Flight
               PROVE  paid'[f] = wasted'[f] + Kept(f)' + Pending(f)'
    BY DEF Accounted
  <2>1. Kept(f)' = Kept(f)
    BY <1>1 DEF Kept
  <2>2. CASE f # flight[r]
    <3>1. Pending(f)' = Pending(f)
      BY <1>1, <2>2 DEF Pending
    <3> QED BY <1>1, <1>2, <1>3, <2>1, <2>2, <3>1 DEF IInv, Accounted
  <2>3. CASE f = flight[r]
    <3>1. \A s \in Request \ {r} : pc[s] = "save" => flight[s] # f
      BY <1>1, <2>3 DEF IInv, Mutex, Admitted
    <3>2. Pending(f) = 0
      BY <1>1, <3>1 DEF Pending
    <3>3. Pending(f)' = n
      BY <1>1, <2>3, <3>1 DEF Pending
    <3>4. paid'[f] = paid[f] + n
      BY <1>3, <2>3
    <3> QED BY <1>1, <2>1, <3>2, <3>3, <3>4 DEF IInv, Accounted, TypeOK, Kept
  <2> QED BY <2>2, <2>3
<1> QED BY <1>4, <1>5

LEMMA FailSound ==
    ASSUME IInv, NEW r \in Request, Fail(r)
    PROVE  Underway' /\ Mutex' /\ NotStored' /\ Unique' /\ Accounted'
<1>1. tracks' = tracks /\ paid' = paid /\ wasted' = wasted /\ pc[r] = "fetch" /\ Return(r)
  BY DEF Fail
<1>2. /\ pc'[r] = "idle" /\ bill'[r] = 0
      /\ \A s \in Request \ {r} : pc'[s] = pc[s] /\ event'[s] = event[s]
                                  /\ flight'[s] = flight[s] /\ bill'[s] = bill[s]
  BY <1>1, Returned DEF IInv
<1>3. Underway' /\ Mutex' /\ NotStored' /\ Unique'
  BY <1>1, <1>2, Quiet
<1>4. Accounted'
  BY <1>1, <1>2, SameAccount
<1> QED BY <1>3, <1>4

\* The answer of an admitted request is stored, or wasted: the lock it holds rules out
\* that its flight is stored already.
LEMMA StoreSound ==
    ASSUME IInv, NEW r \in Request, Store(r)
    PROVE  Underway' /\ Mutex' /\ NotStored' /\ Unique' /\ Accounted'
<1> DEFINE track == [event |-> event[r], flight |-> flight[r], bill |-> bill[r]]
<1>1. /\ paid' = paid /\ pc[r] = "save" /\ Return(r)
      /\ flight[r] \in Flight /\ bill[r] \in 0..1
      /\ \A t \in tracks : t.flight # flight[r]
  BY DEF Store, IInv, TypeOK, Underway, NotStored, Admitted
<1>2. /\ pc'[r] = "idle" /\ bill'[r] = 0
      /\ \A s \in Request \ {r} : pc'[s] = pc[s] /\ event'[s] = event[s]
                                  /\ flight'[s] = flight[s] /\ bill'[s] = bill[s]
  BY <1>1, Returned DEF IInv
<1>3. \A s \in Request \ {r} : Admitted(s) => flight[s] # flight[r]
  BY <1>1 DEF IInv, Mutex, Admitted
<1>4. \/ tracks' = tracks \cup {track} /\ wasted' = wasted
      \/ tracks' = tracks /\ Waste(r)
  BY <1>1 DEF Store, Fetched
<1>5. Underway' /\ Mutex'
  BY <1>2 DEF IInv, Underway, Mutex, Admitted
<1>6. NotStored' /\ Unique'
  BY <1>1, <1>2, <1>3, <1>4 DEF IInv, NotStored, Unique, Admitted, Waste
<1>7. Accounted'
  <2> SUFFICES ASSUME NEW f \in Flight
               PROVE  paid'[f] = wasted'[f] + Kept(f)' + Pending(f)'
    BY DEF Accounted
  <2>1. paid[f] = wasted[f] + Kept(f) + Pending(f) /\ wasted[f] \in Nat
    BY DEF IInv, Accounted, TypeOK
  <2>2. CASE f # flight[r]
    <3>1. Pending(f)' = Pending(f)
      BY <1>1, <1>2, <2>2 DEF Pending
    <3>2. wasted'[f] = wasted[f]
      BY <1>4, <2>2 DEF Waste, IInv, TypeOK
    <3>3. Kept(f)' = Kept(f)
      BY <1>4, <2>2 DEF Kept, Waste
    <3> QED BY <1>1, <2>1, <3>1, <3>2, <3>3
  <2>3. CASE f = flight[r]
    <3>1. Pending(f) = bill[r]
      BY <1>1, <1>3, <2>3 DEF Pending, Admitted
    <3>2. Pending(f)' = 0
      BY <1>2, <1>3, <2>3 DEF Pending, Admitted
    <3>3. Kept(f) = 0
      BY <1>1, <2>3 DEF Kept
    <3>4. CASE tracks' = tracks \cup {track} /\ wasted' = wasted
      <4>1. track.flight = f /\ track.bill = bill[r] /\ track \in tracks'
        BY <2>3, <3>4
      <4>2. \A t \in tracks' : t.flight = f => t = track
        BY <1>1, <2>3, <3>4
      <4>3. Kept(f)' = bill[r]
        <5> HIDE DEF track
        <5>1. CASE bill[r] = 1
          BY <4>1, <5>1 DEF Kept
        <5>2. CASE bill[r] = 0
          BY <4>1, <4>2, <5>2 DEF Kept
        <5> QED BY <1>1, <5>1, <5>2
      <4> QED BY <1>1, <2>1, <3>1, <3>2, <3>3, <3>4, <4>3
    <3>5. CASE tracks' = tracks /\ Waste(r)
      <4>1. Kept(f)' = 0
        BY <3>3, <3>5 DEF Kept
      <4>2. wasted'[f] = wasted[f] + bill[r]
        BY <2>3, <3>5 DEF Waste, IInv, TypeOK
      <4> QED BY <1>1, <2>1, <3>1, <3>2, <3>3, <4>1, <4>2
    <3> QED BY <1>4, <3>4, <3>5
  <2> QED BY <2>2, <2>3
<1> QED BY <1>5, <1>6, <1>7

\* Deleting an event wastes the track stored for it.
LEMMA DeleteSound ==
    ASSUME IInv, NEW v \in Event, Delete(v)
    PROVE  Underway' /\ Mutex' /\ NotStored' /\ Unique' /\ Accounted'
<1>1. /\ tracks' = {t \in tracks : t.event # v} /\ paid' = paid
      /\ pc' = pc /\ event' = event /\ flight' = flight /\ bill' = bill
      /\ wasted' = [f \in Flight |-> IF [event |-> v, flight |-> f, bill |-> 1] \in tracks
                                     THEN wasted[f] + 1 ELSE wasted[f]]
  BY DEF Delete, request
<1>2. Underway'
  BY <1>1 DEF IInv, Underway
<1>3. Mutex' /\ NotStored' /\ Unique'
  BY <1>1 DEF IInv, Mutex, NotStored, Unique, Admitted
<1>4. Accounted'
  <2> SUFFICES ASSUME NEW f \in Flight
               PROVE  paid'[f] = wasted'[f] + Kept(f)' + Pending(f)'
    BY DEF Accounted
  <2> DEFINE track == [event |-> v, flight |-> f, bill |-> 1]
  <2>1. paid[f] = wasted[f] + Kept(f) + Pending(f) /\ wasted[f] \in Nat
    BY DEF IInv, Accounted, TypeOK
  <2>2. Pending(f)' = Pending(f)
    BY <1>1 DEF Pending
  <2>3. CASE track \in tracks
    <3>1. \A t \in tracks : t.flight = f => t = track
      BY <2>3 DEF IInv, Unique
    <3>2. Kept(f) = 1 /\ Kept(f)' = 0
      BY <1>1, <2>3, <3>1 DEF Kept
    <3>3. wasted'[f] = wasted[f] + 1
      BY <1>1, <2>3
    <3> QED BY <1>1, <2>1, <2>2, <3>2, <3>3 DEF Pending
  <2>4. CASE track \notin tracks
    <3>1. \A t \in tracks : t.flight = f /\ t.bill = 1 => t.event # v
      BY <2>4 DEF IInv, TypeOK, Track
    <3>2. Kept(f)' = Kept(f)
      BY <1>1, <3>1 DEF Kept
    <3> QED BY <1>1, <2>1, <2>2, <2>4, <3>2
  <2> QED BY <2>3, <2>4
<1> QED BY <1>2, <1>3, <1>4

\* A crash wastes what waits to be stored: by Mutex one request at most per flight.
LEMMA CrashSound ==
    ASSUME IInv, Crash
    PROVE  Underway' /\ Mutex' /\ NotStored' /\ Unique' /\ Accounted'
<1>1. /\ tracks' = tracks /\ paid' = paid
      /\ \A r \in Request : pc'[r] = "idle" /\ bill'[r] = 0
      /\ wasted' = [f \in Flight |-> wasted[f] + Billed(f)]
  BY DEF Crash
<1>2. Underway' /\ Mutex' /\ NotStored' /\ Unique'
  BY <1>1, Quiet
<1>3. Accounted'
  <2> SUFFICES ASSUME NEW f \in Flight
               PROVE  paid'[f] = wasted'[f] + Kept(f)' + Pending(f)'
    BY DEF Accounted
  <2> DEFINE waiting == {r \in Request : pc[r] = "save" /\ flight[r] = f /\ bill[r] = 1}
  <2>1. paid[f] = wasted[f] + Kept(f) + Pending(f) /\ wasted[f] \in Nat
    BY DEF IInv, Accounted, TypeOK
  <2>2. Kept(f)' = Kept(f) /\ Pending(f)' = 0
    BY <1>1 DEF Kept, Pending
  <2>3. Cardinality(waiting) = Pending(f)
    <3>1. CASE waiting = {}
      BY <3>1, FS_EmptySet DEF Pending
    <3>2. CASE waiting # {}
      <4>1. PICK r \in Request : r \in waiting
        BY <3>2
      <4>2. waiting = {r}
        BY <4>1 DEF IInv, Mutex, Admitted
      <4>3. Pending(f) = 1
        BY <4>1 DEF Pending
      <4> QED BY <4>2, <4>3, FS_Singleton
    <3> QED BY <3>1, <3>2
  <2>4. wasted'[f] = wasted[f] + Pending(f)
    BY <1>1, <2>3 DEF Billed
  <2> QED BY <1>1, <2>1, <2>2, <2>4 DEF Kept, Pending
<1> QED BY <1>2, <1>3

LEMMA NextSound == IInv /\ [Next]_vars => IInv'
<1> SUFFICES ASSUME IInv, [Next]_vars PROVE IInv'
  OBVIOUS
<1>1. TypeOK'
  BY NextType DEF IInv
<1>2. ASSUME NEW r \in Request, NEW v \in Event, Find(r, v) PROVE IInv'
  BY <1>1, <1>2, FindSound DEF IInv
<1>3. ASSUME NEW r \in Request, Admit(r) PROVE IInv'
  BY <1>1, <1>3, AdmitSound DEF IInv
<1>4. ASSUME NEW r \in Request, NEW n \in 0..1, Pay(r, n) PROVE IInv'
  BY <1>1, <1>4, PaySound DEF IInv
<1>5. ASSUME NEW r \in Request, Fail(r) PROVE IInv'
  BY <1>1, <1>5, FailSound DEF IInv
<1>6. ASSUME NEW r \in Request, Store(r) PROVE IInv'
  BY <1>1, <1>6, StoreSound DEF IInv
<1>7. ASSUME NEW v \in Event, Delete(v) PROVE IInv'
  BY <1>1, <1>7, DeleteSound DEF IInv
<1>8. CASE Crash
  BY <1>1, <1>8, CrashSound DEF IInv
<1>9. ASSUME UNCHANGED <<events, tracks, pc, event, flight, bill, paid, wasted>> PROVE IInv'
  <2>1. Underway' /\ Mutex' /\ NotStored' /\ Unique'
    BY <1>9, Quiet
  <2>2. Accounted'
    BY <1>9, SameAccount
  <2> QED BY <1>1, <2>1, <2>2 DEF IInv
<1>10. ASSUME NEW e \in Episode, NEW status \in Terminal \cup {"failed"}, NEW f \in Flight,
              Enrich(e, status, f)
       PROVE  IInv'
  BY <1>9, <1>10 DEF Enrich, request
<1>11. CASE Interval \/ NewMonth \/ UNCHANGED vars
  BY <1>9, <1>11 DEF Interval, NewMonth, request, vars
<1> QED BY <1>2, <1>3, <1>4, <1>5, <1>6, <1>7, <1>8, <1>10, <1>11 DEF Next

THEOREM Invariance == Spec => []IInv
BY InitSound, NextSound, PTL DEF Spec

\* The tables and the requests keep their types (fr24_track_fetch, save_fr24_track).
THEOREM TrackTypeCorrect == Spec => []TypeOK
<1>1. IInv => TypeOK
  BY DEF IInv
<1> QED BY <1>1, Invariance, PTL

\* A flight is paid for a second time only when what was bought is not kept: the lock
\* and the second look of fr24_track_fetch close the window between look-up and INSERT.
THEOREM PaidOnceCorrect == Spec => []PaidOnce
<1>1. IInv => PaidOnce
  <2> SUFFICES ASSUME IInv, NEW f \in Flight PROVE paid[f] <= 1 + wasted[f]
    BY DEF PaidOnce
  <2>1. paid[f] = wasted[f] + Kept(f) + Pending(f) /\ wasted[f] \in Nat
    BY DEF IInv, Accounted, TypeOK
  <2>2. ~(Kept(f) = 1 /\ Pending(f) = 1)
    BY DEF IInv, NotStored, Kept, Pending, Admitted
  <2> QED BY <2>1, <2>2 DEF Kept, Pending
<1> QED BY <1>1, Invariance, PTL

(***************************************************************************)
(* The budget: what is spent and what the admitted requests of this month  *)
(* may still spend stay under the ceiling together.                        *)
(***************************************************************************)

\* Requests whose answer will be charged to this month.
Paying == {r \in Request : pc[r] = "fetch" /\ ~lastMonth[r]}

Ceiling == OperatingBudget - 1 + 40 * Cardinality(Request)

Within == used + 40 * Cardinality(Paying) <= Ceiling

\* Sets of requests have a size, and a smaller set a smaller one.
LEMMA Size ==
    ASSUME NEW S \in SUBSET Request, NEW T \in SUBSET S
    PROVE  /\ IsFiniteSet(S) /\ Cardinality(S) \in Nat
           /\ Cardinality(T) \in Nat /\ Cardinality(T) <= Cardinality(S)
<1>1. IsFiniteSet(S)
  BY RequestAssumption, FS_Subset
<1>2. IsFiniteSet(T) /\ Cardinality(T) <= Cardinality(S)
  BY <1>1, FS_Subset
<1> QED BY <1>1, <1>2, FS_CardinalityType

\* A step that charges nothing and admits nobody.
LEMMA NobodyAdmitted ==
    ASSUME TypeOK, Within, Paying' \subseteq Paying, used' = used
    PROVE  Within'
<1>1. Paying \subseteq Request
  BY DEF Paying
<1>2. Cardinality(Paying') <= Cardinality(Paying) /\ Cardinality(Paying') \in Nat
      /\ Cardinality(Paying) \in Nat /\ Cardinality(Request) \in Nat
  BY <1>1, Size
<1> QED BY <1>2, BudgetAssumption DEF Within, Ceiling, TypeOK, CreditsTypeOK

\* Paying takes a request out of those that may still spend.
LEMMA PayWithin ==
    ASSUME TypeOK, Within, NEW r \in Request, NEW n \in 0..1, Pay(r, n)
    PROVE  Within'
<1>1. Paying \subseteq Request /\ Paying' = Paying \ {r}
  BY DEF Paying, Pay, Goto, TypeOK
<1>2. IsFiniteSet(Paying) /\ Cardinality(Paying) \in Nat /\ Cardinality(Request) \in Nat
  BY <1>1, Size
<1>3. /\ Cardinality(Paying') = IF r \in Paying THEN Cardinality(Paying) - 1 ELSE Cardinality(Paying)
  BY <1>1, <1>2, FS_RemoveElement
<1>4. r \in Paying <=> ~lastMonth[r]
  BY DEF Paying, Pay
<1>5. used' = IF lastMonth[r] THEN used ELSE used + 40 * n
  BY DEF Pay, Charge, TrackCredits
<1> QED BY <1>2, <1>3, <1>4, <1>5, BudgetAssumption DEF Within, Ceiling, TypeOK, CreditsTypeOK

\* A request is admitted only below the budget, whatever the others may still spend.
LEMMA AdmitWithin ==
    ASSUME TypeOK, BudgetPolicy = "pause_fr24", Within, NEW r \in Request, Admit(r)
    PROVE  Within'
<1>1. CASE Return(r)
  <2>1. Paying' \subseteq Paying /\ used' = used
    BY <1>1 DEF Return, Goto, Admit, Paying, TypeOK, credits
  <2> QED BY <2>1, NobodyAdmitted
<1>2. CASE ~Return(r)
  <2>1. ~Paused /\ used' = used
    BY <1>2 DEF Admit, Refused, credits
  <2>2. used <= OperatingBudget - 1
    BY <2>1, PausedAtBudget DEF TypeOK, CreditsTypeOK
  <2>3. Paying' \subseteq Request
    BY DEF Paying
  <2>4. Cardinality(Paying') <= Cardinality(Request) /\ Cardinality(Paying') \in Nat
        /\ Cardinality(Request) \in Nat
    BY <2>3, Size
  <2> QED BY <2>1, <2>2, <2>4, BudgetAssumption DEF Within, Ceiling, TypeOK, CreditsTypeOK
<1> QED BY <1>1, <1>2

\* The new month begins with nothing spent and nobody spending.
LEMMA NewMonthWithin ==
    ASSUME TypeOK, NewMonth
    PROVE  Within'
<1>1. Paying' = {} /\ used' = 0
  BY DEF Paying, NewMonth, TypeOK
<1>2. Cardinality(Request) \in Nat
  BY Size
<1> QED BY <1>1, <1>2, FS_EmptySet, BudgetAssumption DEF Within, Ceiling

LEMMA StepWithin ==
    ASSUME TypeOK, BudgetPolicy = "pause_fr24", Within, [Next]_vars
    PROVE  Within'
<1>1. ASSUME NEW r \in Request, NEW v \in Event, Find(r, v) PROVE Within'
  <2>1. Paying' \subseteq Paying /\ used' = used
    BY <1>1 DEF Find, Goto, Paying, TypeOK, credits
  <2> QED BY <2>1, NobodyAdmitted
<1>2. ASSUME NEW r \in Request, Admit(r) PROVE Within'
  BY <1>2, AdmitWithin
<1>3. ASSUME NEW r \in Request, NEW n \in 0..1, Pay(r, n) PROVE Within'
  BY <1>3, PayWithin
<1>4. ASSUME NEW r \in Request, Fail(r) \/ Store(r) PROVE Within'
  <2>1. Paying' \subseteq Paying /\ used' = used
    BY <1>4 DEF Fail, Store, Return, Goto, Paying, TypeOK, credits
  <2> QED BY <2>1, NobodyAdmitted
<1>5. ASSUME NEW e \in Episode, NEW status \in Terminal \cup {"failed"}, NEW f \in Flight,
             Enrich(e, status, f)
      PROVE  Within'
  <2>1. Paying' \subseteq Paying /\ used' = used
    BY <1>5 DEF Enrich, request, Paying
  <2> QED BY <2>1, NobodyAdmitted
<1>6. ASSUME NEW v \in Event, Delete(v) PROVE Within'
  <2>1. Paying' \subseteq Paying /\ used' = used
    BY <1>6 DEF Delete, request, Paying, credits
  <2> QED BY <2>1, NobodyAdmitted
<1>7. CASE Interval \/ UNCHANGED vars
  <2>1. Paying' \subseteq Paying /\ used' = used
    BY <1>7 DEF Interval, vars, request, Paying, credits
  <2> QED BY <2>1, NobodyAdmitted
<1>8. CASE NewMonth
  BY <1>8, NewMonthWithin
<1>9. CASE Crash
  <2>1. Paying' \subseteq Paying /\ used' = used
    BY <1>9 DEF Crash, Paying, credits
  <2> QED BY <2>1, NobodyAdmitted
<1> QED BY <1>1, <1>2, <1>3, <1>4, <1>5, <1>6, <1>7, <1>8, <1>9 DEF Next

\* The purchases pass an exhausted budget by no more than one track per request that
\* was admitted before it was exhausted (_pause_fr24_budget_block).
THEOREM OvershootCorrect == Spec => []Overshoot
<1> DEFINE Inv == BudgetPolicy = "pause_fr24" => Within
<1>1. Init => Inv
  <2> SUFFICES ASSUME Init PROVE Within
    OBVIOUS
  <2>1. Paying = {} /\ used = 0
    BY DEF Init, CreditsInit, Paying
  <2>2. Cardinality(Request) \in Nat
    BY Size
  <2> QED BY <2>1, <2>2, FS_EmptySet, BudgetAssumption DEF Within, Ceiling
<1>2. TypeOK /\ Inv /\ [Next]_vars => Inv'
  BY StepWithin
<1>3. TypeOK /\ Inv => Overshoot
  <2> SUFFICES ASSUME TypeOK, Within PROVE used <= OperatingBudget - 1 + TrackCredits(1) * Cardinality(Request)
    BY DEF Overshoot
  <2>1. Paying \subseteq Request
    BY DEF Paying
  <2>2. Cardinality(Paying) \in Nat /\ Cardinality(Request) \in Nat
    BY <2>1, Size
  <2> QED BY <2>2, BudgetAssumption DEF Within, Ceiling, TypeOK, CreditsTypeOK, TrackCredits
<1> QED BY <1>1, <1>2, <1>3, TrackTypeCorrect, PTL DEF Spec
=============================================================================
