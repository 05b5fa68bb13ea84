---------------------------- MODULE FR24Credits ----------------------------
(***************************************************************************)
(* What the paid Flightradar24 calls share: the credits recorded in        *)
(* fr24_request_log for the current billing cycle (record_fr24_request,    *)
(* credits_used_this_cycle), the budget they are held against              *)
(* (fr24_credits.py) and the enrichment table with its bounded retries     *)
(* (save_fr24_enrichment, get_fr24_enrichment).  FR24Cycle and TrackFetch  *)
(* spend from it.                                                          *)
(*                                                                         *)
(* Time is counted in poll intervals: wait is what is left until           *)
(* next_retry_at, None when that column is NULL; it runs from the moment a *)
(* try is recorded, where the code counts from the selection just before.  *)
(***************************************************************************)
EXTENDS Integers

CONSTANTS
    Episode,         \* (aircraft_hex, episode_id)
    Flight,          \* fr24_id
    BudgetPolicy,    \* fr24_budget_policy
    OperatingBudget, \* fr24_monthly_operating_budget
    MaxAttempts,     \* max_attempts of _enrich_new_candidates (3)
    None

ASSUME PolicyAssumption ==
    BudgetPolicy \in {"pause_fr24", "warn_only", "continue_until_provider_rejects"}
ASSUME BudgetAssumption == OperatingBudget \in Nat \ {0}
ASSUME AttemptsAssumption == MaxAttempts \in Nat \ {0}
ASSUME NoneAssumption == None \notin Nat

VARIABLES
    used, \* credits recorded in this billing cycle
    row   \* row[e]: the enrichment row of episode e, or None

credits == <<used, row>>

(***************************************************************************)
(* Prices and budget                                                       *)
(***************************************************************************)

LightCredits(n) == IF n = 0 THEN 1 ELSE 6 * n
SummaryCredits(n) == 2 * n
TrackCredits(n) == 40 * n

AtLeast(percent) == 100 * used >= percent * OperatingBudget

BudgetState ==
    CASE AtLeast(100) -> "exhausted"
      [] AtLeast(95) /\ ~AtLeast(100) -> "hard_limit"
      [] AtLeast(85) /\ ~AtLeast(95) -> "critical"
      [] AtLeast(70) /\ ~AtLeast(85) -> "warning"
      [] OTHER -> "normal"

\* _pause_fr24_budget_block, and the same test in the cycle and the manual test.
Paused == BudgetPolicy = "pause_fr24" /\ BudgetState = "exhausted"

\* record_fr24_request under a billing cycle fixed before the call: a row of last
\* month no longer counts.
Charge(cost, lastMonth) == used' = IF lastMonth THEN used ELSE used + cost

(***************************************************************************)
(* Enrichment                                                              *)
(***************************************************************************)

Terminal == {"ok", "empty"}

Enrichment == [status : Terminal \cup {"failed"}, attempts : 1..MaxAttempts,
               wait : (1..MaxAttempts) \cup {0, None}, flight : Flight]

ASSUME NoneIsNoRow == None \notin Enrichment

CreditsTypeOK ==
    /\ used \in Nat
    /\ row \in [Episode -> Enrichment \cup {None}]

CreditsInit ==
    /\ used = 0
    /\ row = [e \in Episode |-> None]

\* Mutation: an empty summary is worth another try.
EligibleEmpty(e) ==
    row[e] # None =>
       /\ row[e].status # "ok"
       /\ row[e].attempts < MaxAttempts
       /\ row[e].wait \in {0, None}

\* Mutation: an exhausted row, whose schedule is NULL, counts as due.
EligibleAgain(e) ==
    row[e] # None =>
       /\ row[e].status = "failed"
       /\ row[e].wait \in {0, None}

\* Mutation: a retry time that has come is taken for one that has not.
EligibleNever(e) ==
    row[e] # None =>
       /\ row[e].status = "failed"
       /\ row[e].attempts < MaxAttempts
       /\ row[e].wait = None

\* The retry gate of _enrich_new_candidates, in SQL and again in Python.
Eligible(e) ==
    row[e] # None =>
       /\ row[e].status = "failed"
       /\ row[e].attempts < MaxAttempts
       /\ row[e].wait \in {0, None}

\* _schedule: one interval after the first failure, two after the second, no more
\* after the last.
Schedule(status, attempt) ==
    IF status \in Terminal \/ attempt >= MaxAttempts THEN None ELSE attempt

\* The UPSERT of save_fr24_enrichment: it counts on the stored row and refuses a
\* row whose tries are used up.
Saved(old, status, flight) ==
    IF old = None
    THEN [status |-> status, attempts |-> 1, wait |-> Schedule(status, 1), flight |-> flight]
    ELSE IF old.attempts >= MaxAttempts THEN old
    ELSE [status |-> status, attempts |-> old.attempts + 1,
          wait |-> Schedule(status, old.attempts + 1), flight |-> flight]

SaveEnrichment(e, status, flight) ==
    row' = [row EXCEPT ![e] = Saved(@, status, flight)]

Sooner(old) ==
    IF old = None \/ old.wait \in {0, None} THEN old ELSE [old EXCEPT !.wait = @ - 1]

\* One poll interval goes by.
IntervalPasses == row' = [e \in Episode |-> Sooner(row[e])]

=============================================================================
