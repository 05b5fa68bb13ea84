--------------------------- MODULE EmailDelivery ---------------------------
(***************************************************************************)
(* From a recorded event to the operator's mailbox: _persist               *)
(* (app/detection.py) delivers a Live event on the spot, retry_email_queue *)
(* (app/main.py) delivers what is still owed at the start of a coverage    *)
(* cycle, both through send_event_email (app/emailer.py) and               *)
(* update_event_email (app/database.py); the operator changes the phase    *)
(* and the e-mail settings meanwhile (settings_update, app/main.py).       *)
(*                                                                         *)
(* Both detection loops deliver.  The provider's answer is awaited, so the *)
(* other loop and the operator run between the daily-cap check, the call   *)
(* and the record of its outcome; a coverage cycle of the command line is  *)
(* another process, which may also run between the SELECT and the UPDATE   *)
(* of update_event_email.                                                  *)
(*                                                                         *)
(* Events are numbered in the order of occurred_at.  Delays are reduced to *)
(* "due", the calendar day of emailed_at to "today".                       *)
(***************************************************************************)
EXTENDS Integers, Sequences, FiniteSets

CONSTANTS
    Grid, FR24,     \* the two loops
    OperatingPhase, \* the phases the operator uses
    MaxEvents,      \* bound: events recorded
    MaxAttempts,    \* attempts before a failed message is given up (4)
    Batch,          \* LIMIT of retryable_email_events (20)
    DailyCap,       \* max_emails_per_day
    MaxCrashes,     \* bound: cycles cut short
    None

Loop == {Grid, FR24}
Event == 1..MaxEvents
\* What send_event_email finds configured: a preview on the console; a recipient,
\* credential or valid sender missing; a working channel.
Channel == {"console", "broken", "working"}

Status == {"shadow", "review_only", "pending", "failed", "sent", "suppressed",
           "previewed"}

ASSUME LoopAssumption == Grid # FR24
ASSUME PhaseAssumption == OperatingPhase \subseteq {"shadow", "review", "live"}
ASSUME BoundsAssumption ==
    /\ {MaxEvents, MaxAttempts, Batch, DailyCap} \subseteq Nat \ {0}
    /\ MaxCrashes \in Nat
ASSUME NoneAssumption ==
    None \notin Nat /\ None \notin Loop /\ None \notin Status \cup OperatingPhase

VARIABLES
    phase,      \* operating_phase
    events,     \* the events table, in order
    handed,     \* history: handed[e]: how often the provider accepted event e's
                \* message, up to the first delivery in doubt
    doubt,      \* history: events with a delivery that nobody could know of: a timeout
                \* or a crash hid it
    overlap,    \* history: events the retry listed while the other loop, which had
                \* recorded them, was delivering them
    pc,         \* pc[l]: where loop l stands
    began,      \* began[l]: the phase read when the cycle began
    queue,      \* queue[l]: events retry_email_queue still has to deliver
    cur,        \* cur[l]: the event in delivery, or None
    outcome,    \* outcome[l]: the status to record for it, or None
    tries,      \* tries[l]: email_attempts read by update_event_email, or None
    crashes

cycle == <<began, queue>>
delivery == <<cur, outcome, tries>>
vars == <<phase, events, handed, doubt, overlap, pc, cycle, delivery, crashes>>

Label == {"idle", "retry", "detect", "check", "post", "record"}

Message == [phase : OperatingPhase, status : Status, attempts : Nat,
            due : BOOLEAN, today : BOOLEAN]

TypeOK ==
    /\ phase \in OperatingPhase
    /\ events \in Seq(Message) /\ Len(events) <= MaxEvents
    /\ handed \in [Event -> Nat]
    /\ doubt \subseteq Event /\ overlap \subseteq Event
    /\ pc \in [Loop -> Label]
    /\ began \in [Loop -> OperatingPhase \cup {None}]
    /\ queue \in [Loop -> SUBSET DOMAIN events]
    /\ cur \in [Loop -> DOMAIN events \cup {None}]
    /\ outcome \in [Loop -> Status \cup {None}]
    /\ tries \in [Loop -> Nat \cup {None}]
    /\ crashes \in 0..MaxCrashes

Init ==
    /\ phase \in OperatingPhase
    /\ events = << >>
    /\ handed = [e \in Event |-> 0] /\ doubt = {} /\ overlap = {}
    /\ pc = [l \in Loop |-> "idle"]
    /\ began = [l \in Loop |-> None]
    /\ queue = [l \in Loop |-> {}]
    /\ cur = [l \in Loop |-> None]
    /\ outcome = [l \in Loop |-> None]
    /\ tries = [l \in Loop |-> None]
    /\ crashes = 0

Goto(l, label) == pc' = [pc EXCEPT ![l] = label]

(***************************************************************************)
(* The cycle                                                               *)
(***************************************************************************)

\* Mutation: an event whose message went out is picked up again.
RetryableSent(e) ==
    /\ events[e].phase = "live"
    /\ events[e].status \in {"pending", "failed", "sent"}
    /\ events[e].attempts < MaxAttempts
    /\ events[e].due

\* Mutation: only failed messages are owed.
RetryableFailed(e) ==
    /\ events[e].phase = "live"
    /\ events[e].status = "failed"
    /\ events[e].attempts < MaxAttempts
    /\ events[e].due

Retryable(e) ==
    /\ events[e].phase = "live"
    /\ events[e].status \in {"pending", "failed"}
    /\ events[e].attempts < MaxAttempts
    /\ events[e].due

\* retryable_email_events: the oldest Batch of them.
Owed ==
    {e \in DOMAIN events :
        /\ Retryable(e)
        /\ Cardinality({f \in DOMAIN events : f < e /\ Retryable(f)}) < Batch}

\* A cycle reads the operating phase once.  The coverage cycle starts with the
\* messages owed, if it finds itself in Live.
Begin(l) ==
    /\ pc[l] = "idle"
    /\ began' = [began EXCEPT ![l] = phase]
    /\ IF l = Grid /\ phase = "live" /\ Owed # {}
       THEN queue' = [queue EXCEPT ![l] = Owed] /\ Goto(l, "retry")
       ELSE Goto(l, "detect") /\ UNCHANGED queue
    /\ overlap' = overlap \cup {e \in queue'[l] : \E m \in Loop : cur[m] = e}
    /\ UNCHANGED <<phase, events, handed, doubt, delivery, crashes>>

\* retry_email_queue takes the oldest event of its list, as it was when listed.
NextOwed(l) ==
    /\ pc[l] = "retry"
    /\ \E e \in queue[l] :
          /\ \A f \in queue[l] : e <= f
          /\ cur' = [cur EXCEPT ![l] = e]
          /\ queue' = [queue EXCEPT ![l] = @ \ {e}]
    /\ Goto(l, "check")
    /\ UNCHANGED <<phase, events, handed, doubt, overlap, began, outcome, tries, crashes>>

\* Mutation: outside Live the column keeps the default of the schema.
MailStatusDefault(p) == IF p = "live" THEN "pending" ELSE "not_applicable"

MailStatus(p) ==
    CASE p = "live" -> "pending"
      [] p = "shadow" -> "shadow"
      [] p = "review" -> "review_only"

\* Mutation: every new event is delivered.
DeliversAll(p) == TRUE

Delivers(p) == p = "live"

\* Detection records an event, under the phase the cycle began in.
Persist(l) ==
    /\ pc[l] = "detect"
    /\ Len(events) < MaxEvents
    /\ events' = Append(events, [phase |-> began[l], status |-> MailStatus(began[l]),
                                 attempts |-> 0, due |-> TRUE, today |-> FALSE])
    /\ IF Delivers(began[l])
       THEN cur' = [cur EXCEPT ![l] = Len(events')] /\ Goto(l, "check")
       ELSE UNCHANGED <<cur, pc>>
    /\ UNCHANGED <<phase, handed, doubt, overlap, cycle, outcome, tries, crashes>>

Forget(l) ==
    /\ Goto(l, "idle")
    /\ began' = [began EXCEPT ![l] = None]
    /\ queue' = [queue EXCEPT ![l] = {}]
    /\ cur' = [cur EXCEPT ![l] = None]
    /\ outcome' = [outcome EXCEPT ![l] = None]
    /\ tries' = [tries EXCEPT ![l] = None]

End(l) ==
    /\ pc[l] = "detect"
    /\ Forget(l)
    /\ UNCHANGED <<phase, events, handed, doubt, overlap, crashes>>

(***************************************************************************)
(* One delivery                                                            *)
(***************************************************************************)

SentToday == {e \in DOMAIN events : events[e].status = "sent" /\ events[e].today}

\* Mutation: the cap is the number of messages that may follow the first.
CapReachedLate == Cardinality(SentToday) > DailyCap

\* email_count_today counts the sent events of the day.
CapReached == Cardinality(SentToday) >= DailyCap

\* The outcome is known; update_event_email begins with a SELECT of email_attempts.
Decide(l, status) ==
    /\ outcome' = [outcome EXCEPT ![l] = status]
    /\ tries' = [tries EXCEPT ![l] = events[cur[l]].attempts]
    /\ Goto(l, "record")

\* send_event_email up to the call: the cap, then the e-mail settings, whatever the
\* operator has made of them by now.
Check(l, channel) ==
    /\ pc[l] = "check"
    /\ \/ CapReached /\ Decide(l, "suppressed")
       \/ ~CapReached /\ channel = "console" /\ Decide(l, "previewed")
       \/ ~CapReached /\ channel = "broken" /\ Decide(l, "failed")
       \/ ~CapReached /\ channel = "working" /\ Goto(l, "post") /\ UNCHANGED <<outcome, tries>>
    /\ UNCHANGED <<phase, events, handed, doubt, overlap, cycle, cur, crashes>>

\* The provider accepts the message, or not; a timeout may hide that it did.
Post(l, accepted, status) ==
    /\ pc[l] = "post"
    /\ status = "sent" => accepted
    /\ handed' = IF accepted /\ cur[l] \notin doubt
                 THEN [handed EXCEPT ![cur[l]] = @ + 1]
                 ELSE handed
    /\ doubt' = IF accepted /\ status # "sent" THEN doubt \cup {cur[l]} ELSE doubt
    /\ Decide(l, status)
    /\ UNCHANGED <<phase, events, overlap, cycle, cur, crashes>>

\* A failed message with attempts left waits for email_next_attempt_at.
Recorded(message, status, attempts) ==
    [message EXCEPT !.status = status, !.attempts = attempts + 1,
                    !.due = ~(status = "failed" /\ attempts + 1 < MaxAttempts),
                    !.today = (status = "sent")]

\* ... and ends with the UPDATE.
Record(l) ==
    /\ pc[l] = "record"
    /\ events' = [events EXCEPT ![cur[l]] = Recorded(@, outcome[l], tries[l])]
    /\ Goto(l, IF queue[l] = {} THEN "detect" ELSE "retry")
    /\ cur' = [cur EXCEPT ![l] = None]
    /\ outcome' = [outcome EXCEPT ![l] = None]
    /\ tries' = [tries EXCEPT ![l] = None]
    /\ UNCHANGED <<phase, handed, doubt, overlap, cycle, crashes>>

(***************************************************************************)
(* The surroundings                                                        *)
(***************************************************************************)

\* settings_update: the operator changes the operating phase.
SetPhase(p) ==
    /\ phase' = p
    /\ UNCHANGED <<events, handed, doubt, overlap, pc, cycle, delivery, crashes>>

\* email_next_attempt_at of a failed message goes by.
Elapse(e) ==
    /\ e \in DOMAIN events /\ ~events[e].due
    /\ events' = [events EXCEPT ![e].due = TRUE]
    /\ UNCHANGED <<phase, handed, doubt, overlap, pc, cycle, delivery, crashes>>

\* Midnight, UTC.
NewDay ==
    /\ events' = [e \in DOMAIN events |-> [events[e] EXCEPT !.today = FALSE]]
    /\ UNCHANGED <<phase, handed, doubt, overlap, pc, cycle, delivery, crashes>>

Crash(l) ==
    /\ pc[l] # "idle"
    /\ crashes < MaxCrashes
    /\ crashes' = crashes + 1
    /\ doubt' = IF outcome[l] = "sent" THEN doubt \cup {cur[l]} ELSE doubt
    /\ Forget(l)
    /\ UNCHANGED <<phase, events, handed, overlap>>

Deliver(l) ==
    \/ \E channel \in Channel : Check(l, channel)
    \/ \E accepted \in BOOLEAN, status \in {"sent", "failed"} : Post(l, accepted, status)
    \/ Record(l)

Next ==
    \/ \E l \in Loop :
          Begin(l) \/ NextOwed(l) \/ Persist(l) \/ End(l) \/ Deliver(l) \/ Crash(l)
    \/ \E p \in OperatingPhase : SetPhase(p)
    \/ \E e \in Event : Elapse(e)
    \/ NewDay

Spec == Init /\ [][Next]_vars

\* The coverage cycle goes on, ends and is started again, and delays go by; nothing
\* is asked of the FR24 cycle, which may hang on a message.
FairSpec ==
    /\ Spec
    /\ WF_vars(Begin(Grid) \/ NextOwed(Grid) \/ Deliver(Grid) \/ End(Grid))
    /\ \A e \in Event : WF_vars(Elapse(e))

(***************************************************************************)
(* Properties                                                              *)
(***************************************************************************)

\* On its way: past the cap check, and not yet counted.
OnItsWay == {l \in Loop : pc[l] = "post" \/ (pc[l] = "record" /\ outcome[l] = "sent")}

\* SPEC: "Enforce a daily sent-email cap".  The cap is checked before the call and
\* counted after it, so it may be passed, but only by one message: one that the
\* other loop had on its way when the cap was reached.
CapOvershoot == Cardinality(SentToday) + Cardinality(OnItsWay) <= DailyCap + 1

\* SPEC: "Shadow and Review events have no external notification", also when the
\* operator goes Live afterwards.
OnlyLiveIsMailed ==
    \A e \in DOMAIN events :
        events[e].phase # "live" => handed[e] = 0 /\ events[e].attempts = 0

\* Unless a timeout or a crash hid that it was accepted, a message goes out once; no
\* lock keeps the retry from listing an event which the loop that recorded it is still
\* delivering (retryable_email_events, update_event_email): it then goes out twice,
\* though every outcome is known, but not more often, whichever outcome is recorded
\* over the other.
NoDuplicate ==
    \A e \in Event \ doubt : handed[e] <= IF e \in overlap THEN 2 ELSE 1

Owing(e) ==
    /\ e \in DOMAIN events
    /\ events[e].phase = "live"
    /\ events[e].status \in {"pending", "failed"}
    /\ events[e].attempts < MaxAttempts

\* SPEC: "Live events begin as pending and are delivered": while the operator stays
\* in Live every event is settled: sent, suppressed by the cap, or given up after
\* its attempts, wherever a crash left it.
Settles == \A e \in Event : Owing(e) ~> (~Owing(e) \/ phase # "live")

=============================================================================
