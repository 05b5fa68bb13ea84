------------------------ MODULE EmailDeliveryProofs ------------------------
(***************************************************************************)
(* Proofs about EmailDelivery, for any number of events and attempts and   *)
(* any daily cap: its type invariant, that only events recorded in Live    *)
(* are ever mailed, that the cap is passed by one message at most, and     *)
(* that a message whose outcomes were all known goes out once, or twice if *)
(* it was listed for a retry while it was being delivered.                 *)
(***************************************************************************)
EXTENDS EmailDelivery, SequenceTheorems, FiniteSetTheorems, TLAPS

(***************************************************************************)
(* The inductive invariant                                                 *)
(***************************************************************************)

\* What a loop holds at each place of its cycle.  Only the coverage loop has a list.
Working ==
    \A l \in Loop :
        /\ pc[l] # "idle" => began[l] \in OperatingPhase
        /\ pc[l] \in {"idle", "detect"} => queue[l] = {}
        /\ l = FR24 => queue[l] = {}
        /\ pc[l] \in {"check", "post", "record"} <=> cur[l] # None
        /\ pc[l] = "record" <=> outcome[l] # None
        /\ pc[l] = "record" <=> tries[l] # None

\* Loop l is delivering event e, or has it on its list.
Holds(l, e) == cur[l] = e \/ e \in queue[l]

\* Whatever is held is an event recorded in Live.
HeldIsLive == \A l \in Loop, e \in DOMAIN events : Holds(l, e) => events[e].phase = "live"

\* What a loop is delivering is not on its list.
Once == \A l \in Loop, e \in Event : ~(cur[l] = e /\ e \in queue[l])

Excused == doubt \cup overlap

\* An event without an excuse is held by one loop.
Sole ==
    \A e \in Event \ Excused :
        \A l, m \in Loop : Holds(l, e) /\ Holds(m, e) => l = m

\* Its message went out, and this is recorded, or about to be by the loop that sent it.
Delivered(e) ==
    \/ /\ e \in DOMAIN events /\ events[e].status = "sent"
       /\ \A l \in Loop : ~Holds(l, e)
    \/ \E l \in Loop : cur[l] = e /\ outcome[l] = "sent"

Known == \A e \in Event \ Excused : handed[e] > 0 => handed[e] = 1 /\ Delivered(e)

\* Nothing was handed over for an event that does not exist yet.
Unrecorded == \A e \in Event \ DOMAIN events : handed[e] = 0

Typed == TypeOK /\ Working

IInv == Typed /\ HeldIsLive /\ OnlyLiveIsMailed /\ Once /\ Sole /\ Known /\ Unrecorded

(***************************************************************************)
(* Types                                                                   *)
(***************************************************************************)

LEMMA EventsDomain ==
    ASSUME TypeOK
    PROVE  /\ Len(events) \in Nat /\ Len(events) <= MaxEvents
           /\ DOMAIN events = 1..Len(events) /\ DOMAIN events \subseteq Event
           /\ \A e \in DOMAIN events : events[e] \in Message
           /\ None \notin DOMAIN events
BY NoneAssumption, BoundsAssumption DEF TypeOK, Event

\* What can be done to the table: an event appended, or one of them replaced.
LEMMA AppendedTyped ==
    ASSUME TypeOK, Len(events) < MaxEvents, NEW message \in Message
    PROVE  LET table == Append(events, message)
           IN  /\ table \in Seq(Message) /\ Len(table) = Len(events) + 1
               /\ Len(table) <= MaxEvents
               /\ DOMAIN table = DOMAIN events \cup {Len(table)}
               /\ Len(table) \notin DOMAIN events
               /\ table[Len(table)] = message
               /\ \A e \in DOMAIN events : table[e] = events[e]
<1> DEFINE table == Append(events, message)
<1>1. /\ table \in Seq(Message) /\ Len(table) = Len(events) + 1
      /\ table[Len(events) + 1] = message
      /\ \A e \in 1..Len(events) : table[e] = events[e]
  BY AppendProperties DEF TypeOK
<1>2. DOMAIN table = 1..Len(table)
  BY <1>1
<1> HIDE DEF table
<1>3. DOMAIN table = DOMAIN events \cup {Len(table)}
  BY <1>1, <1>2, EventsDomain
<1> QED
  BY <1>1, <1>3, EventsDomain, BoundsAssumption DEF table

LEMMA ReplacedTyped ==
    ASSUME TypeOK, NEW e \in DOMAIN events, NEW message \in Message
    PROVE  LET table == [events EXCEPT ![e] = message]
           IN  /\ table \in Seq(Message) /\ Len(table) = Len(events)
               /\ DOMAIN table = DOMAIN events
               /\ \A f \in DOMAIN events :
                     table[f] = IF f = e THEN message ELSE events[f]
BY EventsDomain, ExceptSeq DEF TypeOK

LEMMA NewDayTyped ==
    ASSUME TypeOK, NewDay
    PROVE  /\ events' \in Seq(Message) /\ Len(events') = Len(events)
           /\ DOMAIN events' = DOMAIN events
           /\ \A e \in DOMAIN events : events'[e] = [events[e] EXCEPT !.today = FALSE]
<1>1. events' = [e \in 1..Len(events) |-> [events[e] EXCEPT !.today = FALSE]]
  BY EventsDomain DEF NewDay
<1>2. \A e \in 1..Len(events) : [events[e] EXCEPT !.today = FALSE] \in Message
  BY EventsDomain DEF Message
<1>3. events' \in [1..Len(events) -> Message]
  BY <1>1, <1>2
<1>4. events' \in Seq(Message)
  BY <1>3, SeqDef, EventsDomain
<1>5. DOMAIN events' = 1..Len(events)
  BY <1>1
<1> QED
  BY <1>1, <1>4, <1>5, EventsDomain

LEMMA RecordedFields ==
    ASSUME NEW message \in Message, NEW status \in Status, NEW attempts \in Nat
    PROVE  /\ Recorded(message, status, attempts).phase = message.phase
           /\ Recorded(message, status, attempts).status = status
<1>1. ASSUME NEW due, NEW today, NEW n
      PROVE  /\ [message EXCEPT !.status = status, !.attempts = n,
                                !.due = due, !.today = today].phase = message.phase
             /\ [message EXCEPT !.status = status, !.attempts = n,
                                !.due = due, !.today = today].status = status
  BY DEF Message
<1> QED
  BY <1>1, Zenon DEF Recorded

LEMMA InitSound == Init => IInv
<1> SUFFICES ASSUME Init PROVE IInv
  OBVIOUS
<1>1. TypeOK
  BY BoundsAssumption, EmptySeq, NoneAssumption DEF Init, TypeOK, Label
<1>2. \A e \in Event, l \in Loop : ~Holds(l, e)
  BY NoneAssumption DEF Init, Holds, Event
<1>3. Working /\ HeldIsLive /\ OnlyLiveIsMailed
  BY DEF Init, Working, HeldIsLive, OnlyLiveIsMailed
<1>4. Once /\ Sole
  BY <1>2 DEF Once, Sole, Holds
<1>5. Known /\ Unrecorded
  BY DEF Init, Known, Unrecorded
<1> QED
  BY <1>1, <1>3, <1>4, <1>5 DEF IInv, Typed

\* What Working says of one loop.
Works(l) ==
    /\ pc[l] # "idle" => began[l] \in OperatingPhase
    /\ pc[l] \in {"idle", "detect"} => queue[l] = {}
    /\ l = FR24 => queue[l] = {}
    /\ pc[l] \in {"check", "post", "record"} <=> cur[l] # None
    /\ pc[l] = "record" <=> outcome[l] # None
    /\ pc[l] = "record" <=> tries[l] # None

\* A loop's step leaves the other loop's variables alone.
OtherLoop(l) ==
    \A m \in Loop \ {l} :
        /\ pc'[m] = pc[m] /\ began'[m] = began[m] /\ queue'[m] = queue[m]
        /\ cur'[m] = cur[m] /\ outcome'[m] = outcome[m] /\ tries'[m] = tries[m]

LEMMA WorksOn ==
    ASSUME Working, NEW l \in Loop, OtherLoop(l), Works(l)'
    PROVE  Working'
BY DEF Working, Works, OtherLoop

\* A cycle's variables after it is over.
LEMMA ForgetTyped ==
    ASSUME Typed, NEW l \in Loop, Forget(l)
    PROVE  /\ pc' \in [Loop -> Label] /\ began' \in [Loop -> OperatingPhase \cup {None}]
           /\ queue' \in [Loop -> SUBSET DOMAIN events]
           /\ cur' \in [Loop -> DOMAIN events \cup {None}]
           /\ outcome' \in [Loop -> Status \cup {None}]
           /\ tries' \in [Loop -> Nat \cup {None}]
           /\ Works(l)' /\ OtherLoop(l)
<1> USE DEF Typed, TypeOK, Forget, Goto
<1>1. pc' \in [Loop -> Label]
  BY DEF Label
<1>2. began' \in [Loop -> OperatingPhase \cup {None}] /\ queue' \in [Loop -> SUBSET DOMAIN events]
  OBVIOUS
<1>3. cur' \in [Loop -> DOMAIN events \cup {None}]
  OBVIOUS
<1>4. outcome' \in [Loop -> Status \cup {None}] /\ tries' \in [Loop -> Nat \cup {None}]
  OBVIOUS
<1>5. Works(l)'
  BY DEF Works
<1>6. OtherLoop(l)
  BY DEF OtherLoop
<1> QED
  BY <1>1, <1>2, <1>3, <1>4, <1>5, <1>6

LEMMA BeginTyped == ASSUME Typed, NEW l \in Loop, Begin(l) PROVE Typed'
<1> USE DEF Typed, TypeOK, Begin, Goto, delivery
<1>1. pc' \in [Loop -> Label]
  BY DEF Label
<1>2. Owed \subseteq DOMAIN events
  BY DEF Owed
<1>3. queue' \in [Loop -> SUBSET DOMAIN events]
  BY <1>2
<1>4. began' \in [Loop -> OperatingPhase \cup {None}]
  OBVIOUS
<1>5. overlap' \subseteq Event
  BY <1>3, EventsDomain
<1>6. OtherLoop(l)
  BY DEF OtherLoop
<1>7. Works(l)'
  BY LoopAssumption DEF Works, Working
<1>8. Working'
  BY <1>6, <1>7, WorksOn
<1> QED
  BY <1>1, <1>3, <1>4, <1>5, <1>8

LEMMA NextOwedTyped == ASSUME Typed, NEW l \in Loop, NextOwed(l) PROVE Typed'
<1> USE DEF Typed, TypeOK, Goto
<1>1. PICK e \in queue[l] : /\ cur' = [cur EXCEPT ![l] = e]
                            /\ queue' = [queue EXCEPT ![l] = @ \ {e}]
  BY DEF NextOwed
<1>2. e \in DOMAIN events /\ e # None
  BY <1>1, EventsDomain
<1>3. /\ UNCHANGED <<phase, events, handed, doubt, overlap, began, outcome, tries, crashes>>
      /\ pc' = [pc EXCEPT ![l] = "check"] /\ pc[l] = "retry"
  BY DEF NextOwed
<1>4. pc' \in [Loop -> Label]
  BY <1>3 DEF Label
<1>5. queue' \in [Loop -> SUBSET DOMAIN events] /\ cur' \in [Loop -> DOMAIN events \cup {None}]
  BY <1>1, <1>2
<1>6. OtherLoop(l)
  BY <1>1, <1>3 DEF OtherLoop
<1>7. Works(l)'
  BY <1>1, <1>2, <1>3 DEF Works, Working
<1>8. Working'
  BY <1>6, <1>7, WorksOn
<1> QED
  BY <1>3, <1>4, <1>5, <1>8

LEMMA DecideTyped ==
    ASSUME Typed, NEW l \in Loop, NEW status \in Status, Decide(l, status),
           pc[l] \in {"check", "post"}
    PROVE  /\ pc' \in [Loop -> Label]
           /\ outcome' \in [Loop -> Status \cup {None}]
           /\ tries' \in [Loop -> Nat \cup {None}]
           /\ UNCHANGED <<began, queue, cur>> => Works(l)' /\ OtherLoop(l)
<1> USE DEF Typed, TypeOK, Decide, Goto
<1>1. cur[l] \in DOMAIN events /\ events[cur[l]].attempts \in Nat
  BY EventsDomain DEF Working, Message
<1>2. pc' \in [Loop -> Label]
  BY DEF Label
<1>3. outcome' \in [Loop -> Status \cup {None}] /\ tries' \in [Loop -> Nat \cup {None}]
  BY <1>1
<1>4. ASSUME UNCHANGED <<began, queue, cur>> PROVE Works(l)' /\ OtherLoop(l)
  <2>1. OtherLoop(l)
    BY <1>4 DEF OtherLoop
  <2>2. outcome'[l] # None /\ tries'[l] # None /\ pc'[l] = "record"
    BY <1>1, NoneAssumption
  <2>3. Works(l)'
    BY <1>4, <2>2 DEF Works, Working
  <2> QED
    BY <2>1, <2>3
<1> QED
  BY <1>2, <1>3, <1>4

LEMMA CheckTyped ==
    ASSUME Typed, NEW l \in Loop, NEW channel \in Channel, Check(l, channel)
    PROVE  Typed'
<1>1. /\ UNCHANGED <<phase, events, handed, doubt, overlap, cycle, cur, crashes>>
      /\ pc[l] = "check"
  BY DEF Check
<1>2. ASSUME NEW status \in {"suppressed", "previewed", "failed"}, Decide(l, status)
      PROVE  Typed'
  <2>1. status \in Status
    BY DEF Status
  <2>2. Working'
    BY <1>1, <1>2, <2>1, DecideTyped, WorksOn DEF cycle, Typed
  <2> QED
    BY <1>1, <1>2, <2>1, <2>2, DecideTyped DEF cycle, Typed, TypeOK
<1>3. ASSUME Goto(l, "post"), UNCHANGED <<outcome, tries>> PROVE Typed'
  <2>1. pc' \in [Loop -> Label]
    BY <1>3 DEF Goto, Label, Typed, TypeOK
  <2>2. Works(l)' /\ OtherLoop(l)
    BY <1>1, <1>3 DEF Goto, Typed, TypeOK, Working, Works, OtherLoop, cycle
  <2> QED
    BY <1>1, <1>3, <2>1, <2>2, WorksOn DEF cycle, Typed, TypeOK
<1> QED
  BY <1>2, <1>3 DEF Check

LEMMA PostTyped ==
    ASSUME Typed, NEW l \in Loop, NEW accepted \in BOOLEAN, NEW status \in {"sent", "failed"},
           Post(l, accepted, status)
    PROVE  Typed'
<1>1. /\ UNCHANGED <<phase, events, overlap, cycle, cur, crashes>>
      /\ pc[l] = "post" /\ Decide(l, status)
  BY DEF Post
<1>2. status \in Status
  BY DEF Status
<1>3. Working'
  BY <1>1, <1>2, DecideTyped, WorksOn DEF cycle, Typed
<1>4. cur[l] \in Event
  BY <1>1, EventsDomain DEF Typed, TypeOK, Working
<1>5. handed' \in [Event -> Nat] /\ doubt' \subseteq Event /\ overlap' \subseteq Event
  BY <1>4 DEF Post, Typed, TypeOK
<1> QED
  BY <1>1, <1>2, <1>3, <1>5, DecideTyped DEF cycle, Typed, TypeOK

LEMMA RecordTyped ==
    ASSUME Typed, NEW l \in Loop, Record(l)
    PROVE  /\ Typed'
           /\ cur[l] \in DOMAIN events /\ DOMAIN events' = DOMAIN events
           /\ outcome[l] \in Status /\ tries[l] \in Nat
           /\ \A e \in DOMAIN events :
                 events'[e] = IF e = cur[l] THEN Recorded(events[e], outcome[l], tries[l])
                              ELSE events[e]
<1>1. cur[l] \in DOMAIN events /\ outcome[l] \in Status /\ tries[l] \in Nat
  BY DEF Record, Typed, TypeOK, Working
<1>2. Recorded(events[cur[l]], outcome[l], tries[l]) \in Message
  <2>1. ASSUME NEW message \in Message, NEW status \in Status, NEW attempts \in Nat,
               NEW due \in BOOLEAN, NEW today \in BOOLEAN
        PROVE  [message EXCEPT !.status = status, !.attempts = attempts,
                               !.due = due, !.today = today] \in Message
    BY DEF Message
  <2>2. /\ (~(outcome[l] = "failed" /\ tries[l] + 1 < MaxAttempts)) \in BOOLEAN
        /\ (outcome[l] = "sent") \in BOOLEAN
    OBVIOUS
  <2>3. tries[l] + 1 \in Nat
    BY <1>1
  <2> QED
    BY <1>1, <2>1, <2>2, <2>3, EventsDomain, Zenon DEF Recorded, Typed
<1>3. /\ events' \in Seq(Message) /\ Len(events') = Len(events)
      /\ DOMAIN events' = DOMAIN events
      /\ \A e \in DOMAIN events :
            events'[e] = IF e = cur[l] THEN Recorded(events[e], outcome[l], tries[l])
                         ELSE events[e]
  BY <1>1, <1>2, ReplacedTyped DEF Record, Typed
<1>4. /\ UNCHANGED <<phase, handed, doubt, overlap, cycle, crashes>>
      /\ pc' \in [Loop -> Label]
      /\ cur' \in [Loop -> DOMAIN events \cup {None}]
      /\ outcome' \in [Loop -> Status \cup {None}]
      /\ tries' \in [Loop -> Nat \cup {None}]
  BY DEF Record, Goto, Label, Typed, TypeOK
<1>5. Works(l)' /\ OtherLoop(l)
  BY DEF Record, Goto, Typed, TypeOK, Working, Works, OtherLoop, cycle
<1>6. Working'
  BY <1>5, WorksOn DEF Typed
<1> QED
  BY <1>1, <1>3, <1>4, <1>6 DEF Typed, TypeOK, cycle

LEMMA PersistTyped ==
    ASSUME Typed, NEW l \in Loop, Persist(l)
    PROVE  /\ Typed'
           /\ Len(events') \notin DOMAIN events
           /\ Len(events') \in Event /\ Len(events') # None
           /\ DOMAIN events' = DOMAIN events \cup {Len(events')}
           /\ events'[Len(events')] =
                 [phase |-> began[l], status |-> MailStatus(began[l]),
                  attempts |-> 0, due |-> TRUE, today |-> FALSE]
           /\ \A e \in DOMAIN events : events'[e] = events[e]
<1> DEFINE message == [phase |-> began[l], status |-> MailStatus(began[l]),
                       attempts |-> 0, due |-> TRUE, today |-> FALSE]
<1>1. pc[l] = "detect" /\ began[l] \in OperatingPhase
  BY DEF Persist, Typed, Working
<1>2. MailStatus(began[l]) \in Status
  BY <1>1, PhaseAssumption DEF MailStatus, Status
<1>3. message \in Message
  BY <1>1, <1>2 DEF Message
<1>4. events' = Append(events, message) /\ Len(events) < MaxEvents
  BY DEF Persist
<1> HIDE DEF message
<1>5. /\ events' \in Seq(Message) /\ Len(events') = Len(events) + 1
      /\ Len(events') <= MaxEvents
      /\ DOMAIN events' = DOMAIN events \cup {Len(events')}
      /\ Len(events') \notin DOMAIN events
      /\ events'[Len(events')] = message
      /\ \A e \in DOMAIN events : events'[e] = events[e]
  BY <1>3, <1>4, AppendedTyped DEF Typed
<1>6. UNCHANGED <<phase, handed, doubt, overlap, cycle, outcome, tries, crashes>>
  BY DEF Persist
<1>7. cur' \in [Loop -> DOMAIN events' \cup {None}] /\ pc' \in [Loop -> Label]
  BY <1>5 DEF Persist, Goto, Label, Typed, TypeOK
<1>8. queue \in [Loop -> SUBSET DOMAIN events']
  BY <1>5 DEF Typed, TypeOK
<1>9. OtherLoop(l)
  BY <1>6 DEF Persist, Goto, Typed, TypeOK, OtherLoop, cycle
<1>10. Len(events') \in Event /\ Len(events') # None
  BY <1>5, EventsDomain, NoneAssumption DEF Typed, Event
<1>11. Works(l)'
  BY <1>1, <1>6, <1>10 DEF Persist, Goto, Typed, TypeOK, Working, Works, cycle
<1>12. Working'
  BY <1>9, <1>11, WorksOn DEF Typed
<1> QED
  BY <1>5, <1>6, <1>7, <1>8, <1>10, <1>12 DEF message, Typed, TypeOK, cycle

LEMMA OverTyped == ASSUME Typed, NEW l \in Loop, End(l) \/ Crash(l) PROVE Typed'
<1>1. Forget(l) /\ UNCHANGED <<phase, events, handed, overlap>>
  BY DEF End, Crash
<1>2. Working'
  BY <1>1, ForgetTyped, WorksOn DEF Typed
<1>3. doubt' \subseteq Event
  <2>1. outcome[l] = "sent" => cur[l] \in DOMAIN events
    BY NoneAssumption DEF Typed, TypeOK, Working, Status
  <2> QED
    BY <2>1, EventsDomain DEF End, Crash, Typed, TypeOK
<1>4. crashes' \in 0..MaxCrashes
  BY BoundsAssumption DEF End, Crash, Typed, TypeOK
<1> QED
  BY <1>1, <1>2, <1>3, <1>4, ForgetTyped DEF Typed, TypeOK

LEMMA SurroundingsTyped ==
    ASSUME Typed,
           \/ \E p \in OperatingPhase : SetPhase(p)
           \/ \E e \in Event : Elapse(e)
           \/ NewDay
    PROVE  /\ Typed'
           /\ UNCHANGED <<handed, doubt, overlap, pc, cycle, delivery, crashes>>
           /\ DOMAIN events' = DOMAIN events
           /\ \A e \in DOMAIN events :
                 /\ events'[e].phase = events[e].phase
                 /\ events'[e].status = events[e].status
                 /\ events'[e].attempts = events[e].attempts
                 /\ events'[e].today => events[e].today
<1>1. UNCHANGED <<handed, doubt, overlap, pc, cycle, delivery, crashes>>
  BY DEF SetPhase, Elapse, NewDay
<1>2. phase' \in OperatingPhase
  BY DEF SetPhase, Elapse, NewDay, Typed, TypeOK
<1>3. /\ events' \in Seq(Message) /\ Len(events') = Len(events)
      /\ DOMAIN events' = DOMAIN events
      /\ \A e \in DOMAIN events :
            /\ events'[e].phase = events[e].phase
            /\ events'[e].status = events[e].status
            /\ events'[e].attempts = events[e].attempts
            /\ events'[e].today => events[e].today
  <2>1. CASE \E p \in OperatingPhase : SetPhase(p)
    BY <2>1, EventsDomain DEF SetPhase, Typed, TypeOK
  <2>2. CASE \E e \in Event : Elapse(e)
    <3>1. PICK e \in DOMAIN events : events' = [events EXCEPT ![e].due = TRUE]
      BY <2>2 DEF Elapse
    <3>2. events' = [events EXCEPT ![e] = [events[e] EXCEPT !.due = TRUE]]
      BY <3>1
    <3>3. [events[e] EXCEPT !.due = TRUE] \in Message
      BY EventsDomain DEF Message, Typed
    <3>4. /\ events' \in Seq(Message) /\ Len(events') = Len(events)
          /\ DOMAIN events' = DOMAIN events
          /\ \A f \in DOMAIN events :
                events'[f] = IF f = e THEN [events[e] EXCEPT !.due = TRUE] ELSE events[f]
      BY <3>2, <3>3, ReplacedTyped DEF Typed
    <3> QED
      BY <3>4, EventsDomain DEF Message, Typed
  <2>3. CASE NewDay
    <3>1. \A e \in DOMAIN events : events'[e] = [events[e] EXCEPT !.today = FALSE]
      BY <2>3, NewDayTyped DEF Typed
    <3> QED
      BY <2>3, <3>1, NewDayTyped, EventsDomain DEF Message, Typed
  <2> QED
    BY <2>1, <2>2, <2>3
<1>4. Working'
  BY <1>1 DEF Typed, Working, cycle, delivery
<1> QED
  BY <1>1, <1>2, <1>3, <1>4 DEF Typed, TypeOK, cycle, delivery

(***************************************************************************)
(* The rest of the invariant, action by action                             *)
(***************************************************************************)

Sound == HeldIsLive /\ OnlyLiveIsMailed /\ Once /\ Sole /\ Known /\ Unrecorded

\* Events are only listed when they are live, nothing of them went out beyond doubt,
\* and nobody is delivering them beyond doubt.
LEMMA BeginSound == ASSUME Typed, Sound, NEW l \in Loop, Begin(l) PROVE Sound'
<1>1. /\ UNCHANGED <<events, handed, cur, outcome>> /\ queue[l] = {}
      /\ \A m \in Loop : queue'[m] = queue[m] \/ (m = l /\ l = Grid /\ queue'[m] = Owed)
  BY DEF Begin, delivery, Typed, TypeOK, Working
<1>2. \A e \in Owed : e \in DOMAIN events /\ events[e].phase = "live" /\ events[e].status # "sent"
  BY DEF Owed, Retryable
<1>3. \A e \in Event \ Excused' : e \in Event \ Excused /\
         \A m \in Loop : e \in queue'[l] => cur[m] # e
  BY DEF Begin, Excused
<1>4. HeldIsLive'
  BY <1>1, <1>2 DEF Sound, HeldIsLive, Holds
<1>5. OnlyLiveIsMailed' /\ Unrecorded'
  BY <1>1 DEF Sound, OnlyLiveIsMailed, Unrecorded
<1>6. \A m \in Loop \ {Grid} : queue'[m] = {}
  BY <1>1 DEF Typed, Working, Loop
<1>9. Once'
  <2>1. cur[l] = None /\ queue' = [queue EXCEPT ![l] = queue'[l]]
    BY DEF Begin, Typed, TypeOK, Working
  <2>2. \A e \in Event : e # None
    BY NoneAssumption DEF Event
  <2> QED
    BY <1>1, <2>1, <2>2 DEF Sound, Once
<1>7. Sole'
  <2> SUFFICES ASSUME NEW e \in Event \ Excused'
               PROVE  \A k, m \in Loop : Holds(k, e)' /\ Holds(m, e)' => k = m
    BY DEF Sole
  <2>1. CASE e \in queue'[l]
    BY <2>1, <1>1, <1>3, <1>6 DEF Holds
  <2>2. CASE e \notin queue'[l]
    BY <2>2, <1>1, <1>3 DEF Holds, Sound, Sole
  <2> QED
    BY <2>1, <2>2
<1>8. Known'
  <2> SUFFICES ASSUME NEW e \in Event \ Excused', handed[e] > 0
               PROVE  handed[e] = 1 /\ Delivered(e)'
    BY <1>1 DEF Known
  <2>1. handed[e] = 1 /\ Delivered(e)
    BY <1>3 DEF Sound, Known
  <2>2. CASE \E m \in Loop : cur[m] = e /\ outcome[m] = "sent"
    BY <2>1, <2>2, <1>1 DEF Delivered
  <2>3. CASE /\ e \in DOMAIN events /\ events[e].status = "sent"
             /\ \A m \in Loop : ~Holds(m, e)
    BY <2>1, <2>3, <1>1, <1>2 DEF Delivered, Holds
  <2> QED
    BY <2>1, <2>2, <2>3 DEF Delivered
<1> QED
  BY <1>4, <1>5, <1>7, <1>8, <1>9 DEF Sound

LEMMA NextOwedSound == ASSUME Typed, Sound, NEW l \in Loop, NextOwed(l) PROVE Sound'
<1>1. /\ UNCHANGED <<events, handed, doubt, overlap, outcome>>
      /\ pc[l] = "retry" /\ cur[l] = None /\ outcome[l] = None
  BY DEF NextOwed, Typed, Working
<1>2. PICK e \in queue[l] : /\ cur' = [cur EXCEPT ![l] = e]
                            /\ queue' = [queue EXCEPT ![l] = @ \ {e}]
  BY DEF NextOwed
<1>3. e \in DOMAIN events /\ e # None
  BY <1>2, EventsDomain DEF Typed, TypeOK
<1>4. \A m \in Loop, f \in Event : Holds(m, f)' <=> Holds(m, f)
  <2> SUFFICES ASSUME NEW m \in Loop, NEW f \in Event PROVE Holds(m, f)' <=> Holds(m, f)
    OBVIOUS
  <2>1. f # None
    BY NoneAssumption DEF Event
  <2> QED
    BY <2>1, <1>1, <1>2, <1>3 DEF Holds, Typed, TypeOK
<1>5. HeldIsLive' /\ OnlyLiveIsMailed' /\ Unrecorded'
  BY <1>1, <1>4, EventsDomain DEF Sound, HeldIsLive, OnlyLiveIsMailed, Unrecorded, Typed
<1>6. Once' /\ Sole'
  <2>1. \A m \in Loop, f \in Event : ~(cur'[m] = f /\ f \in queue'[m])
    BY <1>2 DEF Sound, Once, Typed, TypeOK
  <2> QED
    BY <2>1, <1>1, <1>4 DEF Sound, Once, Sole, Excused
<1>7. Known'
  <2> SUFFICES ASSUME NEW f \in Event \ Excused, handed[f] > 0
               PROVE  handed[f] = 1 /\ Delivered(f)'
    BY <1>1 DEF Known, Excused
  <2>1. handed[f] = 1 /\ Delivered(f)
    BY DEF Sound, Known
  <2>2. ASSUME NEW m \in Loop, cur[m] = f, outcome[m] = "sent" PROVE cur'[m] = f
    BY <2>2, <1>1, <1>2, NoneAssumption DEF Typed, TypeOK, Status
  <2> QED
    BY <2>1, <2>2, <1>1, <1>4 DEF Delivered
<1> QED
  BY <1>5, <1>6, <1>7 DEF Sound

LEMMA PersistSound == ASSUME Typed, Sound, NEW l \in Loop, Persist(l) PROVE Sound'
<1>0. PICK new \in Event : new = Len(events')
  BY PersistTyped
<1>1. /\ UNCHANGED <<handed, doubt, overlap, queue, outcome>> /\ pc[l] = "detect"
      /\ cur[l] = None /\ outcome[l] = None
      /\ cur' = cur \/ (began[l] = "live" /\ cur' = [cur EXCEPT ![l] = new])
  BY <1>0 DEF Persist, Delivers, cycle, Typed, Working
<1>2. /\ DOMAIN events' = DOMAIN events \cup {new} /\ new \notin DOMAIN events
      /\ events'[new].phase = began[l] /\ events'[new].attempts = 0
      /\ \A e \in DOMAIN events : events'[e] = events[e]
      /\ DOMAIN events \subseteq Event /\ DOMAIN events' \subseteq Event
      /\ new # None
  <2>2. new \in Event /\ new # None
    BY <1>0, PersistTyped
  <2>3. /\ DOMAIN events' = DOMAIN events \cup {new} /\ new \notin DOMAIN events
        /\ events'[new] = [phase |-> began[l], status |-> MailStatus(began[l]),
                           attempts |-> 0, due |-> TRUE, today |-> FALSE]
        /\ \A e \in DOMAIN events : events'[e] = events[e]
    BY <1>0, PersistTyped
  <2>4. events'[new].phase = began[l] /\ events'[new].attempts = 0
    BY <2>3
  <2> QED
    BY <2>2, <2>3, <2>4, EventsDomain DEF Typed
<1>3. handed[new] = 0
  BY <1>2 DEF Sound, Unrecorded
<1>4. \A m \in Loop : new \notin queue[m] /\ cur[m] # new
  BY <1>2, EventsDomain DEF Typed, TypeOK
<1>5. \A m \in Loop, e \in Event \ {new} : Holds(m, e)' <=> Holds(m, e)
  <2> SUFFICES ASSUME NEW m \in Loop, NEW e \in Event \ {new} PROVE Holds(m, e)' <=> Holds(m, e)
    OBVIOUS
  <2>1. e # None
    BY NoneAssumption DEF Event
  <2> QED
    BY <2>1, <1>1 DEF Holds, Typed, TypeOK
<1>6. \A m \in Loop : Holds(m, new)' => m = l /\ began[l] = "live" /\ new \notin queue'[l]
  BY <1>1, <1>4 DEF Holds, Typed, TypeOK
<1>7. HeldIsLive'
  <2> SUFFICES ASSUME NEW m \in Loop, NEW e \in DOMAIN events', Holds(m, e)'
               PROVE  events'[e].phase = "live"
    BY DEF HeldIsLive
  <2>1. CASE e = new
    BY <2>1, <1>2, <1>6
  <2>2. CASE e # new
    <3>1. e \in DOMAIN events /\ e \in Event \ {new}
      BY <2>2, <1>2
    <3> QED
      BY <3>1, <1>2, <1>5 DEF Sound, HeldIsLive
  <2> QED
    BY <2>1, <2>2
<1>8. OnlyLiveIsMailed' /\ Unrecorded'
  BY <1>1, <1>2, <1>3 DEF Sound, OnlyLiveIsMailed, Unrecorded
<1>11. Once'
  <2> SUFFICES ASSUME NEW e \in Event, NEW k \in Loop, cur'[k] = e PROVE e \notin queue'[k]
    BY DEF Once
  <2>1. CASE e = new
    BY <2>1, <1>1, <1>4
  <2>2. CASE e # new
    BY <2>2, <1>1 DEF Sound, Once, Typed, TypeOK
  <2> QED
    BY <2>1, <2>2
<1>9. Sole'
  <2> SUFFICES ASSUME NEW e \in Event \ Excused
               PROVE  \A k, m \in Loop : Holds(k, e)' /\ Holds(m, e)' => k = m
    BY <1>1 DEF Sole, Excused
  <2>1. CASE e = new
    BY <2>1, <1>1, <1>4, <1>6
  <2>2. CASE e # new
    BY <2>2, <1>1, <1>5 DEF Sound, Sole, Typed, TypeOK
  <2> QED
    BY <2>1, <2>2
<1>10. Known'
  <2> SUFFICES ASSUME NEW e \in Event \ Excused, handed[e] > 0
               PROVE  handed[e] = 1 /\ Delivered(e)'
    BY <1>1 DEF Known, Excused
  <2>1. handed[e] = 1 /\ Delivered(e) /\ e # new
    BY <1>3 DEF Sound, Known
  <2>2. ASSUME NEW m \in Loop, cur[m] = e, outcome[m] = "sent" PROVE cur'[m] = e
    BY <2>2, <1>1, NoneAssumption DEF Typed, TypeOK, Status
  <2> QED
    BY <2>1, <2>2, <1>1, <1>2, <1>5 DEF Delivered
<1> QED
  BY <1>7, <1>8, <1>9, <1>10, <1>11 DEF Sound

\* An outcome that says nothing about the provider.
LEMMA CheckSound ==
    ASSUME Typed, Sound, NEW l \in Loop, NEW channel \in Channel, Check(l, channel)
    PROVE  Sound'
<1>1. /\ UNCHANGED <<events, handed, doubt, overlap, queue, cur>> /\ outcome[l] = None
      /\ \A m \in Loop : outcome[m] = "sent" => outcome'[m] = "sent"
  BY NoneAssumption DEF Check, Decide, Typed, TypeOK, Working, cycle, Status
<1>2. \A e \in Event : Delivered(e) => Delivered(e)'
  BY <1>1 DEF Delivered, Holds
<1> QED
  BY <1>1, <1>2 DEF Sound, HeldIsLive, OnlyLiveIsMailed, Once, Sole, Excused, Known, Unrecorded, Holds

LEMMA PostSound ==
    ASSUME Typed, Sound, NEW l \in Loop, NEW accepted \in BOOLEAN,
           NEW status \in {"sent", "failed"}, Post(l, accepted, status)
    PROVE  Sound'
<1>0. PICK e \in Event : e = cur[l]
  BY EventsDomain DEF Post, Typed, TypeOK, Working
<1>1. /\ UNCHANGED <<events, queue, cur>> /\ outcome[l] = None
      /\ outcome' = [outcome EXCEPT ![l] = status]
      /\ e \in DOMAIN events /\ e \in Event
      /\ handed' = IF accepted /\ e \notin doubt THEN [handed EXCEPT ![e] = @ + 1] ELSE handed
      /\ overlap' = overlap
      /\ doubt' = IF accepted /\ status # "sent" THEN doubt \cup {e} ELSE doubt
      /\ status = "sent" => accepted
      /\ Holds(l, e)
  BY <1>0, EventsDomain DEF Post, Decide, Typed, TypeOK, Working, cycle, Holds
<1>2. events[e].phase = "live"
  BY <1>1 DEF Sound, HeldIsLive
<1>3. HeldIsLive' /\ Once' /\ Sole'
  BY <1>1 DEF Sound, HeldIsLive, Once, Sole, Excused, Holds
<1>4. OnlyLiveIsMailed' /\ Unrecorded'
  BY <1>1, <1>2, EventsDomain DEF Sound, OnlyLiveIsMailed, Unrecorded, Typed, TypeOK
<1>5. Known'
  <2> SUFFICES ASSUME NEW f \in Event \ Excused', handed'[f] > 0
               PROVE  handed'[f] = 1 /\ Delivered(f)'
    BY DEF Known
  <2>1. \A m \in Loop : outcome[m] = "sent" => outcome'[m] = "sent"
    BY <1>1, NoneAssumption DEF Typed, TypeOK, Status
  <2>2. CASE f # e
    <3>1. handed'[f] = handed[f] /\ f \notin Excused
      BY <2>2, <1>1 DEF Excused, Typed, TypeOK
    <3> QED
      BY <3>1, <2>1, <1>1 DEF Sound, Known, Delivered, Holds
  <2>3. CASE f = e
    <3>0. e \notin Excused /\ e \notin doubt /\ e \notin doubt'
      BY <2>3, <1>1 DEF Excused
    <3>1. ~Delivered(e)
      <4>1. \A m \in Loop : Holds(m, e) => m = l
        BY <3>0, <1>1 DEF Sound, Sole
      <4> QED
        BY <4>1, <1>1, NoneAssumption DEF Delivered, Holds, Status
    <3>2. handed[e] = 0
      BY <3>0, <3>1, <1>1 DEF Sound, Known, Typed, TypeOK
    <3>3. accepted /\ status = "sent"
      BY <2>3, <3>0, <3>2, <1>1
    <3>4. handed'[e] = 1
      BY <3>0, <3>2, <3>3, <1>1 DEF Typed, TypeOK
    <3>5. outcome'[l] = "sent" /\ cur'[l] = e
      BY <3>3, <1>0, <1>1 DEF Typed, TypeOK
    <3> QED
      BY <2>3, <3>4, <3>5 DEF Delivered
  <2> QED
    BY <2>2, <2>3
<1> QED
  BY <1>3, <1>4, <1>5 DEF Sound

LEMMA RecordSound == ASSUME Typed, Sound, NEW l \in Loop, Record(l) PROVE Sound'
<1>0. PICK e \in Event : e = cur[l]
  BY RecordTyped, EventsDomain DEF Typed
<1>1. /\ UNCHANGED <<handed, doubt, overlap, queue>> /\ cur' = [cur EXCEPT ![l] = None]
      /\ outcome' = [outcome EXCEPT ![l] = None] /\ outcome[l] \in Status
      /\ e \in DOMAIN events /\ DOMAIN events' = DOMAIN events
      /\ e \in Event /\ DOMAIN events \subseteq Event
      /\ Holds(l, e)
  BY <1>0, RecordTyped, EventsDomain DEF Record, cycle, Holds, Typed
<1>2. \A f \in DOMAIN events :
         /\ events'[f].phase = events[f].phase
         /\ f # e => events'[f] = events[f]
         /\ f = e => events'[f].status = outcome[l]
  <2>1. events[e] \in Message /\ tries[l] \in Nat
    BY <1>1, RecordTyped, EventsDomain DEF Typed
  <2>2. \A f \in DOMAIN events :
           events'[f] = IF f = e THEN Recorded(events[e], outcome[l], tries[l]) ELSE events[f]
    BY <1>0, RecordTyped
  <2> QED
    BY <1>1, <2>1, <2>2, RecordedFields
<1>3. events[e].phase = "live"
  BY <1>1 DEF Sound, HeldIsLive
<1>4. \A m \in Loop, f \in Event :
         /\ Holds(m, f)' => Holds(m, f)
         /\ f # e => (Holds(m, f)' <=> Holds(m, f))
  BY <1>0, <1>1, NoneAssumption DEF Holds, Typed, TypeOK, Event
<1>5. HeldIsLive' /\ OnlyLiveIsMailed' /\ Unrecorded'
  BY <1>1, <1>2, <1>3, <1>4 DEF Sound, HeldIsLive, OnlyLiveIsMailed, Unrecorded
<1>6. Once' /\ Sole'
  <2>1. \A m \in Loop, f \in Event : cur'[m] = f => cur[m] = f
    BY <1>1, NoneAssumption DEF Typed, TypeOK, Event
  <2> QED
    BY <2>1, <1>1, <1>4 DEF Sound, Once, Sole, Excused
<1>7. Known'
  <2> SUFFICES ASSUME NEW f \in Event \ Excused, handed[f] > 0
               PROVE  handed[f] = 1 /\ Delivered(f)'
    BY <1>1 DEF Known, Excused
  <2>1. handed[f] = 1 /\ Delivered(f)
    BY DEF Sound, Known
  <2>2. CASE f # e
    <3>1. \A m \in Loop : cur[m] = f => cur'[m] = f /\ outcome'[m] = outcome[m]
      BY <2>2, <1>0, <1>1 DEF Typed, TypeOK
    <3> QED
      BY <2>1, <2>2, <3>1, <1>1, <1>2, <1>4 DEF Delivered
  <2>3. CASE f = e
    <3>1. \A m \in Loop : Holds(m, e) => m = l
      BY <2>3, <1>1 DEF Sound, Sole
    <3>2. cur[l] = e /\ e \notin queue[l]
      BY <2>3, <1>0 DEF Sound, Once
    <3>3. outcome[l] = "sent"
      BY <2>1, <2>3, <3>1, <3>2, <1>1 DEF Delivered, Holds
    <3>4. \A m \in Loop : ~Holds(m, e)'
      BY <3>1, <3>2, <1>0, <1>1, <1>4, NoneAssumption DEF Holds, Typed, TypeOK, Event
    <3> QED
      BY <2>1, <2>3, <3>3, <3>4, <1>1, <1>2 DEF Delivered
  <2> QED
    BY <2>2, <2>3
<1> QED
  BY <1>5, <1>6, <1>7 DEF Sound

\* A loop lets go of what it holds; if it knew of a message sent, nobody does now.
LEMMA OverSound == ASSUME Typed, Sound, NEW l \in Loop, End(l) \/ Crash(l) PROVE Sound'
<1>1. /\ UNCHANGED <<events, handed, overlap>> /\ doubt \subseteq doubt'
      /\ queue' = [queue EXCEPT ![l] = {}] /\ cur' = [cur EXCEPT ![l] = None]
      /\ outcome' = [outcome EXCEPT ![l] = None]
      /\ outcome[l] = "sent" => cur[l] \in doubt'
  BY NoneAssumption DEF End, Crash, Forget, Typed, Working, Status
<1>2. \A m \in Loop, f \in Event :
         /\ Holds(m, f)' => Holds(m, f)
         /\ cur'[m] = f => cur[m] = f
         /\ f \in queue'[m] => f \in queue[m]
  BY <1>1, NoneAssumption DEF Holds, Typed, TypeOK, Event
<1>3. HeldIsLive' /\ OnlyLiveIsMailed' /\ Unrecorded'
  BY <1>1, <1>2, EventsDomain DEF Sound, HeldIsLive, OnlyLiveIsMailed, Unrecorded, Typed
<1>4. Once' /\ Sole'
  BY <1>1, <1>2 DEF Sound, Once, Sole, Excused
<1>5. Known'
  <2> SUFFICES ASSUME NEW f \in Event \ Excused', handed[f] > 0
               PROVE  handed[f] = 1 /\ Delivered(f)'
    BY <1>1 DEF Known, Excused
  <2>1. handed[f] = 1 /\ Delivered(f)
    BY <1>1 DEF Sound, Known, Excused
  <2>2. ASSUME NEW m \in Loop, cur[m] = f, outcome[m] = "sent"
        PROVE  cur'[m] = f /\ outcome'[m] = "sent"
    BY <2>2, <1>1 DEF Excused, Typed, TypeOK
  <2> QED
    BY <2>1, <2>2, <1>1, <1>2 DEF Delivered
<1> QED
  BY <1>3, <1>4, <1>5 DEF Sound

LEMMA SurroundingsSound ==
    ASSUME Typed, Sound,
           \/ \E p \in OperatingPhase : SetPhase(p)
           \/ \E e \in Event : Elapse(e)
           \/ NewDay
    PROVE  Sound'
<1>1. /\ UNCHANGED <<handed, doubt, overlap, queue, cur, outcome>>
      /\ DOMAIN events' = DOMAIN events
      /\ \A e \in DOMAIN events :
            /\ events'[e].phase = events[e].phase
            /\ events'[e].status = events[e].status
            /\ events'[e].attempts = events[e].attempts
  BY SurroundingsTyped DEF cycle, delivery
<1>2. \A e \in Event : Delivered(e) => Delivered(e)'
  BY <1>1 DEF Delivered, Holds
<1> QED
  BY <1>1, <1>2 DEF Sound, HeldIsLive, OnlyLiveIsMailed, Once, Sole, Excused, Known, Unrecorded, Holds

LEMMA NextTyped == Typed /\ [Next]_vars => Typed'
<1> SUFFICES ASSUME Typed, [Next]_vars PROVE Typed'
  OBVIOUS
<1>1. ASSUME NEW l \in Loop, Begin(l) PROVE Typed'
  BY <1>1, BeginTyped
<1>2. ASSUME NEW l \in Loop, NextOwed(l) PROVE Typed'
  BY <1>2, NextOwedTyped
<1>3. ASSUME NEW l \in Loop, Persist(l) PROVE Typed'
  BY <1>3, PersistTyped
<1>4. ASSUME NEW l \in Loop, End(l) \/ Crash(l) PROVE Typed'
  BY <1>4, OverTyped
<1>5. ASSUME NEW l \in Loop, Deliver(l) PROVE Typed'
  BY <1>5, CheckTyped, PostTyped, RecordTyped DEF Deliver
<1>6. CASE \/ \E p \in OperatingPhase : SetPhase(p)
           \/ \E e \in Event : Elapse(e)
           \/ NewDay
  BY <1>6, SurroundingsTyped
<1>7. CASE UNCHANGED vars
  BY <1>7 DEF vars, Typed, TypeOK, Working, cycle, delivery
<1> QED
  BY <1>1, <1>2, <1>3, <1>4, <1>5, <1>6, <1>7 DEF Next

LEMMA NextSound == Typed /\ Sound /\ [Next]_vars => Sound'
<1> SUFFICES ASSUME Typed, Sound, [Next]_vars PROVE Sound'
  OBVIOUS
<1>1. ASSUME NEW l \in Loop, Begin(l) PROVE Sound'
  BY <1>1, BeginSound
<1>2. ASSUME NEW l \in Loop, NextOwed(l) PROVE Sound'
  BY <1>2, NextOwedSound
<1>3. ASSUME NEW l \in Loop, Persist(l) PROVE Sound'
  BY <1>3, PersistSound
<1>4. ASSUME NEW l \in Loop, End(l) \/ Crash(l) PROVE Sound'
  BY <1>4, OverSound
<1>5. ASSUME NEW l \in Loop, Deliver(l) PROVE Sound'
  BY <1>5, CheckSound, PostSound, RecordSound DEF Deliver
<1>6. CASE \/ \E p \in OperatingPhase : SetPhase(p)
           \/ \E e \in Event : Elapse(e)
           \/ NewDay
  BY <1>6, SurroundingsSound
<1>7. CASE UNCHANGED vars
  BY <1>7 DEF vars, Sound, HeldIsLive, OnlyLiveIsMailed, Once, Sole, Excused, Known, Unrecorded, Delivered,
              Holds, cycle, delivery
<1> QED
  BY <1>1, <1>2, <1>3, <1>4, <1>5, <1>6, <1>7 DEF Next

(***************************************************************************)
(* Messages whose event the retry listed while FR24 was delivering it      *)
(***************************************************************************)

\* Loop l is about to record that it sent event e's message.
Sure(l, e) == cur[l] = e /\ outcome[l] = "sent"

\* The coverage loop sends no more of event e's message, unless FR24 records something
\* other than "sent" over it.
GridDone(e) ==
    IF Holds(Grid, e) THEN Sure(Grid, e)
    ELSE e \in DOMAIN events /\ events[e].status = "sent"

\* The message went out at most twice; once the coverage loop has sent it, it does so
\* again only after FR24 has recorded that its own delivery failed.
Twice(e) ==
    /\ handed[e] <= 2
    /\ cur[FR24] = e /\ ~Sure(FR24, e) /\ handed[e] > 0 => handed[e] = 1 /\ GridDone(e)
    /\ handed[e] = 2 => GridDone(e) /\ (cur[FR24] = e => Sure(FR24, e))

Bounded == \A e \in Event \ doubt : Twice(e)

\* A step that does not touch the event.
LEMMA SameTwice ==
    ASSUME NEW e \in Event, Twice(e), handed'[e] = handed[e], GridDone(e)' <=> GridDone(e),
           (cur'[FR24] = e) <=> (cur[FR24] = e), Sure(FR24, e)' <=> Sure(FR24, e)
    PROVE  Twice(e)'
BY DEF Twice

\* The coverage loop lists an event only if it is not done with it.
LEMMA BeginBounded == ASSUME Typed, Sound, Bounded, NEW l \in Loop, Begin(l) PROVE Bounded'
<1>1. /\ UNCHANGED <<events, handed, doubt, cur, outcome>> /\ queue[l] = {} /\ cur[l] = None
      /\ \A m \in Loop : queue'[m] = queue[m] \/ (m = l /\ l = Grid /\ queue'[m] = Owed)
  BY DEF Begin, delivery, Typed, TypeOK, Working
<1>2. \A e \in Owed : events[e].status # "sent"
  BY DEF Owed, Retryable
<1> SUFFICES ASSUME NEW e \in Event \ doubt PROVE Twice(e)'
  BY <1>1 DEF Bounded
<1>3. Twice(e) /\ e # None /\ Grid \in Loop /\ FR24 \in Loop
  BY NoneAssumption DEF Bounded, Event, Loop
<1>4. (Sure(FR24, e)' <=> Sure(FR24, e)) /\ cur'[FR24] = cur[FR24] /\ handed'[e] = handed[e]
      /\ (Sure(Grid, e)' <=> Sure(Grid, e))
  BY <1>1 DEF Sure
<1>5. CASE queue'[Grid] = queue[Grid]
  <2>1. GridDone(e)' <=> GridDone(e)
    BY <1>1, <1>4, <1>5 DEF GridDone, Holds
  <2> QED
    BY <1>3, <1>4, <2>1, SameTwice
<1>6. CASE queue'[Grid] = Owed /\ l = Grid
  <2>1. ~Holds(Grid, e)
    BY <1>1, <1>3, <1>6 DEF Holds
  <2>2. CASE e \in Owed
    <3>1. ~GridDone(e)
      BY <1>2, <2>1, <2>2 DEF GridDone
    <3> QED
      BY <1>3, <1>4, <3>1 DEF Twice
  <2>3. CASE e \notin Owed
    <3>1. GridDone(e)' <=> GridDone(e)
      BY <1>1, <1>3, <1>6, <2>1, <2>3 DEF GridDone, Holds
    <3> QED
      BY <1>3, <1>4, <3>1, SameTwice
  <2> QED
    BY <2>2, <2>3
<1> QED
  BY <1>1, <1>3, <1>5, <1>6

LEMMA NextOwedBounded == ASSUME Typed, Sound, Bounded, NEW l \in Loop, NextOwed(l) PROVE Bounded'
<1>1. /\ UNCHANGED <<events, handed, doubt, outcome>>
      /\ pc[l] = "retry" /\ cur[l] = None /\ outcome[l] = None /\ l # FR24
  BY DEF NextOwed, Typed, Working
<1>2. PICK f \in queue[l] : /\ cur' = [cur EXCEPT ![l] = f]
                            /\ queue' = [queue EXCEPT ![l] = @ \ {f}]
  BY DEF NextOwed
<1>3. l = Grid
  BY <1>1 DEF Loop
<1> SUFFICES ASSUME NEW e \in Event \ doubt PROVE Twice(e)'
  BY <1>1 DEF Bounded
<1>4. Twice(e) /\ e # None /\ Grid \in Loop /\ FR24 \in Loop
  BY NoneAssumption DEF Bounded, Event, Loop
<1>5. cur'[FR24] = cur[FR24] /\ (Sure(FR24, e)' <=> Sure(FR24, e))
  BY <1>1, <1>2, <1>4 DEF Sure, Typed, TypeOK
<1>6. (Holds(Grid, e)' <=> Holds(Grid, e)) /\ ~Sure(Grid, e) /\ ~Sure(Grid, e)'
  BY <1>1, <1>2, <1>3, <1>4, NoneAssumption DEF Holds, Sure, Typed, TypeOK, Status
<1>7. GridDone(e)' <=> GridDone(e)
  BY <1>1, <1>6 DEF GridDone
<1> QED
  BY <1>1, <1>4, <1>5, <1>7, SameTwice

LEMMA PersistBounded == ASSUME Typed, Sound, Bounded, NEW l \in Loop, Persist(l) PROVE Bounded'
<1>0. PICK new \in Event : new = Len(events')
  BY PersistTyped
<1>1. /\ UNCHANGED <<handed, doubt, queue, outcome>>
      /\ cur[l] = None /\ outcome[l] = None
      /\ cur' = cur \/ cur' = [cur EXCEPT ![l] = new]
  BY <1>0 DEF Persist, cycle, Typed, Working
<1>2. /\ DOMAIN events' = DOMAIN events \cup {new} /\ new \notin DOMAIN events
      /\ \A e \in DOMAIN events : events'[e] = events[e]
  BY <1>0, PersistTyped
<1>3. handed[new] = 0
  BY <1>2 DEF Sound, Unrecorded
<1> SUFFICES ASSUME NEW e \in Event \ doubt PROVE Twice(e)'
  BY <1>1 DEF Bounded
<1>4. Twice(e) /\ e # None /\ Grid \in Loop /\ FR24 \in Loop
  BY NoneAssumption DEF Bounded, Event, Loop
<1>5. CASE e = new
  BY <1>1, <1>3, <1>5 DEF Twice
<1>6. CASE e # new
  <2>1. \A m \in Loop : ((cur'[m] = e) <=> (cur[m] = e)) /\ (Sure(m, e)' <=> Sure(m, e))
    BY <1>1, <1>4, <1>6 DEF Sure, Typed, TypeOK
  <2>2. GridDone(e)' <=> GridDone(e)
    BY <1>1, <1>2, <1>4, <1>6, <2>1 DEF GridDone, Holds
  <2> QED
    BY <1>1, <1>4, <2>1, <2>2, SameTwice
<1> QED
  BY <1>5, <1>6

LEMMA CheckBounded ==
    ASSUME Typed, Sound, Bounded, NEW l \in Loop, NEW channel \in Channel, Check(l, channel)
    PROVE  Bounded'
<1>1. /\ UNCHANGED <<events, handed, doubt, queue, cur>>
      /\ \A m \in Loop : outcome[m] = "sent" <=> outcome'[m] = "sent"
  BY NoneAssumption DEF Check, Decide, Typed, TypeOK, Working, cycle, Status
<1> SUFFICES ASSUME NEW e \in Event \ doubt PROVE Twice(e)'
  BY <1>1 DEF Bounded
<1>2. Twice(e) /\ Grid \in Loop /\ FR24 \in Loop
  BY DEF Bounded, Loop
<1>3. (Sure(FR24, e)' <=> Sure(FR24, e)) /\ (GridDone(e)' <=> GridDone(e))
  BY <1>1, <1>2 DEF Sure, GridDone, Holds
<1> QED
  BY <1>1, <1>2, <1>3, SameTwice

\* A message accepted and known to be is the first, or the second where the other loop
\* has sent it or is about to fail.
LEMMA PostBounded ==
    ASSUME Typed, Sound, Bounded, NEW l \in Loop, NEW accepted \in BOOLEAN,
           NEW status \in {"sent", "failed"}, Post(l, accepted, status)
    PROVE  Bounded'
<1>0. PICK f \in Event : f = cur[l]
  BY EventsDomain DEF Post, Typed, TypeOK, Working
<1>1. /\ UNCHANGED <<events, queue, cur>> /\ outcome[l] = None
      /\ outcome' = [outcome EXCEPT ![l] = status]
      /\ handed' = IF accepted /\ f \notin doubt THEN [handed EXCEPT ![f] = @ + 1] ELSE handed
      /\ doubt' = IF accepted /\ status # "sent" THEN doubt \cup {f} ELSE doubt
      /\ status = "sent" => accepted
      /\ Holds(l, f)
  BY <1>0 DEF Post, Decide, Typed, TypeOK, Working, cycle, Holds
<1> SUFFICES ASSUME NEW e \in Event \ doubt' PROVE Twice(e)'
  BY DEF Bounded
<1>2. Twice(e) /\ e \notin doubt /\ Grid \in Loop /\ FR24 \in Loop
  BY <1>1 DEF Bounded, Loop
<1>3. \A m \in Loop : ~(m = l /\ e = f) => (Sure(m, e)' <=> Sure(m, e))
  BY <1>0, <1>1 DEF Sure, Typed, TypeOK
<1>4. CASE e # f \/ ~accepted
  <2>1. handed'[e] = handed[e]
    BY <1>1, <1>4 DEF Typed, TypeOK
  <2>2. \A m \in Loop : Sure(m, e)' <=> Sure(m, e)
    BY <1>0, <1>1, <1>3, <1>4, NoneAssumption DEF Sure, Typed, TypeOK, Status
  <2>3. GridDone(e)' <=> GridDone(e)
    BY <1>1, <1>2, <2>2 DEF GridDone, Holds
  <2> QED
    BY <1>1, <1>2, <2>1, <2>2, <2>3, SameTwice
<1>5. CASE e = f /\ accepted
  <2>1. status = "sent" /\ handed'[e] = handed[e] + 1 /\ handed[e] \in Nat
    BY <1>1, <1>2, <1>5 DEF Typed, TypeOK
  <2>2. Sure(l, e)' /\ ~Sure(l, e) /\ Holds(l, e)'
    BY <1>0, <1>1, <1>5, <2>1, NoneAssumption DEF Sure, Holds, Typed, TypeOK, Status
  <2>3. CASE l = Grid
    <3>1. GridDone(e)' /\ ~GridDone(e)
      BY <1>1, <1>5, <2>2, <2>3 DEF GridDone
    <3>2. (Sure(FR24, e)' <=> Sure(FR24, e)) /\ cur'[FR24] = cur[FR24]
      BY <1>1, <1>2, <1>3, <2>3, LoopAssumption
    <3>3. handed[e] <= 1 /\ (cur[FR24] = e /\ ~Sure(FR24, e) => handed[e] = 0)
      BY <1>2, <2>1, <3>1 DEF Twice
    <3> QED
      BY <2>1, <3>1, <3>2, <3>3 DEF Twice
  <2>4. CASE l = FR24
    <3>1. Sure(Grid, e)' <=> Sure(Grid, e)
      BY <1>2, <1>3, <2>4, LoopAssumption
    <3>2. GridDone(e)' <=> GridDone(e)
      BY <1>1, <3>1 DEF GridDone, Holds
    <3>3. handed[e] > 0 => handed[e] = 1 /\ GridDone(e)
      BY <1>0, <1>2, <1>5, <2>2, <2>4 DEF Twice
    <3> QED
      BY <2>1, <2>2, <2>4, <3>2, <3>3 DEF Twice
  <2> QED
    BY <2>3, <2>4 DEF Loop
<1> QED
  BY <1>4, <1>5

LEMMA RecordBounded == ASSUME Typed, Sound, Bounded, NEW l \in Loop, Record(l) PROVE Bounded'
<1>0. PICK f \in Event : f = cur[l]
  BY RecordTyped, EventsDomain DEF Typed
<1>1. /\ UNCHANGED <<handed, doubt, queue>> /\ cur' = [cur EXCEPT ![l] = None]
      /\ outcome' = [outcome EXCEPT ![l] = None] /\ outcome[l] \in Status
      /\ f \in DOMAIN events /\ DOMAIN events' = DOMAIN events
  BY <1>0, RecordTyped DEF Record, cycle
<1>2. \A e \in DOMAIN events :
         /\ e # f => events'[e] = events[e]
         /\ e = f => events'[e].status = outcome[l]
  <2>1. events[f] \in Message /\ tries[l] \in Nat
    BY <1>1, RecordTyped, EventsDomain DEF Typed
  <2>2. \A e \in DOMAIN events :
           events'[e] = IF e = f THEN Recorded(events[f], outcome[l], tries[l]) ELSE events[e]
    BY <1>0, RecordTyped
  <2> QED
    BY <1>1, <2>1, <2>2, RecordedFields
<1> SUFFICES ASSUME NEW e \in Event \ doubt PROVE Twice(e)'
  BY <1>1 DEF Bounded
<1>3. Twice(e) /\ e # None /\ Grid \in Loop /\ FR24 \in Loop
  BY NoneAssumption DEF Bounded, Event, Loop
<1>4. \A m \in Loop \ {l} : cur'[m] = cur[m] /\ (Sure(m, e)' <=> Sure(m, e))
  BY <1>1 DEF Sure, Typed, TypeOK
<1>5. cur'[l] = None /\ ~Sure(l, e)'
  BY <1>1, <1>3 DEF Sure, Typed, TypeOK
<1>6. CASE e # f
  <2>1. \A m \in Loop : ((cur'[m] = e) <=> (cur[m] = e)) /\ (Sure(m, e)' <=> Sure(m, e))
    BY <1>0, <1>3, <1>4, <1>5, <1>6 DEF Sure
  <2>2. GridDone(e)' <=> GridDone(e)
    BY <1>1, <1>2, <1>3, <1>6, <2>1 DEF GridDone, Holds
  <2> QED
    BY <1>1, <1>3, <2>1, <2>2, SameTwice
<1>7. CASE e = f /\ l = Grid
  <2>1. Holds(Grid, e) /\ ~Holds(Grid, e)'
    BY <1>0, <1>1, <1>3, <1>5, <1>7 DEF Holds, Sound, Once
  <2>2. GridDone(e) => GridDone(e)'
    BY <1>0, <1>1, <1>2, <1>7, <2>1 DEF GridDone, Sure
  <2>3. cur'[FR24] = cur[FR24] /\ (Sure(FR24, e)' <=> Sure(FR24, e))
    BY <1>3, <1>4, <1>7, LoopAssumption
  <2> QED
    BY <1>1, <1>3, <2>2, <2>3 DEF Twice
<1>8. CASE e = f /\ l = FR24
  <2>1. cur[FR24] = e /\ cur'[FR24] # e
    BY <1>0, <1>3, <1>5, <1>8
  <2>2. (Holds(Grid, e)' <=> Holds(Grid, e)) /\ (Sure(Grid, e)' <=> Sure(Grid, e))
    BY <1>1, <1>3, <1>4, <1>8, LoopAssumption DEF Holds
  <2>3. Sure(FR24, e) /\ GridDone(e) => GridDone(e)'
    BY <1>1, <1>2, <1>8, <2>2 DEF GridDone, Sure
  <2> QED
    BY <1>1, <1>3, <2>1, <2>3 DEF Twice
<1> QED
  BY <1>6, <1>7, <1>8 DEF Loop

LEMMA OverBounded ==
    ASSUME Typed, Sound, Bounded, NEW l \in Loop, End(l) \/ Crash(l)
    PROVE  Bounded'
<1>1. /\ UNCHANGED <<events, handed>> /\ doubt \subseteq doubt'
      /\ queue' = [queue EXCEPT ![l] = {}] /\ cur' = [cur EXCEPT ![l] = None]
      /\ outcome' = [outcome EXCEPT ![l] = None]
      /\ outcome[l] = "sent" => cur[l] \in doubt'
  BY NoneAssumption DEF End, Crash, Forget, Typed, Working, Status
<1> SUFFICES ASSUME NEW e \in Event \ doubt' PROVE Twice(e)'
  BY DEF Bounded
<1>2. Twice(e) /\ e # None /\ Grid \in Loop /\ FR24 \in Loop
  BY <1>1, NoneAssumption DEF Bounded, Event, Loop
<1>3. \A m \in Loop \ {l} : cur'[m] = cur[m] /\ (Sure(m, e)' <=> Sure(m, e))
                            /\ (Holds(m, e)' <=> Holds(m, e))
  BY <1>1 DEF Sure, Holds, Typed, TypeOK
<1>4. cur'[l] = None /\ ~Sure(l, e) /\ ~Sure(l, e)' /\ ~Holds(l, e)'
  BY <1>1, <1>2 DEF Sure, Holds, Typed, TypeOK
<1>5. CASE l = Grid
  <2>1. cur'[FR24] = cur[FR24] /\ (Sure(FR24, e)' <=> Sure(FR24, e))
    BY <1>2, <1>3, <1>5, LoopAssumption
  <2>2. GridDone(e) => GridDone(e)'
    BY <1>1, <1>4, <1>5 DEF GridDone
  <2> QED
    BY <1>1, <1>2, <2>1, <2>2 DEF Twice
<1>6. CASE l = FR24
  <2>1. GridDone(e)' <=> GridDone(e)
    BY <1>1, <1>2, <1>3, <1>6, LoopAssumption DEF GridDone
  <2> QED
    BY <1>1, <1>2, <1>4, <1>6, <2>1 DEF Twice
<1> QED
  BY <1>5, <1>6 DEF Loop

LEMMA NextBounded == Typed /\ Sound /\ Bounded /\ [Next]_vars => Bounded'
<1> SUFFICES ASSUME Typed, Sound, Bounded, [Next]_vars PROVE Bounded'
  OBVIOUS
<1>1. ASSUME NEW l \in Loop, Begin(l) PROVE Bounded'
  BY <1>1, BeginBounded
<1>2. ASSUME NEW l \in Loop, NextOwed(l) PROVE Bounded'
  BY <1>2, NextOwedBounded
<1>3. ASSUME NEW l \in Loop, Persist(l) PROVE Bounded'
  BY <1>3, PersistBounded
<1>4. ASSUME NEW l \in Loop, End(l) \/ Crash(l) PROVE Bounded'
  BY <1>4, OverBounded
<1>5. ASSUME NEW l \in Loop, Deliver(l) PROVE Bounded'
  BY <1>5, CheckBounded, PostBounded, RecordBounded DEF Deliver
<1>6. CASE \/ (\E p \in OperatingPhase : SetPhase(p))
           \/ (\E e \in Event : Elapse(e))
           \/ NewDay
           \/ UNCHANGED vars
  <2>1. /\ UNCHANGED <<handed, doubt, queue, cur, outcome>>
        /\ DOMAIN events' = DOMAIN events
        /\ \A e \in DOMAIN events : events'[e].status = events[e].status
    BY <1>6, SurroundingsTyped DEF cycle, delivery, vars
  <2>2. \A e \in Event : (GridDone(e)' <=> GridDone(e)) /\ (Sure(FR24, e)' <=> Sure(FR24, e))
    BY <2>1 DEF GridDone, Sure, Holds
  <2> QED
    BY <2>1, <2>2, SameTwice DEF Bounded
<1> QED
  BY <1>1, <1>2, <1>3, <1>4, <1>5, <1>6 DEF Next

LEMMA Invariance == Spec => []IInv
<1>1. IInv /\ [Next]_vars => IInv'
  BY NextTyped, NextSound DEF IInv, Sound
<1> QED
  BY <1>1, InitSound, PTL DEF Spec

(***************************************************************************)
(* The theorems                                                            *)
(***************************************************************************)

\* The state is what the columns and the locals can hold, in every behaviour.
THEOREM DeliveryTypeCorrect == Spec => []TypeOK
<1>1. IInv => TypeOK
  BY DEF IInv, Typed
<1> QED
  BY <1>1, Invariance, PTL

\* An event recorded in Shadow or Review is never mailed, nor tried, whatever the
\* operator does with the phase before or after.
THEOREM OnlyLiveIsMailedCorrect == Spec => []OnlyLiveIsMailed
<1>1. IInv => OnlyLiveIsMailed
  BY DEF IInv
<1> QED
  BY <1>1, Invariance, PTL

\* Unless a timeout or a crash hid that it was accepted, a message goes out once, and
\* at most twice if its event was listed for a retry while the loop that had recorded
\* it was delivering it (_persist, retry_email_queue, update_event_email).
THEOREM NoDuplicateCorrect == Spec => []NoDuplicate
<1>1. Init => Bounded
  <2>1. ASSUME Init, NEW e \in Event PROVE handed[e] = 0
    BY <2>1 DEF Init
  <2> QED
    BY <2>1 DEF Bounded, Twice
<1>2. IInv /\ Bounded /\ [Next]_vars => Bounded'
  BY NextBounded DEF IInv, Sound
<1>3. IInv /\ Bounded => NoDuplicate
  <2> SUFFICES ASSUME IInv, Bounded, NEW e \in Event \ doubt
               PROVE  handed[e] <= IF e \in overlap THEN 2 ELSE 1
    BY DEF NoDuplicate
  <2>1. handed[e] \in Nat
    BY DEF IInv, Typed, TypeOK
  <2>2. CASE e \in overlap
    BY <2>2 DEF Bounded, Twice
  <2>3. CASE e \notin overlap
    BY <2>1, <2>3 DEF IInv, Known, Excused
  <2> QED
    BY <2>2, <2>3
<1> QED
  BY <1>1, <1>2, <1>3, Invariance, PTL DEF Spec

(***************************************************************************)
(* The daily cap                                                           *)
(***************************************************************************)

LEMMA TwoLoops == IsFiniteSet(Loop) /\ Cardinality(Loop) = 2
<1>1. IsFiniteSet({Grid}) /\ Cardinality({Grid}) = 1
  BY FS_Singleton
<1>2. FR24 \notin {Grid} /\ Loop = {Grid} \cup {FR24}
  BY LoopAssumption DEF Loop
<1>3. /\ IsFiniteSet({Grid} \cup {FR24})
      /\ Cardinality({Grid} \cup {FR24}) = Cardinality({Grid}) + 1
  BY <1>1, <1>2, FS_AddElement
<1> QED
  BY <1>1, <1>2, <1>3

\* Sets of events and sets of loops are finite, and a subset is no larger.
LEMMA EventsCounted ==
    ASSUME NEW S \in SUBSET Event, NEW T \in SUBSET S
    PROVE  /\ IsFiniteSet(S) /\ Cardinality(S) \in Nat
           /\ Cardinality(T) \in Nat /\ Cardinality(T) <= Cardinality(S)
<1>1. 1 \in Int /\ MaxEvents \in Int
  BY BoundsAssumption
<1>2. IsFiniteSet(Event)
  BY <1>1, FS_Interval DEF Event
<1>3. IsFiniteSet(S)
  BY <1>2, FS_Subset
<1>4. IsFiniteSet(T) /\ Cardinality(T) <= Cardinality(S)
  BY <1>3, FS_Subset
<1> QED
  BY <1>3, <1>4, FS_CardinalityType

LEMMA LoopsCounted ==
    ASSUME NEW S \in SUBSET Loop, NEW T \in SUBSET S
    PROVE  /\ IsFiniteSet(S) /\ Cardinality(S) \in 0..2
           /\ Cardinality(T) \in 0..2 /\ Cardinality(T) <= Cardinality(S)
<1>1. IsFiniteSet(S) /\ Cardinality(S) <= 2
  BY TwoLoops, FS_Subset
<1>2. IsFiniteSet(T) /\ Cardinality(T) <= Cardinality(S)
  BY <1>1, FS_Subset
<1>3. Cardinality(S) \in Nat /\ Cardinality(T) \in Nat
  BY <1>1, <1>2, FS_CardinalityType
<1> QED
  BY <1>1, <1>2, <1>3

LEMMA Counted == TypeOK => SentToday \subseteq Event /\ OnItsWay \subseteq Loop
  BY EventsDomain DEF SentToday, OnItsWay

\* A step that counts nothing and sends nothing off.
LEMMA NoMore ==
    ASSUME TypeOK, CapOvershoot,
           SentToday' \subseteq SentToday, OnItsWay' \subseteq OnItsWay
    PROVE  CapOvershoot'
<1>1. /\ Cardinality(SentToday) \in Nat /\ Cardinality(SentToday') \in Nat
      /\ Cardinality(SentToday') <= Cardinality(SentToday)
  BY Counted, EventsCounted
<1>2. /\ Cardinality(OnItsWay) \in Nat /\ Cardinality(OnItsWay') \in Nat
      /\ Cardinality(OnItsWay') <= Cardinality(OnItsWay)
  BY Counted, LoopsCounted
<1> QED
  BY <1>1, <1>2, BoundsAssumption DEF CapOvershoot

LEMMA StepOvershoot == Typed /\ CapOvershoot /\ [Next]_vars => CapOvershoot'
<1> SUFFICES ASSUME Typed, CapOvershoot, [Next]_vars PROVE CapOvershoot'
  OBVIOUS
<1>1. ASSUME NEW l \in Loop, Begin(l) PROVE CapOvershoot'
  <2>1. SentToday' = SentToday
    BY <1>1 DEF Begin, SentToday
  <2>2. OnItsWay' \subseteq OnItsWay
    BY <1>1 DEF Begin, Goto, delivery, OnItsWay, Typed, TypeOK
  <2> QED
    BY <2>1, <2>2, NoMore DEF Typed
<1>2. ASSUME NEW l \in Loop, NextOwed(l) PROVE CapOvershoot'
  <2>1. SentToday' = SentToday
    BY <1>2 DEF NextOwed, SentToday
  <2>2. OnItsWay' \subseteq OnItsWay
    BY <1>2 DEF NextOwed, Goto, OnItsWay, Typed, TypeOK
  <2> QED
    BY <2>1, <2>2, NoMore DEF Typed
<1>3. ASSUME NEW l \in Loop, Persist(l) PROVE CapOvershoot'
  <2>1. SentToday' \subseteq SentToday
    <3> DEFINE message == [phase |-> began[l], status |-> MailStatus(began[l]),
                           attempts |-> 0, due |-> TRUE, today |-> FALSE]
    <3>1. message \in Message /\ ~message.today
      BY <1>3, PhaseAssumption DEF Typed, TypeOK, Working, Persist, Message, MailStatus, Status
    <3>2. /\ DOMAIN events' = DOMAIN events \cup {Len(events')}
          /\ events'[Len(events')] = message
          /\ \A e \in DOMAIN events : events'[e] = events[e]
      BY <1>3, <3>1, AppendedTyped DEF Typed, Persist
    <3> HIDE DEF message
    <3> QED
      BY <3>1, <3>2 DEF SentToday
  <2>2. OnItsWay' \subseteq OnItsWay
    BY <1>3 DEF Persist, Goto, OnItsWay, Typed, TypeOK
  <2> QED
    BY <2>1, <2>2, NoMore DEF Typed
<1>4. ASSUME NEW l \in Loop, End(l) \/ Crash(l) PROVE CapOvershoot'
  <2>1. SentToday' = SentToday
    BY <1>4 DEF End, Crash, SentToday
  <2>2. OnItsWay' \subseteq OnItsWay
    BY <1>4 DEF End, Crash, Forget, Goto, OnItsWay, Typed, TypeOK
  <2> QED
    BY <2>1, <2>2, NoMore DEF Typed
<1>5. ASSUME NEW l \in Loop, NEW channel \in Channel, Check(l, channel) PROVE CapOvershoot'
  <2>1. SentToday' = SentToday
    BY <1>5 DEF Check, SentToday
  <2>2. CASE CapReached \/ channel # "working"
    <3>1. OnItsWay' \subseteq OnItsWay
      BY <1>5, <2>2 DEF Check, Decide, Goto, OnItsWay, Typed, TypeOK, cycle
    <3> QED
      BY <2>1, <3>1, NoMore DEF Typed
  <2>3. CASE ~CapReached
    <3>1. Cardinality(SentToday) \in Nat /\ Cardinality(SentToday) <= DailyCap - 1
      BY <2>3, Counted, EventsCounted, BoundsAssumption DEF CapReached, Typed
    <3>2. Cardinality(OnItsWay') \in 0..2
      BY LoopsCounted DEF OnItsWay
    <3> QED
      BY <2>1, <3>1, <3>2, BoundsAssumption DEF CapOvershoot
  <2> QED
    BY <2>2, <2>3
<1>6. ASSUME NEW l \in Loop, NEW accepted \in BOOLEAN, NEW status \in {"sent", "failed"},
             Post(l, accepted, status)
      PROVE  CapOvershoot'
  <2>1. SentToday' = SentToday
    BY <1>6 DEF Post, SentToday
  <2>2. OnItsWay' \subseteq OnItsWay
    BY <1>6 DEF Post, Decide, Goto, OnItsWay, Typed, TypeOK
  <2> QED
    BY <2>1, <2>2, NoMore DEF Typed
<1>7. ASSUME NEW l \in Loop, Record(l) PROVE CapOvershoot'
  <2>1. /\ cur[l] \in DOMAIN events /\ DOMAIN events' = DOMAIN events
        /\ events'[cur[l]].status = outcome[l]
        /\ \A e \in DOMAIN events : e # cur[l] => events'[e] = events[e]
    BY <1>7, RecordTyped, EventsDomain, RecordedFields DEF Typed
  <2>2. OnItsWay' \subseteq OnItsWay \ {l}
    BY <1>7, NoneAssumption DEF Record, Goto, OnItsWay, Typed, TypeOK, Label
  <2>3. CASE outcome[l] # "sent"
    <3>1. SentToday' \subseteq SentToday
      BY <2>1, <2>3 DEF SentToday
    <3> QED
      BY <2>2, <3>1, NoMore DEF Typed
  <2>4. CASE outcome[l] = "sent"
    <3>1. SentToday' \subseteq SentToday \cup {cur[l]}
      BY <2>1 DEF SentToday
    <3>2. /\ Cardinality(SentToday) \in Nat
          /\ Cardinality(SentToday \cup {cur[l]}) <= Cardinality(SentToday) + 1
      <4>1. IsFiniteSet(SentToday) /\ Cardinality(SentToday) \in Nat
        BY Counted, EventsCounted DEF Typed
      <4> QED
        BY <4>1, FS_AddElement
    <3>3. SentToday \cup {cur[l]} \in SUBSET Event
      BY <2>1, Counted, EventsDomain DEF Typed
    <3>4. /\ Cardinality(SentToday') \in Nat
          /\ Cardinality(SentToday') <= Cardinality(SentToday) + 1
      <4>1. /\ Cardinality(SentToday \cup {cur[l]}) \in Nat
            /\ Cardinality(SentToday') \in Nat
            /\ Cardinality(SentToday') <= Cardinality(SentToday \cup {cur[l]})
        BY <3>1, <3>3, EventsCounted
      <4> QED
        BY <3>2, <4>1
    <3>5. l \in OnItsWay
      BY <1>7, <2>4 DEF Record, OnItsWay
    <3>6. /\ IsFiniteSet(OnItsWay) /\ Cardinality(OnItsWay) \in 0..2
          /\ Cardinality(OnItsWay \ {l}) = Cardinality(OnItsWay) - 1
      <4>1. IsFiniteSet(OnItsWay) /\ Cardinality(OnItsWay) \in 0..2
        BY Counted, LoopsCounted DEF Typed
      <4> QED
        BY <3>5, <4>1, FS_RemoveElement
    <3>7. /\ Cardinality(OnItsWay') \in 0..2
          /\ Cardinality(OnItsWay') <= Cardinality(OnItsWay \ {l})
      <4>1. OnItsWay \ {l} \in SUBSET Loop
        BY Counted DEF Typed
      <4> QED
        BY <2>2, <4>1, LoopsCounted
    <3> QED
      BY <3>2, <3>4, <3>6, <3>7, BoundsAssumption DEF CapOvershoot
  <2> QED
    BY <2>3, <2>4
<1>8. CASE \/ \E p \in OperatingPhase : SetPhase(p)
           \/ \E e \in Event : Elapse(e)
           \/ NewDay
  <2>1. SentToday' \subseteq SentToday /\ OnItsWay' = OnItsWay
    BY <1>8, SurroundingsTyped DEF SentToday, OnItsWay, delivery
  <2> QED
    BY <2>1, NoMore DEF Typed
<1>9. CASE UNCHANGED vars
  BY <1>9 DEF vars, CapOvershoot, SentToday, OnItsWay, delivery
<1> QED
  BY <1>1, <1>2, <1>3, <1>4, <1>5, <1>6, <1>7, <1>8, <1>9 DEF Next, Deliver

\* The daily cap is passed by one message at most, for any cap: the one the other
\* loop had on its way.  That there are two loops is what the bound is about.
THEOREM CapOvershootCorrect == Spec => []CapOvershoot
<1>1. Init => Typed /\ CapOvershoot
  <2> SUFFICES ASSUME Init PROVE Typed /\ CapOvershoot
    OBVIOUS
  <2>1. Typed
    BY InitSound DEF IInv
  <2>2. SentToday = {} /\ OnItsWay = {}
    BY DEF Init, SentToday, OnItsWay
  <2> QED
    BY <2>1, <2>2, FS_EmptySet, BoundsAssumption DEF CapOvershoot
<1> QED
  BY <1>1, NextTyped, StepOvershoot, PTL DEF Spec
=============================================================================
