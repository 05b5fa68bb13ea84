--------------------------- MODULE AircraftState ---------------------------
(***************************************************************************)
(* The aircraft_state table and the optimistic write funnel                *)
(* cas_upsert_state (app/database.py) every detection writer goes through. *)
(*                                                                         *)
(* Writers are the polling loops: the free-provider coverage cycle (server *)
(* or command line) and the FR24 cycle.  A writer reads a row, decides on  *)
(* a payload, and hands it to the funnel, which issues one SQL transaction *)
(* after another; the steps below are those transactions, so the writers   *)
(* interleave between any two of them, as two processes do.                *)
(*                                                                         *)
(* A row keeps what the funnel looks at: its revision updated_seq, its     *)
(* last_seen_at, and one abstract value for the remaining columns.         *)
(***************************************************************************)
EXTENDS Integers

CONSTANTS
    Hex,        \* aircraft_hex keys
    Writers,    \* concurrent detection loops
    Times,      \* last_seen_at values
    Value,      \* contents of the remaining columns
    Closed,     \* the contents whose area_ids_json is '[]'
    NoRow,      \* no row under this key
    NoPayload,  \* no call in progress
    NoSeq,      \* the payload carries no updated_seq
    MaxSeq      \* bound: no read and no cleanup of a row from this revision on

Row == [seq : Nat, seen : Times, val : Value]
Payload == [seen : Times, val : Value]

ASSUME TimesAssumption == Times \subseteq Nat
ASSUME ClosedAssumption == Closed \subseteq Value
ASSUME NoRowAssumption == NoRow \notin Row
ASSUME NoPayloadAssumption ==
    NoPayload \notin Payload /\ NoPayload \notin [hex : Hex, pay : Payload]
ASSUME NoSeqAssumption == NoSeq \notin Nat
ASSUME MaxSeqAssumption == MaxSeq \in Nat

VARIABLES
    table,      \* table[h]: the committed row of aircraft h, or NoRow
    pc,         \* pc[w]: where writer w stands in its call
    at,         \* at[w]: the aircraft w works on
    snap,       \* snap[w]: the row image w read last (previous / committed)
    pay,        \* pay[w]: the payload handed to the funnel
    exp,        \* exp[w]: the updated_seq the payload carries, or NoSeq
    orphan      \* history: the row w works on was deleted after w read it

vars == <<table, pc, at, snap, pay, exp, orphan>>

Phase == {"idle", "read", "first", "resolve", "second", "insert",
          "reread", "fallback"}

TypeOK ==
    /\ table \in [Hex -> Row \cup {NoRow}]
    /\ pc \in [Writers -> Phase]
    /\ at \in [Writers -> Hex]
    /\ snap \in [Writers -> Row \cup {NoRow}]
    /\ pay \in [Writers -> Payload \cup {NoPayload}]
    /\ exp \in [Writers -> Nat \cup {NoSeq}]
    /\ orphan \in [Writers -> BOOLEAN]

\* A fresh volume has no rows; a migrated one has rows backfilled to revision 0.
Init ==
    /\ table \in [Hex -> {NoRow} \cup [seq : {0}, seen : Times, val : Value]]
    /\ pc = [w \in Writers |-> "idle"]
    /\ at \in [Writers -> Hex]
    /\ snap = [w \in Writers |-> NoRow]
    /\ pay = [w \in Writers |-> NoPayload]
    /\ exp = [w \in Writers |-> NoSeq]
    /\ orphan = [w \in Writers |-> FALSE]

Exists(h) == table[h] # NoRow

Goto(w, label) ==
    /\ pc' = [pc EXCEPT ![w] = label]
    /\ UNCHANGED <<at, snap, pay, exp, orphan>>

\* The call returns and its locals go with it.
Return(w) ==
    /\ pc' = [pc EXCEPT ![w] = "idle"]
    /\ snap' = [snap EXCEPT ![w] = NoRow]
    /\ pay' = [pay EXCEPT ![w] = NoPayload]
    /\ exp' = [exp EXCEPT ![w] = NoSeq]
    /\ orphan' = [orphan EXCEPT ![w] = FALSE]
    /\ UNCHANGED at

\* Mutation: the retry forgets to compare timestamps.
AlwaysNewer(incoming, committed) == TRUE

\* Strictly fresher; the committed row wins on equality.
NewerThan(incoming, committed) == incoming > committed

(***************************************************************************)
(* The callers                                                             *)
(***************************************************************************)

\* get_state in process_observation; for process_missing, the image of the row
\* in the active_states() snapshot it walks through.
Read(w, h) ==
    /\ pc[w] = "idle"
    /\ Exists(h) => table[h].seq < MaxSeq
    /\ pc' = [pc EXCEPT ![w] = "read"]
    /\ at' = [at EXCEPT ![w] = h]
    /\ snap' = [snap EXCEPT ![w] = table[h]]
    /\ UNCHANGED <<table, pay, exp, orphan>>

Submit(w, p, seq) ==
    /\ pc[w] = "read"
    /\ pc' = [pc EXCEPT ![w] = "first"]
    /\ pay' = [pay EXCEPT ![w] = p]
    /\ exp' = [exp EXCEPT ![w] = seq]
    /\ UNCHANGED <<table, at, snap, orphan>>

\* process_observation goes on only with a position newer than the row it read.
\* Its update branches write that row back, its updated_seq included ...
SubmitUpdate(w, p) ==
    /\ snap[w] # NoRow
    /\ p.seen > snap[w].seen
    /\ snap[w].val \in Closed => p.val \in Closed
    /\ Submit(w, p, snap[w].seq)

\* ... while a new episode is a record built from nothing, with no updated_seq,
\* whether or not a closed row of the aircraft is already there.
SubmitNew(w, p) ==
    /\ snap[w] # NoRow => p.seen > snap[w].seen /\ snap[w].val \in Closed
    /\ p.val \notin Closed
    /\ Submit(w, p, NoSeq)

\* process_missing counts a missed cycle: the last_seen_at it read goes back
\* unchanged, and rows with no areas are skipped before they are written.
SubmitMissing(w, p) ==
    /\ snap[w] # NoRow
    /\ snap[w].val \notin Closed
    /\ p.seen = snap[w].seen
    /\ p.val \notin Closed
    /\ Submit(w, p, snap[w].seq)

\* Stale position, nothing to track, or a skipped row: the caller writes nothing.
SkipWrite(w) ==
    /\ pc[w] = "read"
    /\ Return(w)
    /\ UNCHANGED table

(***************************************************************************)
(* The funnel, one transaction at a time                                   *)
(***************************************************************************)

\* Mutation: the column list of a write misses last_seen_at.
StoredWithoutSeen(p, n) == [seq |-> n, val |-> p.val]

Stored(p, n) == [seq |-> n, seen |-> p.seen, val |-> p.val]

Land(w, n) ==
    /\ table' = [table EXCEPT ![at[w]] = Stored(pay[w], n)]
    /\ Return(w)

Miss(w, lost) == Goto(w, lost) /\ UNCHANGED table

\* INSERT ... ON CONFLICT DO NOTHING: a new row starts at revision 1.
InsertAbsent(w, lost) ==
    \/ ~Exists(at[w]) /\ Land(w, 1)
    \/ Exists(at[w]) /\ Miss(w, lost)

GuardPasses(w, seq) == Exists(at[w]) /\ table[at[w]].seq = seq

\* UPDATE ... WHERE updated_seq = ?: lands only on the expected revision.
CasUpdate(w, seq, lost) ==
    \/ GuardPasses(w, seq) /\ Land(w, seq + 1)
    \/ ~GuardPasses(w, seq) /\ Miss(w, lost)

FirstAttempt(w) ==
    /\ pc[w] = "first"
    /\ \/ exp[w] = NoSeq /\ InsertAbsent(w, "resolve")
       \/ exp[w] # NoSeq /\ CasUpdate(w, exp[w], "resolve")

\* get_state into `committed`.
ReadBack(w, label) ==
    /\ pc' = [pc EXCEPT ![w] = label]
    /\ snap' = [snap EXCEPT ![w] = table[at[w]]]
    /\ orphan' = [orphan EXCEPT ![w] = FALSE]
    /\ UNCHANGED <<table, at, pay, exp>>

\* Mutation: a lost race ends the call, however fresh its payload.
ResolveGivesUp(w) ==
    /\ pc[w] = "resolve"
    /\ Return(w)
    /\ UNCHANGED table

\* Lost the first race: re-read, and retry only a strictly fresher payload.
Resolve(w) ==
    /\ pc[w] = "resolve"
    /\ \/ ~Exists(at[w]) /\ ReadBack(w, "insert")
       \/ /\ Exists(at[w]) /\ NewerThan(pay[w].seen, table[at[w]].seen)
          /\ ReadBack(w, "second")
       \/ /\ Exists(at[w]) /\ ~NewerThan(pay[w].seen, table[at[w]].seen)
          /\ Return(w) /\ UNCHANGED table

SecondAttempt(w) ==
    /\ pc[w] = "second"
    /\ CasUpdate(w, snap[w].seq, "reread")

\* The row vanished between the read and the retry.
InsertAttempt(w) ==
    /\ pc[w] = "insert"
    /\ InsertAbsent(w, "reread")

\* Mutation: the optimistic loop has no last resort.
RereadForever(w) ==
    /\ pc[w] = "reread"
    /\ ReadBack(w, IF Exists(at[w]) THEN "second" ELSE "insert")

\* Second conflict: read the revision once more, then overwrite.
Reread(w) ==
    /\ pc[w] = "reread"
    /\ ReadBack(w, "fallback")

CurrentSeq(w) == IF snap[w] = NoRow THEN 0 ELSE snap[w].seq

\* Mutation: the upsert stamps the revision re-read before it, not the live one.
FallbackStamped(w) ==
    /\ pc[w] = "fallback"
    /\ Land(w, 1 + CurrentSeq(w))

\* The warned, unconditional upsert: on conflict it advances the live revision.
Fallback(w) ==
    /\ pc[w] = "fallback"
    /\ Land(w, 1 + (IF Exists(at[w]) THEN table[at[w]].seq ELSE CurrentSeq(w)))

(***************************************************************************)
(* The surroundings                                                        *)
(***************************************************************************)

\* The process dies, or a transaction raises and the cycle is abandoned.
Abort(w) ==
    /\ pc[w] # "idle"
    /\ Return(w)
    /\ UNCHANGED table

\* cleanup_stale_states: rows outside every area and past their retention.
Cleanup(h) ==
    /\ Exists(h)
    /\ table[h].val \in Closed
    /\ table[h].seq < MaxSeq
    /\ table' = [table EXCEPT ![h] = NoRow]
    /\ orphan' = [w \in Writers |-> orphan[w] \/ (at[w] = h /\ pc[w] # "idle")]
    /\ UNCHANGED <<pc, at, snap, pay, exp>>

Caller(w) ==
    \/ \E h \in Hex : Read(w, h)
    \/ \E p \in Payload :
          SubmitUpdate(w, p) \/ SubmitNew(w, p) \/ SubmitMissing(w, p)
    \/ SkipWrite(w)

Funnel(w) ==
    \/ FirstAttempt(w)
    \/ Resolve(w)
    \/ SecondAttempt(w)
    \/ InsertAttempt(w)
    \/ Reread(w)
    \/ Fallback(w)

Next ==
    \/ \E w \in Writers : Caller(w) \/ Funnel(w) \/ Abort(w)
    \/ \E h \in Hex : Cleanup(h)

Spec == Init /\ [][Next]_vars

\* A writer inside the funnel runs on: it awaits nothing between transactions.
FairSpec == Spec /\ \A w \in Writers : WF_vars(Funnel(w))

(***************************************************************************)
(* Properties                                                              *)
(***************************************************************************)

\* The call of w as its caller sees it: from the payload handed over to the return.
CallOf(w) ==
    IF pc[w] \in {"idle", "read"} THEN NoPayload ELSE [hex |-> at[w], pay |-> pay[w]]

Atomic == INSTANCE AtomicWrites WITH call <- [w \in Writers |-> CallOf(w)]

\* "One warned, atomic last-writer-wins upsert -- never a deadlock, never a silent
\* drop" (cas_upsert_state), and the two conditional attempts before it: a call takes
\* effect at one instant or not at all, never twice, and each write of a row, also
\* the last resort over a revision nobody expected, advances its revision by one.
WritesAreAtomic == Atomic!Spec

\* While a writer holds a row image and that row was not deleted, the row is at
\* the same revision only if it is the very row the writer read: a conditional
\* update that lands overwrites nothing its caller did not see
\* (_cas_update_aircraft_state).
GuardSeesOwnRevision ==
    \A w \in Writers :
        (pc[w] \in {"read", "first", "second"} /\ snap[w] # NoRow /\ ~orphan[w]
            /\ GuardPasses(w, snap[w].seq))
        => table[at[w]] = snap[w]

\* A write of row h in this step is the warned last-writer-wins upsert, or comes
\* from a writer whose row was deleted behind its back.
Excused(h) ==
    \E w \in Writers :
        /\ at[w] = h
        /\ pc[w] = "fallback" \/ orphan[w]
        /\ pc[w] # "idle" /\ pc'[w] = "idle"

\* A row never goes back to an older last_seen_at: neither a stale
\* process_missing snapshot nor a delayed observation is restored over a
\* fresher one, except through the warned fallback (cas_upsert_state).
NeverStaler ==
    [][\A h \in Hex :
          table[h] # NoRow /\ table'[h] # NoRow
          => table'[h].seen >= table[h].seen \/ Excused(h)]_vars

\* "Never a silent drop" (cas_upsert_state): a call that runs to its end leaves
\* a committed row at least as fresh as the payload it was given, whoever wrote
\* that row.
NoSilentDrop ==
    [][\A w \in Writers :
          Funnel(w) /\ pc'[w] = "idle"
          => /\ table'[at[w]] # NoRow
             /\ table'[at[w]].seen >= pay[w].seen]_vars

\* Every funnel call ends: the retries are bounded ("never a deadlock",
\* cas_upsert_state).
FunnelEnds ==
    \A w \in Writers : pc[w] \notin {"idle", "read"} ~> pc[w] = "idle"

=============================================================================
