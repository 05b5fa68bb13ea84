---------------------------- MODULE AtomicWrites ----------------------------
(***************************************************************************)
(* What cas_upsert_state (app/database.py) promises its callers: however   *)
(* many transactions a call takes and whoever comes in between, the call   *)
(* counts as one write at one instant, or as none.  The revision of a row  *)
(* counts the writes since it appeared.  (When it may count as none is     *)
(* NoSilentDrop of AircraftState; what it may replace is NeverStaler.)     *)
(***************************************************************************)
EXTENDS Integers

CONSTANTS Hex, Writers, Times, Value, Closed, NoRow, NoPayload

VARIABLES
    table,      \* table[h]: the row of aircraft h, or NoRow
    call        \* call[w]: the aircraft and payload of w's call, or NoPayload

vars == <<table, call>>

Payload == [seen : Times, val : Value]
Call == [hex : Hex, pay : Payload]

Init ==
    /\ table \in [Hex -> {NoRow} \cup [seq : {0}, seen : Times, val : Value]]
    /\ call = [w \in Writers |-> NoPayload]

Exists(h) == table[h] # NoRow

Submit(w, c) ==
    /\ call[w] = NoPayload
    /\ call' = [call EXCEPT ![w] = c]
    /\ UNCHANGED table

Return(w) ==
    /\ call[w] # NoPayload
    /\ call' = [call EXCEPT ![w] = NoPayload]

\* The row of h becomes p, one revision on; a new row may start at any revision
\* but that of a migrated one.
Written(h, p) ==
    /\ table'[h] # NoRow
    /\ table'[h].seen = p.seen /\ table'[h].val = p.val
    /\ IF Exists(h) THEN table'[h].seq = table[h].seq + 1 ELSE table'[h].seq > 0
    /\ table' = [table EXCEPT ![h] = table'[h]]

Write(w) ==
    /\ Return(w)
    /\ Written(call[w].hex, call[w].pay)

\* Something as fresh already stands, or the process died.
Leave(w) == Return(w) /\ UNCHANGED table

\* cleanup_stale_states.
Delete(h) ==
    /\ Exists(h) /\ table[h].val \in Closed
    /\ table' = [table EXCEPT ![h] = NoRow]
    /\ UNCHANGED call

Next ==
    \/ \E w \in Writers :
          \/ \E c \in Call : Submit(w, c)
          \/ Write(w) \/ Leave(w)
    \/ \E h \in Hex : Delete(h)

Spec == Init /\ [][Next]_vars

=============================================================================
