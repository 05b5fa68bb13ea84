------------------------ MODULE AircraftStateProofs ------------------------
(***************************************************************************)
(* The write funnel is correct for every set of writers, keys, times and   *)
(* contents: its type, the meaning of its guard, and the two promises of   *)
(* its docstring about stale and about dropped writes.                     *)
(***************************************************************************)
EXTENDS AircraftState, TLAPS

\* A writer that will compare revisions still knows the row: while the row was
\* not deleted it can only have moved on to later revisions, and at the same
\* revision it is the row image the writer holds.
HeldRow(w) ==
    pc[w] \in {"read", "first", "second"} /\ snap[w] # NoRow /\ ~orphan[w]
    => /\ table[at[w]] # NoRow
       /\ table[at[w]].seq >= snap[w].seq
       /\ table[at[w]].seq = snap[w].seq => table[at[w]] = snap[w]

\* What the callers put into a payload, until the attempt that uses it.
SubmittedPayload(w) ==
    /\ pc[w] \notin {"idle", "read"} => pay[w] \in Payload
    /\ pc[w] = "first" /\ exp[w] # NoSeq
       => snap[w] # NoRow /\ exp[w] = snap[w].seq /\ pay[w].seen >= snap[w].seen
    /\ pc[w] = "second" => snap[w] # NoRow /\ pay[w].seen > snap[w].seen

IInv ==
    /\ TypeOK
    /\ \A w \in Writers : HeldRow(w)
    /\ \A w \in Writers : SubmittedPayload(w)

\* A write of the payload of w at revision n keeps rows well formed.
LEMMA LandType ==
    ASSUME TypeOK, NEW w \in Writers, NEW n \in Nat,
           pay[w] \in Payload, Land(w, n)
    PROVE  /\ TypeOK'
           /\ table' \in [Hex -> Row \cup {NoRow}]
           /\ table'[at[w]] = Stored(pay[w], n)
           /\ Stored(pay[w], n) \in Row
           /\ \A h \in Hex \ {at[w]} : table'[h] = table[h]
<1>1. Stored(pay[w], n) \in Row
  BY DEF Stored, Payload, Row
<1>2. at[w] \in Hex
  BY DEF TypeOK
<1>3. table' = [table EXCEPT ![at[w]] = Stored(pay[w], n)]
  BY DEF Land
<1>4. table' \in [Hex -> Row \cup {NoRow}]
  BY <1>1, <1>2, <1>3 DEF TypeOK
<1>5. TypeOK'
  BY <1>4 DEF TypeOK, Land, Return, Phase
<1> QED
  BY <1>1, <1>2, <1>3, <1>4, <1>5 DEF TypeOK

\* TypeOK holds initially and so do the two parts of the strengthening.
LEMMA InitInv == Init => IInv
<1> SUFFICES ASSUME Init PROVE IInv
  OBVIOUS
<1>1. TypeOK
  BY DEF Init, TypeOK, Phase, Row
<1>2. \A w \in Writers : HeldRow(w) /\ SubmittedPayload(w)
  BY DEF Init, HeldRow, SubmittedPayload
<1> QED
  BY <1>1, <1>2 DEF IInv

\* Landing the payload of w at a revision beyond the live one (or anywhere, when
\* there is no row) invalidates no image another writer holds.
LEMMA LandInv ==
    ASSUME IInv, NEW w \in Writers, NEW n \in Nat, pay[w] \in Payload,
           Land(w, n), table[at[w]] # NoRow => n > table[at[w]].seq
    PROVE  IInv'
<1>1. /\ TypeOK'
      /\ table'[at[w]] = Stored(pay[w], n)
      /\ Stored(pay[w], n) \in Row
      /\ \A h \in Hex \ {at[w]} : table'[h] = table[h]
  BY LandType DEF IInv
<1>2. Stored(pay[w], n).seq = n /\ Stored(pay[w], n) # NoRow
  BY <1>1, NoRowAssumption DEF Stored
<1>3. ASSUME NEW v \in Writers PROVE HeldRow(v)' /\ SubmittedPayload(v)'
  <2>1. CASE v = w
    BY <2>1 DEF Land, Return, IInv, TypeOK, HeldRow, SubmittedPayload
  <2>2. CASE v # w
    <3>1. /\ pc'[v] = pc[v] /\ at'[v] = at[v] /\ snap'[v] = snap[v]
          /\ pay'[v] = pay[v] /\ exp'[v] = exp[v] /\ orphan'[v] = orphan[v]
      BY <2>2 DEF Land, Return, IInv, TypeOK
    <3>2. SubmittedPayload(v)'
      BY <3>1 DEF IInv, SubmittedPayload
    <3>3. HeldRow(v)'
      <4>1. CASE at[v] = at[w]
        <5>1. HeldRow(v)
          BY DEF IInv
        <5>2. snap[v] # NoRow => snap[v].seq \in Nat
          BY DEF IInv, TypeOK, Row
        <5>3. table[at[w]] # NoRow => table[at[w]].seq \in Nat
          BY DEF IInv, TypeOK, Row
        <5> QED
          BY <1>1, <1>2, <3>1, <4>1, <5>1, <5>2, <5>3 DEF HeldRow
      <4>2. CASE at[v] # at[w]
        BY <1>1, <3>1, <4>2 DEF IInv, TypeOK, HeldRow
      <4> QED
        BY <4>1, <4>2
    <3> QED
      BY <3>2, <3>3
  <2> QED
    BY <2>1, <2>2
<1> QED
  BY <1>1, <1>3 DEF IInv

\* A step that leaves the table alone and ends the call of w keeps everything.
LEMMA ReturnInv ==
    ASSUME IInv, NEW w \in Writers, Return(w), UNCHANGED table
    PROVE  IInv'
<1>1. TypeOK'
  BY DEF IInv, TypeOK, Return, Phase
<1>2. \A v \in Writers : HeldRow(v)' /\ SubmittedPayload(v)'
  BY DEF IInv, TypeOK, Return, HeldRow, SubmittedPayload
<1> QED
  BY <1>1, <1>2 DEF IInv

\* A step of w to a label where no revision is held keeps everything.
LEMMA GotoInv ==
    ASSUME IInv, NEW w \in Writers, NEW label \in Phase, Goto(w, label),
           label \in {"resolve", "reread"}, pay[w] \in Payload, UNCHANGED table
    PROVE  IInv'
<1>1. TypeOK'
  BY DEF IInv, TypeOK, Goto
<1>2. \A v \in Writers : HeldRow(v)' /\ SubmittedPayload(v)'
  BY DEF IInv, TypeOK, Goto, HeldRow, SubmittedPayload
<1> QED
  BY <1>1, <1>2 DEF IInv

\* A conditional update keeps everything, landed or not.
LEMMA CasInv ==
    ASSUME IInv, NEW w \in Writers, NEW seq \in Nat, NEW label \in {"resolve", "reread"},
           pay[w] \in Payload, CasUpdate(w, seq, label)
    PROVE  IInv'
<1>1. CASE GuardPasses(w, seq) /\ Land(w, seq + 1)
  <2>1. seq + 1 \in Nat /\ seq + 1 > table[at[w]].seq
    BY <1>1 DEF GuardPasses
  <2> QED
    BY <1>1, <2>1, LandInv
<1>2. CASE Miss(w, label)
  BY <1>2, GotoInv DEF Miss, Phase
<1> QED
  BY <1>1, <1>2 DEF CasUpdate

\* An insert-on-absent keeps everything, landed or not.
LEMMA InsertInv ==
    ASSUME IInv, NEW w \in Writers, NEW label \in {"resolve", "reread"},
           pay[w] \in Payload, InsertAbsent(w, label)
    PROVE  IInv'
<1>1. CASE ~Exists(at[w]) /\ Land(w, 1)
  BY <1>1, LandInv DEF Exists
<1>2. CASE Miss(w, label)
  BY <1>2, GotoInv DEF Miss, Phase
<1> QED
  BY <1>1, <1>2 DEF InsertAbsent

\* Reading a row image, for the call or for the retry, keeps everything: the
\* image is the live row.
LEMMA ReadBackInv ==
    ASSUME IInv, NEW w \in Writers, NEW label \in {"insert", "second", "fallback"},
           pay[w] \in Payload, ReadBack(w, label),
           label = "second" =>
              /\ table[at[w]] # NoRow
              /\ NewerThan(pay[w].seen, table[at[w]].seen)
    PROVE  IInv'
<1>1. TypeOK'
  BY DEF IInv, TypeOK, ReadBack, Phase
<1>2. ASSUME NEW v \in Writers PROVE HeldRow(v)' /\ SubmittedPayload(v)'
  <2>1. CASE v = w
    <3>1. table[at[w]] # NoRow => table[at[w]].seq \in Nat
      BY DEF IInv, TypeOK, Row
    <3> QED
      BY <2>1, <3>1 DEF IInv, TypeOK, ReadBack, HeldRow, SubmittedPayload, NewerThan
  <2>2. CASE v # w
    BY <2>2 DEF IInv, TypeOK, ReadBack, HeldRow, SubmittedPayload
  <2> QED
    BY <2>1, <2>2
<1> QED
  BY <1>1, <1>2 DEF IInv

LEMMA ReadInv ==
    ASSUME IInv, NEW w \in Writers, NEW h \in Hex, Read(w, h)
    PROVE  IInv'
<1>1. TypeOK'
  BY DEF IInv, TypeOK, Read, Phase
<1>2. ASSUME NEW v \in Writers PROVE HeldRow(v)' /\ SubmittedPayload(v)'
  <2>1. CASE v = w
    <3>1. table[h] # NoRow => table[h].seq \in Nat
      BY DEF IInv, TypeOK, Row
    <3> QED
      BY <2>1, <3>1 DEF IInv, TypeOK, Read, HeldRow, SubmittedPayload
  <2>2. CASE v # w
    BY <2>2 DEF IInv, TypeOK, Read, HeldRow, SubmittedPayload
  <2> QED
    BY <2>1, <2>2
<1> QED
  BY <1>1, <1>2 DEF IInv

\* The three kinds of payload: with the revision read and no older than the row
\* read, or with no revision at all.
LEMMA SubmitInv ==
    ASSUME IInv, NEW w \in Writers, NEW p \in Payload, NEW seq, Submit(w, p, seq),
           \/ seq = NoSeq
           \/ snap[w] # NoRow /\ seq = snap[w].seq /\ p.seen >= snap[w].seen
    PROVE  IInv'
<1>1. seq \in Nat \cup {NoSeq}
  BY DEF IInv, TypeOK, Row
<1>2. TypeOK'
  BY <1>1 DEF IInv, TypeOK, Submit, Phase
<1>3. ASSUME NEW v \in Writers PROVE HeldRow(v)' /\ SubmittedPayload(v)'
  <2>1. CASE v = w
    BY <2>1 DEF IInv, TypeOK, Submit, HeldRow, SubmittedPayload
  <2>2. CASE v # w
    BY <2>2 DEF IInv, TypeOK, Submit, HeldRow, SubmittedPayload
  <2> QED
    BY <2>1, <2>2
<1> QED
  BY <1>2, <1>3 DEF IInv

LEMMA CallerInv ==
    ASSUME IInv, NEW w \in Writers, Caller(w)
    PROVE  IInv'
<1>1. CASE \E h \in Hex : Read(w, h)
  BY <1>1, ReadInv
<1>2. ASSUME NEW p \in Payload, SubmitUpdate(w, p) PROVE IInv'
  <2>1. p.seen \in Nat
    BY TimesAssumption DEF Payload
  <2>2. snap[w] \in Row
    BY <1>2 DEF SubmitUpdate, IInv, TypeOK
  <2>3. snap[w].seen \in Nat
    BY <2>2, TimesAssumption DEF Row
  <2>4. p.seen >= snap[w].seen
    BY <1>2, <2>1, <2>3 DEF SubmitUpdate
  <2> QED
    BY <1>2, <2>4, SubmitInv DEF SubmitUpdate
<1>3. ASSUME NEW p \in Payload, SubmitNew(w, p) PROVE IInv'
  BY <1>3, SubmitInv DEF SubmitNew
<1>4. ASSUME NEW p \in Payload, SubmitMissing(w, p) PROVE IInv'
  <2>1. p.seen \in Nat
    BY TimesAssumption DEF Payload
  <2>2. p.seen >= snap[w].seen
    BY <1>4, <2>1 DEF SubmitMissing
  <2> QED
    BY <1>4, <2>2, SubmitInv DEF SubmitMissing
<1>5. CASE SkipWrite(w)
  BY <1>5, ReturnInv DEF SkipWrite
<1> QED
  BY <1>1, <1>2, <1>3, <1>4, <1>5 DEF Caller

LEMMA FunnelInv ==
    ASSUME IInv, NEW w \in Writers, Funnel(w)
    PROVE  IInv'
<1>1. pay[w] \in Payload
  BY DEF IInv, SubmittedPayload, Funnel, FirstAttempt, Resolve, SecondAttempt,
         InsertAttempt, Reread, Fallback
<1>2. CASE FirstAttempt(w)
  <2>1. CASE exp[w] = NoSeq /\ InsertAbsent(w, "resolve")
    BY <1>1, <2>1, InsertInv
  <2>2. CASE exp[w] # NoSeq /\ CasUpdate(w, exp[w], "resolve")
    <3>1. exp[w] \in Nat
      BY <2>2 DEF IInv, TypeOK
    <3> QED
      BY <1>1, <2>2, <3>1, CasInv
  <2> QED
    BY <1>2, <2>1, <2>2 DEF FirstAttempt
<1>3. CASE Resolve(w)
  BY <1>1, <1>3, ReadBackInv, ReturnInv DEF Resolve, Exists
<1>4. CASE SecondAttempt(w)
  <2>1. snap[w].seq \in Nat
    BY <1>4 DEF SecondAttempt, IInv, SubmittedPayload, TypeOK, Row
  <2> QED
    BY <1>1, <1>4, <2>1, CasInv DEF SecondAttempt
<1>5. CASE InsertAttempt(w)
  BY <1>1, <1>5, InsertInv DEF InsertAttempt
<1>6. CASE Reread(w)
  BY <1>1, <1>6, ReadBackInv DEF Reread
<1>7. CASE Fallback(w)
  <2>1. CASE Exists(at[w])
    <3>1. table[at[w]].seq \in Nat
      BY <2>1 DEF Exists, IInv, TypeOK, Row
    <3> QED
      BY <1>1, <1>7, <2>1, <3>1, LandInv DEF Fallback
  <2>2. CASE ~Exists(at[w])
    <3>1. CurrentSeq(w) \in Nat
      BY DEF CurrentSeq, IInv, TypeOK, Row
    <3> QED
      BY <1>1, <1>7, <2>2, <3>1, LandInv DEF Fallback, Exists
  <2> QED
    BY <2>1, <2>2
<1> QED
  BY <1>2, <1>3, <1>4, <1>5, <1>6, <1>7 DEF Funnel

LEMMA CleanupInv ==
    ASSUME IInv, NEW h \in Hex, Cleanup(h)
    PROVE  IInv'
<1>1. TypeOK'
  BY DEF IInv, TypeOK, Cleanup
<1>2. ASSUME NEW v \in Writers PROVE HeldRow(v)' /\ SubmittedPayload(v)'
  <2>1. SubmittedPayload(v)'
    BY DEF IInv, Cleanup, SubmittedPayload
  <2>2. HeldRow(v)'
    <3>1. CASE at[v] = h
      BY <3>1 DEF IInv, TypeOK, Cleanup, HeldRow
    <3>2. CASE at[v] # h
      BY <3>2 DEF IInv, TypeOK, Cleanup, HeldRow
    <3> QED
      BY <3>1, <3>2
  <2> QED
    BY <2>1, <2>2
<1> QED
  BY <1>1, <1>2 DEF IInv

\* The strengthening is inductive.
LEMMA NextInv == IInv /\ [Next]_vars => IInv'
<1> SUFFICES ASSUME IInv, [Next]_vars PROVE IInv'
  OBVIOUS
<1>1. ASSUME NEW w \in Writers, Caller(w) PROVE IInv'
  BY <1>1, CallerInv
<1>2. ASSUME NEW w \in Writers, Funnel(w) PROVE IInv'
  BY <1>2, FunnelInv
<1>3. ASSUME NEW w \in Writers, Abort(w) PROVE IInv'
  BY <1>3, ReturnInv DEF Abort
<1>4. ASSUME NEW h \in Hex, Cleanup(h) PROVE IInv'
  BY <1>4, CleanupInv
<1>5. CASE UNCHANGED vars
  BY <1>5 DEF vars, IInv, TypeOK, HeldRow, SubmittedPayload
<1> QED
  BY <1>1, <1>2, <1>3, <1>4, <1>5 DEF Next

LEMMA Inductive == Spec => []IInv
BY InitInv, NextInv, PTL DEF Spec

\* Rows, payloads and row images stay well formed in every behaviour of the
\* aircraft_state writers, whatever they interleave with.
THEOREM TypeCorrect == Spec => []TypeOK
<1>1. IInv => TypeOK
  BY DEF IInv
<1> QED
  BY <1>1, Inductive, PTL

\* For any number of writers, a conditional update of cas_upsert_state can land
\* only on the very row its caller read, unless that row was deleted meanwhile.
THEOREM GuardCorrect == Spec => []GuardSeesOwnRevision
<1>1. IInv => GuardSeesOwnRevision
  BY DEF IInv, HeldRow, GuardSeesOwnRevision, GuardPasses, Exists
<1> QED
  BY <1>1, Inductive, PTL

\* Times compare as numbers wherever the invariant holds.
LEMMA SeenNat ==
    ASSUME TypeOK
    PROVE  /\ \A h \in Hex : table[h] # NoRow => table[h].seen \in Nat
           /\ \A w \in Writers : pay[w] \in Payload => pay[w].seen \in Nat
           /\ \A w \in Writers : snap[w] # NoRow => snap[w].seen \in Nat
<1>1. ASSUME NEW r \in Row PROVE r.seen \in Nat
  BY TimesAssumption DEF Row
<1>2. ASSUME NEW p \in Payload PROVE p.seen \in Nat
  BY TimesAssumption DEF Payload
<1> QED
  BY <1>1, <1>2 DEF TypeOK

\* A conditional update that lands puts nothing staler than what it replaces,
\* unless the row the writer read was deleted.
LEMMA CasNotStaler ==
    ASSUME IInv, NEW w \in Writers, GuardPasses(w, snap[w].seq), ~orphan[w],
           pc[w] \in {"first", "second"}, pay[w] \in Payload, snap[w] # NoRow,
           pay[w].seen >= snap[w].seen
    PROVE  pay[w].seen >= table[at[w]].seen
BY DEF IInv, HeldRow, GuardPasses, Exists

\* What a funnel step that ends the call leaves behind.
LEMMA FunnelEffect ==
    ASSUME IInv, NEW w \in Writers, Funnel(w)
    PROVE  /\ pay[w] \in Payload
           /\ \A h \in Hex \ {at[w]} : table'[h] = table[h]
           /\ \/ table' = table
              \/ /\ pc'[w] = "idle" /\ pc[w] # "idle"
                 /\ table'[at[w]] # NoRow
                 /\ table'[at[w]].seen = pay[w].seen
                 /\ \/ table[at[w]] = NoRow
                    \/ pc[w] = "fallback"
                    \/ orphan[w]
                    \/ pay[w].seen >= table[at[w]].seen
<1> DEFINE Ended == /\ \A h \in Hex \ {at[w]} : table'[h] = table[h]
                    /\ pc'[w] = "idle"
                    /\ table'[at[w]] # NoRow
                    /\ table'[at[w]].seen = pay[w].seen
<1>1. pay[w] \in Payload /\ pc[w] # "idle"
  BY DEF IInv, SubmittedPayload, Funnel, FirstAttempt, Resolve, SecondAttempt,
         InsertAttempt, Reread, Fallback
<1>2. ASSUME NEW n \in Nat, Land(w, n) PROVE Ended
  <2>1. /\ table'[at[w]] = Stored(pay[w], n)
        /\ Stored(pay[w], n) \in Row
        /\ \A h \in Hex \ {at[w]} : table'[h] = table[h]
    BY <1>1, <1>2, LandType DEF IInv
  <2>2. pc'[w] = "idle"
    BY <1>2 DEF Land, Return, IInv, TypeOK
  <2> QED
    BY <2>1, <2>2, NoRowAssumption DEF Stored
<1>3. CASE FirstAttempt(w)
  <2>1. CASE exp[w] = NoSeq /\ InsertAbsent(w, "resolve")
    BY <1>1, <1>2, <2>1 DEF InsertAbsent, Miss, Exists
  <2>2. CASE exp[w] # NoSeq /\ CasUpdate(w, exp[w], "resolve")
    <3>1. /\ pc[w] = "first" /\ exp[w] \in Nat
          /\ snap[w] # NoRow /\ exp[w] = snap[w].seq /\ pay[w].seen >= snap[w].seen
      BY <1>3, <2>2 DEF FirstAttempt, IInv, SubmittedPayload, TypeOK
    <3>2. GuardPasses(w, exp[w]) => orphan[w] \/ pay[w].seen >= table[at[w]].seen
      BY <1>1, <3>1, CasNotStaler DEF IInv, TypeOK
    <3> QED
      BY <1>1, <1>2, <2>2, <3>1, <3>2 DEF CasUpdate, Miss
  <2> QED
    BY <1>3, <2>1, <2>2 DEF FirstAttempt
<1>4. CASE Resolve(w)
  BY <1>1, <1>4 DEF Resolve, ReadBack
<1>5. CASE SecondAttempt(w)
  <2>1. pc[w] = "second" /\ snap[w] # NoRow /\ pay[w].seen > snap[w].seen
    BY <1>5 DEF SecondAttempt, IInv, SubmittedPayload
  <2>2. pay[w].seen >= snap[w].seen /\ snap[w].seq \in Nat
    BY <1>1, <2>1, SeenNat DEF IInv, TypeOK, Row
  <2>3. GuardPasses(w, snap[w].seq) => orphan[w] \/ pay[w].seen >= table[at[w]].seen
    BY <1>1, <2>1, <2>2, CasNotStaler DEF IInv, TypeOK
  <2> QED
    BY <1>1, <1>2, <1>5, <2>2, <2>3 DEF SecondAttempt, CasUpdate, Miss
<1>6. CASE InsertAttempt(w)
  BY <1>1, <1>2, <1>6 DEF InsertAttempt, InsertAbsent, Miss, Exists
<1>7. CASE Reread(w)
  BY <1>1, <1>7 DEF Reread, ReadBack
<1>8. CASE Fallback(w)
  <2>1. table[at[w]] # NoRow => table[at[w]].seq \in Nat
    BY DEF IInv, TypeOK, Row
  <2>2. CurrentSeq(w) \in Nat
    BY DEF CurrentSeq, IInv, TypeOK, Row
  <2> QED
    BY <1>1, <1>2, <1>8, <2>1, <2>2 DEF Fallback, Exists
<1> QED
  BY <1>3, <1>4, <1>5, <1>6, <1>7, <1>8 DEF Funnel

LEMMA NeverStalerStep ==
    ASSUME IInv, [Next]_vars, NEW h \in Hex, table[h] # NoRow, table'[h] # NoRow
    PROVE  table'[h].seen >= table[h].seen \/ Excused(h)
<1>1. table'[h] = table[h] => table'[h].seen >= table[h].seen
  BY SeenNat DEF IInv
<1>2. ASSUME NEW w \in Writers, Funnel(w), table'[h] # table[h]
      PROVE  table'[h].seen >= table[h].seen \/ Excused(h)
  <2>1. at[w] = h
    BY <1>2, FunnelEffect
  <2> QED
    BY <1>2, <2>1, FunnelEffect DEF Excused
<1>3. ASSUME NEW w \in Writers, Caller(w) PROVE table' = table
  BY <1>3 DEF Caller, Read, Submit, SubmitUpdate, SubmitNew, SubmitMissing, SkipWrite
<1>4. ASSUME NEW w \in Writers, Abort(w) PROVE table' = table
  BY <1>4 DEF Abort
<1>5. ASSUME NEW g \in Hex, Cleanup(g) PROVE table'[h] = table[h]
  BY <1>5 DEF Cleanup, IInv, TypeOK
<1> QED
  BY <1>1, <1>2, <1>3, <1>4, <1>5 DEF Next, vars

\* In every behaviour, with any number of loops, a row's last_seen_at never goes
\* back: a stale snapshot overwrites a fresher observation only through the
\* warned fallback, or after the row it was read from had been deleted.
THEOREM NeverStalerCorrect == Spec => NeverStaler
<1>1. IInv /\ [Next]_vars
      => [\A h \in Hex :
            table[h] # NoRow /\ table'[h] # NoRow
            => table'[h].seen >= table[h].seen \/ Excused(h)]_vars
  BY NeverStalerStep
<1> QED
  BY <1>1, Inductive, PTL DEF Spec, NeverStaler

LEMMA NoSilentDropStep ==
    ASSUME IInv, [Next]_vars, NEW w \in Writers, Funnel(w), pc'[w] = "idle"
    PROVE  /\ table'[at[w]] # NoRow
           /\ table'[at[w]].seen >= pay[w].seen
<1>1. pay[w].seen \in Nat /\ at[w] \in Hex
  BY FunnelEffect, SeenNat DEF IInv, TypeOK
<1>2. CASE table' = table
  <2>1. CASE Resolve(w)
    <3>1. pc[w] = "resolve" /\ Exists(at[w]) /\ ~NewerThan(pay[w].seen, table[at[w]].seen)
      BY <2>1 DEF Resolve, ReadBack, IInv, TypeOK
    <3> QED
      BY <1>1, <1>2, <3>1, SeenNat DEF NewerThan, Exists, IInv
  <2>2. CASE ~Resolve(w)
    <3>1. ASSUME NEW label \in {"resolve", "reread"}, Miss(w, label) PROVE FALSE
      BY <3>1 DEF Miss, Goto, IInv, TypeOK
    <3>2. ASSUME NEW label \in {"fallback"}, ReadBack(w, label) PROVE FALSE
      BY <3>2 DEF ReadBack, IInv, TypeOK
    <3>3. \E n \in Nat : Land(w, n)
      <4>1. CASE FirstAttempt(w) \/ SecondAttempt(w) \/ InsertAttempt(w)
        BY <3>1, <4>1 DEF FirstAttempt, SecondAttempt, InsertAttempt,
           InsertAbsent, CasUpdate, IInv, TypeOK, Row, SubmittedPayload
      <4>2. CASE Reread(w)
        BY <3>2, <4>2 DEF Reread
      <4>3. CASE Fallback(w)
        BY <4>3 DEF Fallback, Exists, CurrentSeq, IInv, TypeOK, Row
      <4> QED
        BY <2>2, <4>1, <4>2, <4>3 DEF Funnel
    <3>4. PICK n \in Nat : Land(w, n)
      BY <3>3
    <3>5. table'[at[w]] = Stored(pay[w], n) /\ Stored(pay[w], n) \in Row
      BY <3>4, FunnelEffect, LandType DEF IInv
    <3> QED
      BY <1>1, <3>5, NoRowAssumption DEF Stored
  <2> QED
    BY <2>1, <2>2
<1>3. CASE table' # table
  BY <1>1, <1>3, FunnelEffect
<1> QED
  BY <1>2, <1>3

\* In every behaviour a funnel call that runs to its end leaves a row at least
\* as fresh as its payload: no observation is dropped for a staler one.
THEOREM NoSilentDropCorrect == Spec => NoSilentDrop
<1>1. IInv /\ [Next]_vars
      => [\A w \in Writers :
            Funnel(w) /\ pc'[w] = "idle"
            => /\ table'[at[w]] # NoRow
               /\ table'[at[w]].seen >= pay[w].seen]_vars
  BY NoSilentDropStep
<1> QED
  BY <1>1, Inductive, PTL DEF Spec, NoSilentDrop

\* The call of w is over for its caller exactly when w is idle or has only read.
LEMMA CallExists ==
    ASSUME IInv, NEW w \in Writers, pc[w] \notin {"idle", "read"}
    PROVE  /\ CallOf(w) = [hex |-> at[w], pay |-> pay[w]]
           /\ CallOf(w) \in Atomic!Call
           /\ CallOf(w) # NoPayload
<1>1. at[w] \in Hex /\ pay[w] \in Payload
  BY DEF IInv, TypeOK, SubmittedPayload
<1>2. CallOf(w) = [hex |-> at[w], pay |-> pay[w]]
  BY DEF CallOf
<1> QED
  BY <1>1, <1>2, NoPayloadAssumption DEF Atomic!Call, Atomic!Payload, Payload

\* When w returns from the funnel, only its call is over.
LEMMA ReturnEndsCall ==
    ASSUME IInv, NEW w \in Writers, pc[w] \notin {"idle", "read"}, Return(w)
    PROVE  Atomic!Return(w)
<1>1. \A v \in Writers : CallOf(v)' = IF v = w THEN NoPayload ELSE CallOf(v)
  BY DEF CallOf, Return, IInv, TypeOK
<1>2. [v \in Writers |-> CallOf(v)]'
      = [[v \in Writers |-> CallOf(v)] EXCEPT ![w] = NoPayload]
  BY <1>1
<1> QED
  BY <1>2, CallExists DEF Atomic!Return

\* As long as w stays in the funnel, or outside it, no call begins or ends.
LEMMA CallsStay ==
    ASSUME IInv, NEW w \in Writers,
           \A v \in Writers \ {w} : pc'[v] = pc[v],
           at' = at, pay' = pay,
           pc[w] \in {"idle", "read"} <=> pc'[w] \in {"idle", "read"}
    PROVE  [v \in Writers |-> CallOf(v)]' = [v \in Writers |-> CallOf(v)]
<1>1. \A v \in Writers : CallOf(v)' = CallOf(v)
  BY DEF CallOf
<1> QED
  BY <1>1

\* A payload that lands is one write of the abstract specification.
LEMMA LandIsWrite ==
    ASSUME IInv, NEW w \in Writers, NEW n \in Nat,
           pc[w] \notin {"idle", "read"}, Land(w, n),
           IF table[at[w]] # NoRow THEN n = table[at[w]].seq + 1 ELSE n > 0
    PROVE  Atomic!Write(w)
<1>1. pay[w] \in Payload
  BY DEF IInv, SubmittedPayload
<1>2. /\ table'[at[w]] = Stored(pay[w], n)
      /\ Stored(pay[w], n) \in Row
      /\ table' = [table EXCEPT ![at[w]] = table'[at[w]]]
  BY <1>1, LandType DEF IInv, Land
<1>3. /\ table'[at[w]] # NoRow /\ table'[at[w]].seq = n
      /\ table'[at[w]].seen = pay[w].seen /\ table'[at[w]].val = pay[w].val
  BY <1>2, NoRowAssumption DEF Stored
<1>4. CallOf(w).hex = at[w] /\ CallOf(w).pay = pay[w]
  BY CallExists
<1>5. Atomic!Return(w)
  BY ReturnEndsCall DEF Land
<1> QED
  BY <1>2, <1>3, <1>4, <1>5 DEF Atomic!Write, Atomic!Written, Atomic!Exists

\* Every transaction of the funnel is that write, the end of the call, or nothing.
LEMMA FunnelRefines ==
    ASSUME IInv, NEW w \in Writers, Funnel(w)
    PROVE  Atomic!Write(w) \/ UNCHANGED Atomic!vars \/ Atomic!Leave(w)
<1> DEFINE Stutters == UNCHANGED Atomic!vars
<1>1. pc[w] \notin {"idle", "read"}
  BY DEF Funnel, FirstAttempt, Resolve, SecondAttempt, InsertAttempt, Reread, Fallback
<1>2. ASSUME NEW label \in {"resolve", "reread"}, Miss(w, label) PROVE Stutters
  BY <1>1, <1>2, CallsStay DEF Miss, Goto, IInv, TypeOK, Atomic!vars
<1>3. ASSUME NEW label \in {"insert", "second", "fallback"}, ReadBack(w, label)
      PROVE  Stutters
  BY <1>1, <1>3, CallsStay DEF ReadBack, IInv, TypeOK, Atomic!vars
<1>4. ASSUME NEW seq \in Nat, NEW label \in {"resolve", "reread"}, CasUpdate(w, seq, label)
      PROVE  Atomic!Write(w) \/ Stutters
  BY <1>1, <1>2, <1>4, LandIsWrite DEF CasUpdate, GuardPasses, Exists
<1>5. ASSUME NEW label \in {"resolve", "reread"}, InsertAbsent(w, label)
      PROVE  Atomic!Write(w) \/ Stutters
  BY <1>1, <1>2, <1>5, LandIsWrite DEF InsertAbsent, Exists
<1>6. CASE FirstAttempt(w)
  <2>1. exp[w] # NoSeq => exp[w] \in Nat
    BY DEF IInv, TypeOK
  <2> QED
    BY <1>4, <1>5, <1>6, <2>1 DEF FirstAttempt
<1>7. CASE Resolve(w)
  BY <1>1, <1>3, <1>7, ReturnEndsCall DEF Resolve, Atomic!Leave
<1>8. CASE SecondAttempt(w)
  <2>1. snap[w].seq \in Nat
    BY <1>8 DEF SecondAttempt, IInv, SubmittedPayload, TypeOK, Row
  <2> QED
    BY <1>4, <1>8, <2>1 DEF SecondAttempt
<1>9. CASE InsertAttempt(w)
  BY <1>5, <1>9 DEF InsertAttempt
<1>10. CASE Reread(w)
  BY <1>3, <1>10 DEF Reread
<1>11. CASE Fallback(w)
  <2>1. table[at[w]] # NoRow => table[at[w]].seq \in Nat
    BY DEF IInv, TypeOK, Row
  <2>2. CurrentSeq(w) \in Nat
    BY DEF CurrentSeq, IInv, TypeOK, Row
  <2> QED
    BY <1>1, <1>11, <2>1, <2>2, LandIsWrite DEF Fallback, Exists
<1> QED
  BY <1>6, <1>7, <1>8, <1>9, <1>10, <1>11 DEF Funnel

\* Handing over a payload begins the call; reading and giving up begin nothing.
LEMMA CallerRefines ==
    ASSUME IInv, NEW w \in Writers, Caller(w)
    PROVE  (\E c \in Atomic!Call : Atomic!Submit(w, c)) \/ UNCHANGED Atomic!vars
<1>1. ASSUME NEW h \in Hex, Read(w, h) PROVE UNCHANGED Atomic!vars
  <2>1. \A v \in Writers : CallOf(v)' = CallOf(v)
    BY <1>1 DEF Read, CallOf, IInv, TypeOK
  <2> QED
    BY <1>1, <2>1 DEF Read, Atomic!vars
<1>2. ASSUME NEW p \in Payload, NEW seq, Submit(w, p, seq)
      PROVE  \E c \in Atomic!Call : Atomic!Submit(w, c)
  <2> DEFINE c == [hex |-> at[w], pay |-> p]
  <2>1. c \in Atomic!Call
    BY DEF IInv, TypeOK, Atomic!Call, Atomic!Payload, Payload
  <2>2. CallOf(w) = NoPayload
    BY <1>2 DEF Submit, CallOf
  <2>3. \A v \in Writers : CallOf(v)' = IF v = w THEN c ELSE CallOf(v)
    BY <1>2 DEF Submit, CallOf, IInv, TypeOK
  <2>4. [v \in Writers |-> CallOf(v)]' = [[v \in Writers |-> CallOf(v)] EXCEPT ![w] = c]
    BY <2>3
  <2>5. table' = table
    BY <1>2 DEF Submit
  <2> HIDE DEF c
  <2>6. Atomic!Submit(w, c)
    BY <2>2, <2>4, <2>5 DEF Atomic!Submit
  <2> QED
    BY <2>1, <2>6
<1>3. CASE SkipWrite(w)
  <2>1. \A v \in Writers : CallOf(v)' = CallOf(v)
    BY <1>3 DEF SkipWrite, Return, CallOf, IInv, TypeOK
  <2> QED
    BY <1>3, <2>1 DEF SkipWrite, Atomic!vars
<1> QED
  BY <1>1, <1>2, <1>3 DEF Caller, SubmitUpdate, SubmitNew, SubmitMissing

LEMMA StepRefines == IInv /\ [Next]_vars => [Atomic!Next]_(Atomic!vars)
<1> SUFFICES ASSUME IInv, [Next]_vars PROVE Atomic!Next \/ UNCHANGED Atomic!vars
  OBVIOUS
<1>1. ASSUME NEW w \in Writers, Caller(w) PROVE Atomic!Next \/ UNCHANGED Atomic!vars
  BY <1>1, CallerRefines DEF Atomic!Next
<1>2. ASSUME NEW w \in Writers, Funnel(w) PROVE Atomic!Next \/ UNCHANGED Atomic!vars
  BY <1>2, FunnelRefines DEF Atomic!Next
<1>3. ASSUME NEW w \in Writers, Abort(w) PROVE Atomic!Next \/ UNCHANGED Atomic!vars
  <2>1. CASE pc[w] = "read"
    <3>1. \A v \in Writers : CallOf(v)' = CallOf(v)
      BY <1>3, <2>1 DEF Abort, Return, CallOf, IInv, TypeOK
    <3> QED
      BY <1>3, <3>1 DEF Abort, Atomic!vars
  <2>2. CASE pc[w] # "read"
    BY <1>3, <2>2, ReturnEndsCall DEF Abort, Atomic!Leave, Atomic!Next
  <2> QED
    BY <2>1, <2>2
<1>4. ASSUME NEW h \in Hex, Cleanup(h) PROVE Atomic!Next \/ UNCHANGED Atomic!vars
  <2>1. [v \in Writers |-> CallOf(v)]' = [v \in Writers |-> CallOf(v)]
    BY <1>4 DEF Cleanup, CallOf
  <2>2. Atomic!Delete(h)
    BY <1>4, <2>1 DEF Cleanup, Exists, Atomic!Delete, Atomic!Exists
  <2> QED
    BY <2>2 DEF Atomic!Next
<1>5. CASE UNCHANGED vars
  BY <1>5 DEF vars, CallOf, Atomic!vars
<1> QED
  BY <1>1, <1>2, <1>3, <1>4, <1>5 DEF Next

\* The funnel implements the atomic writes it promises, for any number of loops,
\* aircraft and revisions: a call takes effect at one instant or not at all, and a
\* revision counts the writes of its row, the unconditional last resort included.
THEOREM FunnelIsAtomic == Spec => WritesAreAtomic
<1>1. Init => Atomic!Init
  <2> SUFFICES ASSUME Init PROVE Atomic!Init
    OBVIOUS
  <2>1. \A w \in Writers : CallOf(w) = NoPayload
    BY DEF Init, CallOf
  <2> QED
    BY <2>1 DEF Init, Atomic!Init
<1> QED
  BY <1>1, StepRefines, Inductive, PTL DEF Spec, WritesAreAtomic, Atomic!Spec
=============================================================================
