------------------------ MODULE CoverageCycleProofs ------------------------
(***************************************************************************)
(* A coverage cycle that shares the counter of the metered provider with   *)
(* any number of tests passes the daily quota by a bounded amount, hands   *)
(* over only regions all of whose requests succeeded, and keeps of every   *)
(* aircraft the freshest position, for any providers, regions, aircraft,   *)
(* settings and order of the answers.                                      *)
(***************************************************************************)
EXTENDS CoverageCycle, FiniteSetTheorems, TLAPS

(***************************************************************************)
(* The inductive invariant                                                 *)
(***************************************************************************)

\* Only a cycle past Fetch has asked anything, only one that is about to save has
\* handed over regions.
Places ==
    /\ pc \in {"idle", "begun"} => todo = {} /\ answered = {} /\ failed = {}
    /\ pc # "save" => counted = {}

\* A pair is still to be asked, answered or failed: one of them.
Apart == answered \cap failed = {} /\ todo \cap (answered \cup failed) = {}

Sound == TypeOK /\ Places /\ Apart

IInv == Sound /\ FailuresNeverCount /\ FreshestKept /\ QuotaOvershoot

(***************************************************************************)
(* The settings                                                            *)
(***************************************************************************)

\* Whatever environment and table hold, a setting reads as a value its key accepts.
LEMMA SettingAccepted ==
    ASSUME SettingsTypeOK, NEW k \in Key
    PROVE  Setting(k) \in Accepted[k]
<1>1. env[k] \in Accepted[k] \cup {None}
  BY EnvironmentAssumption DEF SettingsTypeOK
<1>2. Default[k] \in Accepted[k]
  BY KeyAssumption
<1> QED
  BY <1>1, <1>2 DEF Setting, Effective

LEMMA RowsTyped ==
    ASSUME SettingsTypeOK, NEW clear, NEW set, NEW values
    PROVE  /\ DOMAIN Rows(clear, set, values) = Key
           /\ \A k \in Key : Rows(clear, set, values)[k] \in Accepted[k] \cup {Unreadable, None}
BY DEF Rows, SettingsTypeOK

LEMMA CheckedTyped ==
    ASSUME NEW rows, DOMAIN rows = Key, NEW errors,
           \A k \in Key : rows[k] \in Accepted[k] \cup {Unreadable, None}
    PROVE  /\ DOMAIN Checked(rows, errors) = Key
           /\ \A k \in Key : Checked(rows, errors)[k] \in Accepted[k] \cup {Unreadable, None}
<1>1. "review" \in Accepted[Phase]
  BY KeyAssumption
<1>2. DOMAIN [rows EXCEPT ![Phase] = "review"] = Key
  OBVIOUS
<1>3. \A k \in Key : [rows EXCEPT ![Phase] = "review"][k] \in Accepted[k] \cup {Unreadable, None}
  BY <1>1
<1> QED
  BY <1>2, <1>3 DEF Checked

LEMMA SettingsKept ==
    ASSUME SettingsTypeOK,
           \/ \E q \in Request : settings_update(q.clear, q.values)
           \/ \E q \in Request : UpdateKilled(q.clear, q.values)
           \/ \E e \in Environment, rotated \in BOOLEAN : Restart(e, rotated)
    PROVE  SettingsTypeOK'
<1>1. ASSUME NEW q \in Request, settings_update(q.clear, q.values) PROVE SettingsTypeOK'
  <2> DEFINE rows == Rows(q.clear, Asks(q.values), q.values)
             errors == Errors(q.clear, q.values)
  <2>1. stored' = Checked(rows, errors) /\ env' = env /\ last' \in {"clean", "refused"}
    BY <1>1 DEF settings_update
  <2>2. /\ DOMAIN rows = Key
        /\ \A k \in Key : rows[k] \in Accepted[k] \cup {Unreadable, None}
    BY RowsTyped
  <2> HIDE DEF rows, errors
  <2>3. /\ DOMAIN stored' = Key
        /\ \A k \in Key : stored'[k] \in Accepted[k] \cup {Unreadable, None}
    BY <2>1, <2>2, CheckedTyped
  <2> QED
    BY <2>1, <2>3 DEF SettingsTypeOK
<1>2. ASSUME NEW q \in Request, UpdateKilled(q.clear, q.values) PROVE SettingsTypeOK'
  <2>1. PICK clear, set : stored' = Rows(clear, set, q.values)
    BY <1>2 DEF UpdateKilled
  <2>2. env' = env /\ last' = "killed"
    BY <1>2 DEF UpdateKilled
  <2> QED
    BY <2>1, <2>2, RowsTyped DEF SettingsTypeOK
<1>3. ASSUME NEW e \in Environment, NEW rotated \in BOOLEAN, Restart(e, rotated)
      PROVE  SettingsTypeOK'
  BY <1>3 DEF Restart, SettingsTypeOK
<1> QED
  BY <1>1, <1>2, <1>3

(***************************************************************************)
(* One request                                                             *)
(***************************************************************************)

\* A pair is asked for the last time: it has failed, or its answer is in.
Settled(pair) ==
    /\ todo' = todo \ {pair}
    /\ \/ failed' = failed \cup {pair} /\ UNCHANGED <<answered, merged, received>>
       \/ /\ answered' = answered \cup {pair}
          /\ UNCHANGED failed
          /\ \E seen \in SUBSET Aircraft : \E positions \in [seen -> Time] :
                /\ merged' = [a \in Aircraft |-> IF a \in DOMAIN positions
                                 THEN Freshest(merged[a], positions[a]) ELSE merged[a]]
                /\ received' = [a \in Aircraft |-> IF a \in DOMAIN positions
                                   THEN received[a] \cup {positions[a]} ELSE received[a]]

LEMMA CallTypes ==
    /\ \A pair \in Pair : [pair |-> pair, tries |-> 0, sent |-> FALSE] \in Call
    /\ \A call \in Call : /\ [call EXCEPT !.sent = TRUE] \in Call
                          /\ [call EXCEPT !.sent = TRUE].pair = call.pair
                          /\ NextTry(call) \in Call /\ NextTry(call).pair = call.pair
                          /\ ~NextTry(call).sent
                          /\ call.pair \in Pair
<1>1. MaxTries \in Nat /\ MaxTries >= 1
  BY CycleBoundsAssumption
<1>2. ASSUME NEW call \in Call
      PROVE  NextTry(call) \in Call /\ NextTry(call).pair = call.pair /\ ~NextTry(call).sent
  <2>1. ASSUME NEW n \in 0..(MaxTries - 1)
        PROVE  LET next == [call EXCEPT !.sent = FALSE, !.tries = n]
               IN  next \in Call /\ next.pair = call.pair /\ ~next.sent
    BY DEF Call
  <2>2. call.tries \in 0..(MaxTries - 1)
    BY DEF Call
  <2>3. (IF call.tries + 1 < MaxTries THEN call.tries + 1 ELSE call.tries) \in 0..(MaxTries - 1)
    BY <1>1, <2>2
  <2> QED
    BY <2>1, <2>3, Zenon DEF NextTry
<1>3. ASSUME NEW call \in Call
      PROVE  /\ [call EXCEPT !.sent = TRUE] \in Call
             /\ [call EXCEPT !.sent = TRUE].pair = call.pair /\ call.pair \in Pair
  BY DEF Call
<1>4. ASSUME NEW pair \in Pair PROVE [pair |-> pair, tries |-> 0, sent |-> FALSE] \in Call
  <2>1. 0 \in 0..(MaxTries - 1)
    BY <1>1
  <2> QED
    BY <2>1 DEF Call
<1> QED
  BY <1>2, <1>3, <1>4

\* What a requester can do: its own request changes, and the bookkeeping of the cycle
\* only when the cycle's own request ends.
Effect(w) ==
    \E call \in Call \cup {None} :
        /\ req' = [req EXCEPT ![w] = call]
        /\ \/ /\ Stays
              /\ w = Cycle /\ call # None => pc = "fetch" /\ call.pair \in todo
           \/ /\ w = Cycle /\ pc = "fetch" /\ call = None
              /\ \E pair \in todo : Settled(pair)

LEMMA TryEffect ==
    ASSUME NEW w \in Requester, NEW call \in Call, Try(w, call),
           w = Cycle => pc = "fetch" /\ call.pair \in todo
    PROVE  Effect(w)
<1>1. CASE req' = [req EXCEPT ![w] = [call EXCEPT !.sent = TRUE]] /\ Stays
  BY <1>1, CallTypes DEF Effect
<1>2. CASE req' = [req EXCEPT ![w] = None] /\ Failed(w, call.pair)
  BY <1>2 DEF Failed, Stays, Settled, Effect
<1> QED
  BY <1>1, <1>2 DEF Try

LEMMA RequestEffects ==
    ASSUME TypeOK, NEW w \in Requester, Works(w)
    PROVE  /\ UNCHANGED <<settings, pc, phase, regions, polled, counted, row>>
           /\ attempts' \in {attempts, attempts + 1}
           /\ Effect(w)
<1>1. /\ req \in [Requester -> Call \cup {None}]
      /\ req[Cycle] # None => pc = "fetch" /\ req[Cycle].pair \in todo
  BY DEF TypeOK
<1>2. ASSUME NEW pair \in Pair, Ask(w, pair) PROVE Effect(w)
  <2>1. w = Cycle => pc = "fetch" /\ pair \in todo
    BY <1>2 DEF Ask, Asking
  <2> DEFINE call == [pair |-> pair, tries |-> 0, sent |-> FALSE]
  <2>2. call \in Call /\ Try(w, call) /\ call.pair = pair
    BY <1>2, CallTypes DEF Ask
  <2> HIDE DEF call
  <2> QED
    BY <2>1, <2>2, TryEffect
<1>3. ASSUME NEW pair \in Pair, KeyMissing(w, pair) PROVE Effect(w)
  <2>1. /\ w = Cycle => pc = "fetch" /\ pair \in todo
        /\ req[w] = None /\ Failed(w, pair) /\ req' = req
    BY <1>3 DEF KeyMissing, Asking
  <2>2. req' = [req EXCEPT ![w] = None]
    BY <1>1, <2>1
  <2> QED
    BY <2>1, <2>2 DEF Effect, Failed, Stays, Settled
<1>4. ASSUME Again(w) PROVE Effect(w)
  BY <1>1, <1>4, TryEffect DEF Again
<1>5. ASSUME NEW seen \in SUBSET Aircraft, NEW positions \in [seen -> Time],
             Answer(w, positions)
      PROVE  Effect(w)
  <2>1. req[w] # None /\ req' = [req EXCEPT ![w] = None]
    BY <1>5 DEF Answer, Waiting
  <2>2. CASE w # Cycle
    BY <1>5, <2>1, <2>2 DEF Answer, Effect
  <2>3. CASE w = Cycle
    <3>1. pc = "fetch" /\ req[Cycle].pair \in todo
      BY <1>1, <2>1, <2>3
    <3>2. Settled(req[Cycle].pair)
      BY <1>5, <2>3 DEF Answer, Settled
    <3> QED
      BY <2>1, <2>3, <3>1, <3>2 DEF Effect
  <2> QED
    BY <2>2, <2>3
<1>6. ASSUME NEW outcome \in {"denied", "error", "unusable", "lost"}, Fails(w, outcome)
      PROVE  Effect(w)
  <2>1. req[w] \in Call
    BY <1>1, <1>6 DEF Fails, Waiting
  <2>2. w = Cycle => pc = "fetch" /\ req[w].pair \in todo
    BY <1>1, <1>6 DEF Fails, Waiting
  <2>3. CASE req' = [req EXCEPT ![w] = NextTry(@)] /\ Stays
    BY <2>1, <2>2, <2>3, CallTypes DEF Effect
  <2>4. CASE req' = [req EXCEPT ![w] = None] /\ Failed(w, req[w].pair)
    BY <2>2, <2>4 DEF Failed, Stays, Settled, Effect
  <2> QED
    BY <1>6, <2>3, <2>4 DEF Fails
<1>7. Effect(w)
  BY <1>2, <1>3, <1>4, <1>5, <1>6 DEF Works
<1>8. /\ UNCHANGED <<settings, pc, phase, regions, polled, counted, row>>
      /\ attempts' \in {attempts, attempts + 1}
  BY DEF Works, Ask, KeyMissing, Again, Answer, Fails, Counted
<1> QED
  BY <1>7, <1>8

(***************************************************************************)
(* Types and the cycle's places                                            *)
(***************************************************************************)

LEMMA PolledTyped ==
    ASSUME SettingsTypeOK
    PROVE  Polled(Listed[Setting(Providers)]) \subseteq GridProvider
<1>1. Setting(Providers) \in Accepted[Providers]
  BY SettingAccepted, ProviderAssumption
<1> QED
  BY <1>1, ProviderAssumption DEF Polled

\* The end of a cycle, and the stop of the server.
LEMMA OverSound ==
    ASSUME Sound, Over, SettingsTypeOK', row' \in RunRow, attempts' \in Nat,
           req' \in [Requester -> Call \cup {None}], req'[Cycle] = None
    PROVE  Sound' /\ FailuresNeverCount' /\ FreshestKept'
<1>1. TypeOK'
  BY DEF Over, TypeOK
<1>2. Places' /\ Apart' /\ FailuresNeverCount'
  BY DEF Over, Places, Apart, FailuresNeverCount
<1>3. FreshestKept'
  BY DEF Over, FreshestKept
<1> QED
  BY <1>1, <1>2, <1>3 DEF Sound

LEMMA FreshestType ==
    ASSUME NEW kept \in Time \cup {None}, NEW time \in Time
    PROVE  Freshest(kept, time) \in Time
BY DEF Freshest

\* A request touches the bookkeeping of the cycle as Settled says, or not at all.
LEMMA RequestSound ==
    ASSUME Sound, FailuresNeverCount, FreshestKept, NEW w \in Requester, Works(w)
    PROVE  Sound' /\ FailuresNeverCount' /\ FreshestKept'
<1>1. /\ UNCHANGED <<settings, pc, phase, regions, polled, counted, row>>
      /\ attempts' \in {attempts, attempts + 1}
      /\ Effect(w)
  BY RequestEffects DEF Sound
<1>2. SettingsTypeOK' /\ attempts' \in Nat
  BY <1>1 DEF Sound, TypeOK, SettingsTypeOK, settings
<1>3. PICK call \in Call \cup {None} :
        /\ req' = [req EXCEPT ![w] = call]
        /\ \/ /\ Stays
              /\ w = Cycle /\ call # None => pc = "fetch" /\ call.pair \in todo
           \/ /\ w = Cycle /\ pc = "fetch" /\ call = None
              /\ \E pair \in todo : Settled(pair)
  BY <1>1 DEF Effect
<1>4. req' \in [Requester -> Call \cup {None}] /\ Cycle \in Requester
  BY <1>3 DEF Sound, TypeOK, Requester
<1>5. CASE /\ Stays
           /\ w = Cycle /\ call # None => pc = "fetch" /\ call.pair \in todo
  <2>1. req'[Cycle] # None => pc' = "fetch" /\ req'[Cycle].pair \in todo'
    BY <1>1, <1>3, <1>4, <1>5 DEF Sound, TypeOK, Stays
  <2>2. TypeOK'
    BY <1>1, <1>2, <1>4, <1>5, <2>1 DEF Sound, TypeOK, Stays
  <2> QED
    BY <1>1, <1>5, <2>2 DEF Sound, Places, Apart, FailuresNeverCount, FreshestKept, Stays
<1>6. CASE w = Cycle /\ pc = "fetch" /\ call = None /\ \E pair \in todo : Settled(pair)
  <2>1. PICK pair \in todo : Settled(pair)
    BY <1>6
  <2>2. req'[Cycle] = None
    BY <1>3, <1>4, <1>6 DEF Sound, TypeOK
  <2>3. /\ pair \in polled \X regions
        /\ todo' \subseteq polled \X regions /\ answered' \subseteq polled \X regions
        /\ failed' \subseteq polled \X regions
    BY <2>1 DEF Sound, TypeOK, Settled
  <2>4. /\ counted = {} /\ Places' /\ FailuresNeverCount'
    BY <1>1, <1>6 DEF Sound, Places, FailuresNeverCount
  <2>5. Apart'
    BY <2>1 DEF Sound, Apart, Settled
  <2>6. CASE UNCHANGED <<merged, received>>
    BY <1>1, <1>2, <1>4, <2>2, <2>3, <2>4, <2>5, <2>6 DEF Sound, TypeOK, FreshestKept
  <2>7. ASSUME NEW seen \in SUBSET Aircraft, NEW positions \in [seen -> Time],
               merged' = [a \in Aircraft |-> IF a \in DOMAIN positions
                             THEN Freshest(merged[a], positions[a]) ELSE merged[a]],
               received' = [a \in Aircraft |-> IF a \in DOMAIN positions
                               THEN received[a] \cup {positions[a]} ELSE received[a]]
        PROVE  Sound' /\ FailuresNeverCount' /\ FreshestKept'
    <3>1. /\ merged \in [Aircraft -> Time \cup {None}]
          /\ received \in [Aircraft -> SUBSET Time]
      BY DEF Sound, TypeOK
    <3>2. \A a \in Aircraft : a \in DOMAIN positions => positions[a] \in Time
      BY <2>7
    <3>3. /\ merged' \in [Aircraft -> Time \cup {None}]
          /\ received' \in [Aircraft -> SUBSET Time]
      BY <2>7, <3>1, <3>2, FreshestType
    <3>4. FreshestKept'
      <4> SUFFICES ASSUME NEW a \in Aircraft
                   PROVE  IF received'[a] = {} THEN merged'[a] = None
                          ELSE /\ merged'[a] \in received'[a]
                               /\ \A time \in received'[a] : time <= merged'[a]
        BY DEF FreshestKept
      <4>1. IF received[a] = {} THEN merged[a] = None
            ELSE merged[a] \in received[a] /\ \A time \in received[a] : time <= merged[a]
        BY DEF FreshestKept
      <4>2. CASE a \notin DOMAIN positions
        BY <2>7, <4>1, <4>2
      <4>3. CASE a \in DOMAIN positions
        <5>1. /\ merged'[a] = Freshest(merged[a], positions[a])
              /\ received'[a] = received[a] \cup {positions[a]}
          BY <2>7, <4>3
        <5>2. /\ positions[a] \in Nat /\ None \notin Nat
              /\ received[a] \subseteq Nat /\ merged[a] \in Nat \cup {None}
          BY <3>1, <3>2, <4>3, CycleBoundsAssumption
        <5> QED
          BY <4>1, <5>1, <5>2 DEF Freshest
      <4> QED
        BY <4>2, <4>3
    <3>5. TypeOK'
      BY <1>1, <1>2, <1>4, <2>2, <2>3, <2>4, <3>3 DEF Sound, TypeOK
    <3> QED
      BY <2>4, <2>5, <3>4, <3>5 DEF Sound
  <2> QED
    BY <2>1, <2>6, <2>7 DEF Settled
<1> QED
  BY <1>3, <1>5, <1>6

LEMMA NextSound ==
    Sound /\ FailuresNeverCount /\ FreshestKept /\ [Next]_vars
    => Sound' /\ FailuresNeverCount' /\ FreshestKept'
<1> SUFFICES ASSUME Sound, FailuresNeverCount, FreshestKept, [Next]_vars
             PROVE  Sound' /\ FailuresNeverCount' /\ FreshestKept'
  OBVIOUS
<1> DEFINE Good == Sound /\ FailuresNeverCount /\ FreshestKept
<1>1. ASSUME NEW somewhere \in BOOLEAN, Begin(somewhere) PROVE Good'
  <2>1. Setting(Phase) \in Accepted[Phase]
    BY SettingAccepted, KeyAssumption DEF Sound, TypeOK
  <2>2. todo = {} /\ answered = {} /\ failed = {} /\ counted = {} /\ req[Cycle] = None
    BY <1>1 DEF Begin, Sound, Places, TypeOK
  <2>3. TypeOK'
    BY <1>1, <2>1, <2>2 DEF Begin, Sound, TypeOK, settings, SettingsTypeOK, RunRow
  <2> QED
    BY <1>1, <2>2, <2>3 DEF Begin, Sound, Places, Apart, FailuresNeverCount, FreshestKept
<1>2. CASE NoRegions
  <2>1. /\ Over /\ row' \in RunRow /\ UNCHANGED <<settings, req, attempts>>
        /\ req[Cycle] = None
    BY <1>2 DEF NoRegions, RunRow, Sound, TypeOK
  <2> QED
    BY <2>1, OverSound DEF Sound, TypeOK, settings, SettingsTypeOK
<1>3. CASE Fetch
  <2>1. polled' \subseteq GridProvider /\ todo' = polled' \X regions /\ pc' = "fetch"
    BY <1>3, PolledTyped DEF Fetch, Sound, TypeOK
  <2>2. answered = {} /\ failed = {} /\ counted = {} /\ req[Cycle] = None
    BY <1>3 DEF Fetch, Sound, Places, TypeOK
  <2>3. TypeOK'
    BY <1>3, <2>1, <2>2 DEF Fetch, Sound, TypeOK, settings, SettingsTypeOK
  <2> QED
    BY <1>3, <2>1, <2>2, <2>3
       DEF Fetch, Sound, Places, Apart, FailuresNeverCount, FreshestKept
<1>4. ASSUME NEW w \in Requester, Works(w) PROVE Good'
  BY <1>4, RequestSound
<1>5. CASE Fetched
  <2>1. TypeOK'
    BY <1>5 DEF Fetched, Sound, TypeOK, settings, SettingsTypeOK, fetching
  <2> QED
    BY <1>5, <2>1 DEF Fetched, Sound, Places, Apart, FailuresNeverCount, FreshestKept, fetching
<1>6. ASSUME NEW completes \in BOOLEAN, Detect(completes) PROVE Good'
  <2>1. counted' \subseteq regions /\ req[Cycle] = None
    BY <1>6 DEF Detect, Covered, Sound, TypeOK
  <2>2. TypeOK'
    BY <1>6, <2>1 DEF Detect, Sound, TypeOK, settings, SettingsTypeOK, fetching
  <2>3. FailuresNeverCount'
    <3>1. counted' = {} \/ counted' = Covered
      BY <1>6 DEF Detect, Sound, Places
    <3>2. UNCHANGED <<polled, answered, failed>>
      BY <1>6 DEF Detect, fetching
    <3>3. ASSUME NEW r \in Covered, NEW p \in GridProvider
          PROVE  <<p, r>> \notin failed /\ (p \in polled => <<p, r>> \in answered)
      BY <3>3 DEF Covered, Sound, Apart, TypeOK
    <3> QED
      BY <3>1, <3>2, <3>3 DEF FailuresNeverCount
  <2> QED
    BY <1>6, <2>2, <2>3 DEF Detect, Sound, Places, Apart, FreshestKept, fetching
<1>7. CASE Save
  <2>1. /\ Over /\ row' \in RunRow /\ UNCHANGED <<settings, req, attempts>>
        /\ req[Cycle] = None
    BY <1>7 DEF Save, RunRow, Sound, TypeOK
  <2> QED
    BY <2>1, OverSound DEF Sound, TypeOK, settings, SettingsTypeOK
<1>8. CASE NewDay
  BY <1>8 DEF NewDay, cycle, fetching, settings, Sound, TypeOK, SettingsTypeOK, Places, Apart,
              FailuresNeverCount, FreshestKept
<1>9. ASSUME NEW q \in Request, Update(q) PROVE Good'
  <2>1. SettingsTypeOK'
    BY <1>9, SettingsKept DEF Update, Sound, TypeOK
  <2> QED
    BY <1>9, <2>1 DEF Update, cycle, fetching, Sound, TypeOK, Places, Apart,
                      FailuresNeverCount, FreshestKept
<1>10. CASE \/ \E q \in Request : ServerKilled(q)
            \/ \E e \in Environment, rotated \in BOOLEAN : ServerRestarts(e, rotated)
  <2>1. SettingsTypeOK' /\ Stopped
    BY <1>10, SettingsKept DEF ServerKilled, ServerRestarts, Sound, TypeOK
  <2>2. /\ req' \in [Requester -> Call \cup {None}] /\ req'[Cycle] = None
        /\ row' \in RunRow /\ attempts' \in Nat /\ Over
    BY <2>1 DEF Stopped, Requester, Sound, TypeOK
  <2> QED
    BY <2>1, <2>2, OverSound
<1>11. CASE UNCHANGED vars
  BY <1>11 DEF vars, cycle, fetching, settings, Sound, TypeOK, SettingsTypeOK, Places, Apart,
               FailuresNeverCount, FreshestKept
<1>12. Cycle \in Requester /\ Tester \subseteq Requester
  BY DEF Requester
<1> QED
  BY <1>1, <1>2, <1>3, <1>4, <1>5, <1>6, <1>7, <1>8, <1>9, <1>10, <1>11, <1>12
     DEF Next, CycleStep

(***************************************************************************)
(* The daily quota                                                         *)
(***************************************************************************)

LEMMA RequestersCounted ==
    ASSUME NEW S \in SUBSET Requester, NEW T \in SUBSET S
    PROVE  /\ IsFiniteSet(S) /\ Cardinality(S) \in Nat
           /\ Cardinality(T) \in Nat /\ Cardinality(T) <= Cardinality(S)
<1>1. IsFiniteSet(Tester \cup {Cycle})
  BY FS_AddElement, CycleBoundsAssumption
<1>2. IsFiniteSet(Requester)
  <2>1. Requester = Tester \cup {Cycle}
    BY DEF Requester
  <2> QED
    BY <1>1, <2>1
<1>3. IsFiniteSet(S)
  BY <1>2, FS_Subset
<1>4. IsFiniteSet(T) /\ Cardinality(T) <= Cardinality(S)
  BY <1>3, FS_Subset
<1> QED
  BY <1>3, <1>4, FS_CardinalityType

LEMMA SomeRequester == Cardinality(Requester) \in Nat /\ Cardinality(Requester) >= 1
<1>1. IsFiniteSet(Requester) /\ Cardinality(Requester) \in Nat
  BY RequestersCounted
<1>2. Requester # {}
  BY DEF Requester
<1> QED
  BY <1>1, <1>2, FS_EmptySet

\* What a requester does to the count and the requests under way: nothing more, a
\* request under the limit, or one of them counted.
Frugal(w) ==
    \/ attempts' = attempts /\ InFlight' \subseteq InFlight
    \/ attempts' = attempts /\ attempts < Quota /\ InFlight' \subseteq Requester
    \/ attempts' = attempts + 1 /\ w \in InFlight /\ InFlight' \subseteq InFlight \ {w}

LEMMA TryFrugal ==
    ASSUME TypeOK, NEW w \in Requester, NEW call \in Call, Try(w, call), attempts' = attempts
    PROVE  Frugal(w)
<1>0. req \in [Requester -> Call \cup {None}]
  BY DEF TypeOK
<1>1. ASSUME QuotaLeft(call.pair[1]), req' = [req EXCEPT ![w] = [call EXCEPT !.sent = TRUE]]
      PROVE  Frugal(w)
  <2>1. CASE call.pair[1] = Metered
    BY <1>1, <2>1 DEF QuotaLeft, Frugal, InFlight
  <2>2. CASE call.pair[1] # Metered
    <3>1. req'[w].pair[1] # Metered
      BY <1>0, <1>1, <2>2, CallTypes
    <3>2. \A v \in Requester \ {w} : req'[v] = req[v]
      BY <1>0, <1>1
    <3>3. InFlight' \subseteq InFlight
      BY <3>1, <3>2 DEF InFlight
    <3> QED
      BY <3>3 DEF Frugal
  <2> QED
    BY <2>1, <2>2
<1>2. ASSUME req' = [req EXCEPT ![w] = None] PROVE Frugal(w)
  BY <1>0, <1>2 DEF InFlight, Frugal
<1> QED
  BY <1>1, <1>2 DEF Try

LEMMA RequestFrugal ==
    ASSUME TypeOK, NEW w \in Requester, Works(w)
    PROVE  Frugal(w)
<1>0. req \in [Requester -> Call \cup {None}]
  BY DEF TypeOK
<1>1. ASSUME NEW pair \in Pair, Ask(w, pair) PROVE Frugal(w)
  BY <1>1, CallTypes, TryFrugal DEF Ask
<1>2. ASSUME NEW pair \in Pair, KeyMissing(w, pair) PROVE Frugal(w)
  BY <1>2 DEF KeyMissing, Frugal, InFlight
<1>3. ASSUME Again(w) PROVE Frugal(w)
  BY <1>0, <1>3, TryFrugal DEF Again
<1>4. ASSUME Waiting(w), NEW outcome, Counted(w, outcome),
             \/ req' = [req EXCEPT ![w] = None]
             \/ req' = [req EXCEPT ![w] = NextTry(@)]
      PROVE  Frugal(w)
  <2>1. req[w] \in Call /\ req[w].sent
    BY <1>0, <1>4 DEF Waiting
  <2>2. w \notin InFlight'
    BY <1>0, <1>4, <2>1, CallTypes DEF InFlight
  <2>3. \A v \in Requester \ {w} : req'[v] = req[v]
    BY <1>0, <1>4
  <2>4. InFlight' \subseteq InFlight \ {w}
    BY <2>2, <2>3 DEF InFlight
  <2>5. CASE Counts(w, outcome)
    BY <1>0, <1>4, <2>1, <2>4, <2>5 DEF Counted, Counts, Frugal, InFlight, Waiting
  <2>6. CASE ~Counts(w, outcome)
    BY <1>4, <2>4, <2>6 DEF Counted, Frugal
  <2> QED
    BY <2>5, <2>6
<1>5. ASSUME NEW positions, Answer(w, positions) PROVE Frugal(w)
  BY <1>4, <1>5 DEF Answer
<1>6. ASSUME NEW outcome, Fails(w, outcome) PROVE Frugal(w)
  BY <1>4, <1>6 DEF Fails
<1> QED
  BY <1>1, <1>2, <1>3, <1>5, <1>6 DEF Works

LEMMA QuotaStep == TypeOK /\ QuotaOvershoot /\ [Next]_vars => QuotaOvershoot'
<1> SUFFICES ASSUME TypeOK, QuotaOvershoot, [Next]_vars PROVE QuotaOvershoot'
  OBVIOUS
<1>0. /\ InFlight \subseteq Requester /\ attempts \in Nat /\ Quota \in Nat
      /\ Cardinality(InFlight) \in Nat
  BY RequestersCounted, CycleBoundsAssumption DEF InFlight, TypeOK
<1>1. ASSUME NEW w \in Requester, Works(w) PROVE QuotaOvershoot'
  <2>1. CASE attempts' = attempts /\ InFlight' \subseteq InFlight
    <3>1. /\ Cardinality(InFlight') \in Nat
          /\ Cardinality(InFlight') <= Cardinality(InFlight)
      BY <1>0, <2>1, RequestersCounted
    <3> QED
      BY <1>0, <2>1, <3>1, SomeRequester DEF QuotaOvershoot
  <2>2. CASE attempts' = attempts /\ attempts < Quota /\ InFlight' \subseteq Requester
    <3>1. /\ Cardinality(InFlight') \in Nat
          /\ Cardinality(InFlight') <= Cardinality(Requester)
      BY <2>2, RequestersCounted
    <3> QED
      BY <1>0, <2>2, <3>1, SomeRequester DEF QuotaOvershoot
  <2>3. CASE /\ attempts' = attempts + 1
             /\ w \in InFlight /\ InFlight' \subseteq InFlight \ {w}
    <3>1. IsFiniteSet(InFlight)
      BY <1>0, RequestersCounted
    <3>2. Cardinality(InFlight \ {w}) = Cardinality(InFlight) - 1
      BY <2>3, <3>1, FS_RemoveElement
    <3>3. InFlight \ {w} \in SUBSET Requester
      BY <1>0
    <3>4. /\ Cardinality(InFlight') \in Nat
          /\ Cardinality(InFlight') <= Cardinality(InFlight \ {w})
      BY <2>3, <3>3, RequestersCounted
    <3> QED
      BY <1>0, <2>3, <3>2, <3>4, SomeRequester DEF QuotaOvershoot
  <2> QED
    BY <1>1, <2>1, <2>2, <2>3, RequestFrugal DEF Frugal
<1>2. CASE /\ UNCHANGED req
           /\ attempts' = attempts \/ attempts' = 0
  <2>1. InFlight' = InFlight
    BY <1>2 DEF InFlight
  <2> QED
    BY <1>0, <1>2, <2>1, SomeRequester DEF QuotaOvershoot
<1>3. CASE Stopped
  <2>1. InFlight' = {} /\ attempts' = attempts
    BY <1>3 DEF Stopped, InFlight
  <2>2. Cardinality(InFlight') = 0
    BY <2>1, FS_EmptySet
  <2> QED
    BY <1>0, <2>1, <2>2, SomeRequester DEF QuotaOvershoot
<1>4. CASE \/ \E somewhere \in BOOLEAN : Begin(somewhere)
           \/ NoRegions \/ Fetch \/ Fetched
           \/ \E completes \in BOOLEAN : Detect(completes)
           \/ Save \/ NewDay
           \/ \E q \in Request : Update(q)
           \/ UNCHANGED vars
  <2>1. UNCHANGED req /\ (attempts' = attempts \/ attempts' = 0)
    BY <1>4 DEF Begin, NoRegions, Fetch, Fetched, Detect, Save, NewDay, Update, vars
  <2> QED
    BY <1>2, <2>1
<1>5. Cycle \in Requester /\ Tester \subseteq Requester
  BY DEF Requester
<1> QED
  BY <1>1, <1>3, <1>4, <1>5 DEF Next, CycleStep, ServerKilled, ServerRestarts

(***************************************************************************)
(* The theorems                                                            *)
(***************************************************************************)

LEMMA InitSound == Init => IInv
<1> SUFFICES ASSUME Init PROVE IInv
  OBVIOUS
<1>1. SettingsTypeOK
  <2>1. stored = [k \in Key |-> None] /\ env \in Environment /\ last = "restart"
    BY DEF Init, SettingsInit
  <2> QED
    BY <2>1 DEF SettingsTypeOK
<1>2. Sound
  BY <1>1 DEF Init, Sound, TypeOK, Places, Apart, RunRow, Requester
<1>3. FailuresNeverCount /\ FreshestKept
  BY DEF Init, FailuresNeverCount, FreshestKept
<1>4. InFlight = {} /\ attempts = 0
  BY DEF Init, InFlight
<1>5. QuotaOvershoot
  BY <1>4, FS_EmptySet, SomeRequester, CycleBoundsAssumption DEF QuotaOvershoot
<1> QED
  BY <1>2, <1>3, <1>5 DEF IInv

LEMMA Invariance == Spec => []IInv
<1>1. IInv /\ [Next]_vars => IInv'
  BY NextSound, QuotaStep DEF IInv, Sound
<1> QED
  BY <1>1, InitSound, PTL DEF Spec

\* The cycle, the requests under way and the settings hold what they may, in every
\* behaviour, restarts and kills included.
THEOREM CoverageTypeCorrect == Spec => []TypeOK
<1>1. IInv => TypeOK
  BY DEF IInv, Sound
<1> QED
  BY <1>1, Invariance, PTL

\* The requests counted today and those under way pass the quota by at most one per
\* test, for any quota and any number of tests.
THEOREM QuotaOvershootCorrect == Spec => []QuotaOvershoot
<1>1. IInv => QuotaOvershoot
  BY DEF IInv
<1> QED
  BY <1>1, Invariance, PTL

\* A region is handed to process_missing only after an answer of every polled provider
\* for it and no failure, for any providers and regions.
THEOREM FailuresNeverCountCorrect == Spec => []FailuresNeverCount
<1>1. IInv => FailuresNeverCount
  BY DEF IInv
<1> QED
  BY <1>1, Invariance, PTL

\* Of the positions an aircraft got in a cycle the latest is kept, in whatever order
\* the answers came.
THEOREM FreshestKeptCorrect == Spec => []FreshestKept
<1>1. IInv => FreshestKept
  BY DEF IInv
<1> QED
  BY <1>1, Invariance, PTL

(***************************************************************************)
(* Two properties that runs find violated, each under what it takes for it *)
(* to hold.                                                                *)
(***************************************************************************)

\* A cycle past Fetch has somebody to ask.
SomebodyPolled == pc \in {"fetch", "detect", "save"} => polled # {}

LEMMA PolledStep ==
    ASSUME \A v \in Accepted[Providers] : Listed[v] # {FR24Provider}
    PROVE  TypeOK /\ SomebodyPolled /\ [Next]_vars => SomebodyPolled'
<1> SUFFICES ASSUME TypeOK, SomebodyPolled, [Next]_vars PROVE SomebodyPolled'
  OBVIOUS
<1>1. CASE Fetch
  <2>1. Setting(Providers) \in Accepted[Providers]
    BY SettingAccepted, ProviderAssumption DEF TypeOK
  <2>2. Listed[Setting(Providers)] # {FR24Provider}
    BY <2>1
  <2>3. Polled(Listed[Setting(Providers)]) # {}
    BY <2>2, ProviderAssumption DEF Polled
  <2> QED
    BY <1>1, <2>3 DEF Fetch, SomebodyPolled
<1>2. CASE \/ Fetched \/ NoRegions \/ Save
           \/ \E completes \in BOOLEAN : Detect(completes)
           \/ \E somewhere \in BOOLEAN : Begin(somewhere)
  BY <1>2 DEF Fetched, NoRegions, Save, Over, Detect, Begin, SomebodyPolled, fetching
<1>3. ASSUME NEW w \in Requester, Works(w) PROVE SomebodyPolled'
  BY <1>3 DEF Works, Ask, KeyMissing, Again, Answer, Fails, SomebodyPolled
<1>4. CASE \/ NewDay \/ UNCHANGED vars \/ \E q \in Request : Update(q)
  BY <1>4 DEF NewDay, Update, vars, cycle, fetching, SomebodyPolled
<1>5. CASE \/ \E q \in Request : ServerKilled(q)
           \/ \E e \in Environment, rotated \in BOOLEAN : ServerRestarts(e, rotated)
  BY <1>5 DEF ServerKilled, ServerRestarts, Stopped, Over, SomebodyPolled
<1> QED
  BY <1>1, <1>2, <1>3, <1>4, <1>5 DEF Next, CycleStep, Requester

\* Unless the operator can list flightradar24 and nothing else, a region is covered
\* only when somebody reported on it (fetch_all, the default for an empty list).
THEOREM MeasuredUnlessOnlyFR24 ==
    ASSUME \A v \in Accepted[Providers] : Listed[v] # {FR24Provider}
    PROVE  Spec => []AbsenceMeasured
<1>1. Init => SomebodyPolled
  BY DEF Init, SomebodyPolled
<1>2. TypeOK /\ SomebodyPolled /\ [Next]_vars => SomebodyPolled'
  BY PolledStep
<1>3. IInv /\ SomebodyPolled => AbsenceMeasured
  BY DEF IInv, Sound, Places, TypeOK, SomebodyPolled, FailuresNeverCount, AbsenceMeasured
<1> QED
  BY <1>1, <1>2, <1>3, CoverageTypeCorrect, Invariance, PTL DEF Spec

\* After a request that was answered without an error Live is ready, or the
\* environment insists on Live.
CleanIsReady ==
    last = "clean" /\ Live(env, stored) => Ready(env, stored) \/ Locked(env, Phase)

LEMMA CleanRequest ==
    ASSUME SettingsTypeOK, NEW clear, NEW values, settings_update(clear, values)
    PROVE  CleanIsReady'
<1> DEFINE rows == Rows(clear, Asks(values), values)
           errors == Errors(clear, values)
<1>1. /\ stored' = Checked(rows, errors) /\ env' = env
      /\ last' = "clean" => errors = {}
  BY DEF settings_update
<1>2. DOMAIN rows = Key
  BY DEF Rows
<1>3. Phase \in Key /\ "review" \in Accepted[Phase]
  BY KeyAssumption
<1> HIDE DEF rows, errors
<1>4. CASE errors = {} /\ Live(env, rows) /\ ~Ready(env, rows) /\ ~Locked(env, Phase)
  <2>1. stored'[Phase] = "review"
    BY <1>1, <1>2, <1>3, <1>4 DEF Checked
  <2>2. ~Live(env, stored')
    BY <1>3, <1>4, <2>1 DEF Live, Effective, Locked
  <2> QED
    BY <1>1, <2>2 DEF CleanIsReady
<1>5. CASE ~(errors = {} /\ Live(env, rows) /\ ~Ready(env, rows) /\ ~Locked(env, Phase))
  <2>1. stored' = rows
    BY <1>1, <1>5 DEF Checked
  <2> QED
    BY <1>1, <1>5, <2>1 DEF CleanIsReady
<1> QED
  BY <1>4, <1>5

\* A request answered with success leaves no Live without a way to send e-mail, also
\* one that clears what Live needs (settings_update); only a refused value lets it by.
THEOREM CleanIsReadyCorrect == Spec => []CleanIsReady
<1>1. Init => CleanIsReady
  BY DEF Init, SettingsInit, CleanIsReady
<1>2. TypeOK /\ CleanIsReady /\ [Next]_vars => CleanIsReady'
  <2> SUFFICES ASSUME TypeOK, CleanIsReady, [Next]_vars PROVE CleanIsReady'
    OBVIOUS
  <2>1. CASE \E q \in Request : Update(q)
    BY <2>1, CleanRequest DEF Update, TypeOK
  <2>2. CASE \/ \E q \in Request : ServerKilled(q)
             \/ \E e \in Environment, rotated \in BOOLEAN : ServerRestarts(e, rotated)
    BY <2>2 DEF ServerKilled, UpdateKilled, ServerRestarts, Restart, CleanIsReady
  <2>3. ASSUME UNCHANGED settings PROVE CleanIsReady'
    BY <2>3 DEF settings, CleanIsReady
  <2>4. ASSUME NEW w \in Requester, Works(w) PROVE UNCHANGED settings
    BY <2>4 DEF Works, Ask, KeyMissing, Again, Answer, Fails
  <2>5. CASE \/ NoRegions \/ Fetch \/ Fetched \/ Save \/ NewDay \/ UNCHANGED vars
             \/ \E completes \in BOOLEAN : Detect(completes)
             \/ \E somewhere \in BOOLEAN : Begin(somewhere)
    BY <2>3, <2>5
       DEF NoRegions, Fetch, Fetched, Save, NewDay, vars, Detect, Begin
  <2> QED
    BY <2>1, <2>2, <2>3, <2>4, <2>5 DEF Next, CycleStep, Requester
<1> QED
  BY <1>1, <1>2, CoverageTypeCorrect, PTL DEF Spec
=============================================================================
