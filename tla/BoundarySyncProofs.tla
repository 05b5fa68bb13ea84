------------------------- MODULE BoundarySyncProofs -------------------------
(***************************************************************************)
(* Proofs about BoundarySync, for any territories, sources and schedule:   *)
(* its type invariant, that the regions follow the selection, that the     *)
(* operator's choices outlive syncs and refused requests, that no cycle    *)
(* sees the map change, and that automatic attempts keep the backoff.      *)
(***************************************************************************)
EXTENDS BoundarySync, TLAPS

(***************************************************************************)
(* The inductive invariant                                                 *)
(***************************************************************************)

\* The regions only lag behind while a sync is about to generate them or a request
\* for a selection is under way.
Follows ==
    ~torn /\ lock # "pick" /\ sync.pc # "regions"
        => regions = selected \/ TooBroad(selected)

\* What a request remembers is a selection of the areas there are, and the rollback
\* has cleared the selection, then restored it.
Remembers ==
    /\ pick.pc # "idle" => pick.previous \subseteq areas
    /\ pick.pc = "restore" => selected = {}
    /\ pick.pc = "again" => selected = pick.previous

\* The operator's wish is fulfilled by the selection, or by the one remembered while
\* a request changes it.
Fulfilled(set) ==
    /\ wish = "on" => Watched \in set
    /\ wish = "off" => Watched \notin set

Chosen ==
    ~lost => /\ wish # None => Watched \in areas
             /\ lock # "pick" => Fulfilled(selected)
             /\ pick.pc # "idle" => Fulfilled(pick.previous)

\* The schedule's own counter counts the attempts without a success, and the hours
\* since the last record are at most those since the last attempt.
Spaced ==
    /\ fails = unmet
    /\ age <= since
    /\ unmet > 0 => run \in {"open", "failed"}

IInv == TypeOK /\ Follows /\ Remembers /\ Chosen /\ Spaced

(***************************************************************************)
(* Types                                                                   *)
(***************************************************************************)

\* The schedule is a sequence with at least one entry.
LEMMA BackoffLength ==
    Len(Backoff) \in Nat /\ Len(Backoff) > 0 /\ DOMAIN Backoff = 1..Len(Backoff)
BY TimeAssumption

LEMMA InitCorrect == Init => IInv
<1> SUFFICES ASSUME Init PROVE IInv
    OBVIOUS
<1>1. TypeOK
  <2>1. fails \in 0..Len(Backoff) /\ unmet \in 0..Len(Backoff) /\ faults \in 0..MaxFaults
    BY BackoffLength, TimeAssumption DEF Init
  <2>2. age \in Hour /\ since \in Hour
    BY TimeAssumption DEF Init, Hour
  <2> QED
    BY <2>1, <2>2 DEF Init, TypeOK, IdleSync, IdlePick, Nobody, None
<1>2. Follows /\ Remembers /\ Chosen /\ Spaced
  BY DEF Init, Follows, Remembers, Chosen, Fulfilled, Spaced, IdleSync, IdlePick, Nobody, None
<1> QED
  BY <1>1, <1>2 DEF IInv

LEMMA StartTyped == ASSUME TypeOK, Start PROVE TypeOK'
<1>1. fails' \in 0..Len(Backoff) /\ unmet' \in 0..Len(Backoff)
  BY BackoffLength DEF TypeOK, Start, Capped
<1>2. age' \in Hour /\ since' \in Hour
  BY TimeAssumption DEF Start, Hour
<1> QED
  BY <1>1, <1>2 DEF TypeOK, Start, Free, Nobody, IdleSync, tables, choices

LEMMA SyncStepTyped == ASSUME TypeOK, SyncStep PROVE TypeOK'
<1>1. CASE DownloadFails
  BY <1>1 DEF TypeOK, DownloadFails, tables, schedule, choices
<1>2. ASSUME NEW territories \in SUBSET Territory, NEW units \in SUBSET Unit,
             Download(territories, units)
      PROVE  TypeOK'
  BY <1>2 DEF TypeOK, Download, Records, tables, schedule, choices, AreaId
<1>3. CASE Replace
  <2>1. areas' \subseteq AreaId /\ selected' \subseteq areas'
    BY <1>3 DEF TypeOK, Replace
  <2> QED
    BY <1>3, <2>1 DEF TypeOK, Replace, schedule
<1>4. CASE SyncRegions
  BY <1>4 DEF TypeOK, SyncRegions, Regenerate, schedule, choices
<1>5. CASE SaveRun
  <2>1. fails' \in 0..Len(Backoff) /\ unmet' \in 0..Len(Backoff)
    BY <1>5, BackoffLength DEF TypeOK, SaveRun
  <2>2. age' \in Hour
    BY <1>5, TimeAssumption DEF SaveRun, Hour
  <2> QED
    BY <1>5, <2>1, <2>2 DEF TypeOK, SaveRun, IdleSync, Nobody, tables, choices
<1>6. TerritoryAnswers = SUBSET Territory /\ UnitAnswers \subseteq SUBSET Unit
  BY DEF TerritoryAnswers, UnitAnswers, Unit
<1> QED
  BY <1>1, <1>2, <1>3, <1>4, <1>5, <1>6 DEF SyncStep

LEMMA SelectTyped ==
    ASSUME TypeOK, NEW chosen \in SUBSET areas, NEW on \in BOOLEAN, Select(chosen, on)
    PROVE  TypeOK'
<1>1. selected' \subseteq areas' /\ selected \subseteq AreaId
  BY DEF TypeOK, Select
<1> QED
  BY <1>1 DEF TypeOK, Select, Free, Nobody, schedule, choices

LEMMA PickStepTyped == ASSUME TypeOK, PickStep PROVE TypeOK'
<1>1. CASE PickRegions
  <2>1. wish' \in {"on", "off", None} /\ lost' \in BOOLEAN
    BY <1>1 DEF TypeOK, PickRegions, Accept, choices
  <2>2. CASE ~TooBroad(selected) /\ Regenerate /\ PickOver
    BY <1>1, <2>1, <2>2
    DEF TypeOK, PickRegions, Regenerate, PickOver, IdlePick, Nobody, schedule
  <2>3. CASE pick' = [pick EXCEPT !.pc = "clear"] /\ UNCHANGED <<regions, lock, torn>>
    BY <1>1, <2>1, <2>3 DEF TypeOK, PickRegions, schedule
  <2> QED
    BY <1>1, <2>2, <2>3 DEF PickRegions
<1>2. CASE PickClear
  BY <1>2 DEF TypeOK, PickClear, schedule, choices
<1>3. CASE PickRestore
  BY <1>3 DEF TypeOK, PickRestore, schedule, choices
<1>4. CASE PickAgain
  BY <1>4 DEF TypeOK, PickAgain, Regenerate, PickOver, IdlePick, Nobody, schedule, choices
<1> QED
  BY <1>1, <1>2, <1>3, <1>4 DEF PickStep

LEMMA TickTyped == ASSUME TypeOK, Tick PROVE TypeOK'
<1>1. age' \in Hour /\ since' \in Hour
  BY TimeAssumption DEF TypeOK, Tick, Hour, Capped
<1> QED
  BY <1>1 DEF TypeOK, Tick, tables, choices

LEMMA FaultTyped == ASSUME TypeOK, Kill \/ Breaks PROVE TypeOK'
<1>1. faults' \in 0..MaxFaults
  BY TimeAssumption DEF TypeOK, Kill, Breaks
<1>2. wish' \in {"on", "off", None} /\ lost' \in BOOLEAN
  BY DEF TypeOK, Kill, Breaks, Forget, choices
<1>3. CASE Kill
  BY <1>1, <1>2, <1>3 DEF TypeOK, Kill, IdleSync, IdlePick, Nobody, tables, schedule
<1>4. CASE Breaks
  <2>1. CASE sync.pc \in {"download", "replace", "regions"} /\ sync' = [sync EXCEPT !.pc = "failed"]
             /\ torn' = (torn \/ sync.pc = "regions") /\ UNCHANGED <<lock, pick, choices>>
    BY <1>1, <1>2, <1>4, <2>1 DEF TypeOK, Breaks, tables, schedule
  <2>2. CASE pick.pc # "idle" /\ PickOver /\ torn' = TRUE /\ UNCHANGED sync
    BY <1>1, <1>2, <1>4, <2>2 DEF TypeOK, Breaks, PickOver, IdlePick, Nobody, tables, schedule
  <2> QED
    BY <1>4, <2>1, <2>2 DEF Breaks
<1> QED
  BY <1>3, <1>4

LEMMA TypeStep == TypeOK /\ [Next]_vars => TypeOK'
<1> SUFFICES ASSUME TypeOK, [Next]_vars PROVE TypeOK'
    OBVIOUS
<1>1. CASE AutoStart \/ ManualStart
  BY <1>1, StartTyped DEF AutoStart, ManualStart
<1>2. CASE CycleStart
  BY <1>2 DEF TypeOK, CycleStart, CycleBegin, Free, Nobody, tables, schedule, choices
<1>3. CASE CycleEnd
  BY <1>3 DEF TypeOK, CycleEnd, Nobody, tables, schedule, choices
<1>4. CASE UNCHANGED vars
  BY <1>4 DEF TypeOK, vars, tables, schedule, choices
<1> QED
  BY <1>1, <1>2, <1>3, <1>4, SyncStepTyped, SelectTyped, PickStepTyped, TickTyped, FaultTyped
  DEF Next

(***************************************************************************)
(* The regions and the selection                                           *)
(***************************************************************************)

LEMMA FollowsStep == TypeOK /\ Follows /\ [Next]_vars => Follows'
<1> SUFFICES ASSUME TypeOK, Follows, [Next]_vars PROVE Follows'
    OBVIOUS
<1> USE DEF Follows
<1>1. CASE AutoStart \/ ManualStart
  BY <1>1 DEF TypeOK, AutoStart, ManualStart, Start, Free, Nobody, IdleSync, tables, TooBroad
<1>2. CASE SyncStep
  <2>0. sync.pc # "idle" => lock # "pick"
    BY DEF TypeOK
  <2>1. CASE DownloadFails
    BY <2>0, <2>1 DEF TypeOK, DownloadFails, tables, TooBroad
  <2>2. ASSUME NEW territories, NEW units, Download(territories, units)
        PROVE  Follows'
    BY <2>0, <2>2 DEF TypeOK, Download, tables, TooBroad
  <2>3. CASE Replace
    BY <2>3 DEF TypeOK, Replace
  <2>4. CASE SyncRegions
    BY <2>4 DEF TypeOK, SyncRegions, Regenerate, TooBroad
  <2>5. CASE SaveRun
    BY <2>0, <2>5 DEF TypeOK, SaveRun, tables, TooBroad
  <2> QED
    BY <1>2, <2>1, <2>2, <2>3, <2>4, <2>5 DEF SyncStep
<1>3. ASSUME NEW chosen, NEW on, Select(chosen, on)
      PROVE  Follows'
  BY <1>3 DEF Select
<1>4. CASE PickStep
  <2>1. CASE PickRegions
    BY <2>1 DEF TypeOK, PickRegions, Regenerate, TooBroad
  <2>2. CASE PickClear \/ PickRestore
    BY <2>2 DEF TypeOK, PickClear, PickRestore
  <2>3. CASE PickAgain
    BY <2>3 DEF TypeOK, PickAgain, Regenerate, TooBroad
  <2> QED
    BY <1>4, <2>1, <2>2, <2>3 DEF PickStep
<1>5. CASE CycleStart \/ CycleEnd
  BY <1>5 DEF TypeOK, CycleStart, CycleBegin, CycleEnd, Free, Nobody, tables, TooBroad
<1>6. CASE Tick \/ UNCHANGED vars
  BY <1>6 DEF Tick, vars, tables, TooBroad
<1>7. CASE Kill \/ Breaks
  BY <1>7 DEF TypeOK, Kill, Breaks, Free, tables, TooBroad
<1> QED
  BY <1>1, <1>2, <1>3, <1>4, <1>5, <1>6, <1>7 DEF Next

(***************************************************************************)
(* The operator's choices                                                  *)
(***************************************************************************)

LEMMA RemembersStep == TypeOK /\ Remembers /\ [Next]_vars => Remembers'
<1> SUFFICES ASSUME TypeOK, Remembers, [Next]_vars PROVE Remembers'
    OBVIOUS
<1> USE DEF Remembers
<1>1. CASE AutoStart \/ ManualStart \/ SyncStep
  <2>1. pick.pc = "idle" /\ pick' = pick
    BY <1>1 DEF TypeOK, AutoStart, ManualStart, Start, Free, Nobody, SyncStep, DownloadFails,
                Download, Replace, SyncRegions, SaveRun
  <2> QED
    BY <2>1
<1>2. ASSUME NEW chosen, NEW on, Select(chosen, on)
      PROVE  Remembers'
  BY <1>2 DEF TypeOK, Select
<1>3. CASE PickStep
  <2>1. CASE PickRegions
    BY <2>1 DEF TypeOK, PickRegions, PickOver, IdlePick
  <2>2. CASE PickClear
    BY <2>2 DEF TypeOK, PickClear
  <2>3. CASE PickRestore
    BY <2>3 DEF TypeOK, PickRestore
  <2>4. CASE PickAgain
    BY <2>4 DEF TypeOK, PickAgain, PickOver, IdlePick
  <2> QED
    BY <1>3, <2>1, <2>2, <2>3, <2>4 DEF PickStep
<1>4. CASE CycleStart \/ CycleEnd \/ Tick \/ UNCHANGED vars
  BY <1>4 DEF CycleStart, CycleEnd, Tick, vars, tables
<1>5. CASE Kill
  BY <1>5 DEF Kill, IdlePick
<1>6. CASE Breaks
  BY <1>6 DEF Breaks, PickOver, IdlePick, tables
<1> QED
  BY <1>1, <1>2, <1>3, <1>4, <1>5, <1>6 DEF Next

\* A step that leaves the selection, the request and the wish alone.
LEMMA ChosenKept ==
    ASSUME Chosen, UNCHANGED <<areas, selected, pick, choices>>,
           lock = "pick" <=> lock' = "pick"
    PROVE  Chosen'
BY DEF Chosen, Fulfilled, choices

LEMMA ChosenStep == TypeOK /\ Remembers /\ Chosen /\ [Next]_vars => Chosen'
<1> SUFFICES ASSUME TypeOK, Remembers, Chosen, [Next]_vars PROVE Chosen'
    OBVIOUS
<1>1. CASE AutoStart \/ ManualStart
  BY <1>1, ChosenKept DEF AutoStart, ManualStart, Start, Free, Nobody, tables
<1>2. CASE SyncStep
  <2>0. sync.pc # "idle" => lock # "pick" /\ pick.pc = "idle"
    BY DEF TypeOK
  <2>1. CASE DownloadFails
    BY <2>1, ChosenKept DEF DownloadFails, tables
  <2>2. ASSUME NEW territories, NEW units, Download(territories, units)
        PROVE  Chosen'
    BY <2>2, ChosenKept DEF Download, tables
  <2>3. CASE Replace
    <3>1. CASE Watched \in sync.records
      <4>1. ~lost => (wish # None => Watched \in areas)
        BY DEF Chosen
      <4>2. Watched \in areas => (Watched \in selected' <=> Watched \in selected)
        BY <2>3, <3>1 DEF Replace, TypeOK
      <4>3. Watched \in areas' /\ lost' = lost /\ wish' = wish /\ pick' = pick /\ lock' = lock
        BY <2>3, <3>1 DEF Replace, TypeOK
      <4> QED
        BY <2>0, <2>3, <4>1, <4>2, <4>3 DEF Chosen, Fulfilled, Replace, None
    <3>2. CASE Watched \notin sync.records
      BY <2>3, <3>2 DEF Replace, Chosen
    <3> QED
      BY <3>1, <3>2
  <2>4. CASE SyncRegions
    BY <2>4, ChosenKept DEF SyncRegions
  <2>5. CASE SaveRun
    BY <2>0, <2>5, ChosenKept DEF SaveRun, tables, Nobody
  <2> QED
    BY <1>2, <2>1, <2>2, <2>3, <2>4, <2>5 DEF SyncStep
<1>3. ASSUME NEW chosen, NEW on, Select(chosen, on)
      PROVE  Chosen'
  BY <1>3 DEF TypeOK, Select, Chosen, Fulfilled, Free, Nobody, choices
<1>4. CASE PickStep
  <2>1. CASE PickRegions
    <3>1. CASE ~TooBroad(selected) /\ Regenerate /\ PickOver /\ Accept
      <4>0. /\ selected \subseteq areas /\ pick.previous \subseteq areas
            /\ pick' = IdlePick /\ UNCHANGED <<areas, selected>>
        BY <2>1, <3>1 DEF TypeOK, Remembers, PickRegions, PickOver
      <4>1. CASE Watched \in selected <=> Watched \in pick.previous
        BY <2>1, <3>1, <4>0, <4>1
        DEF PickRegions, Accept, Chosen, Fulfilled, IdlePick, choices
      <4>2. CASE ~(Watched \in selected <=> Watched \in pick.previous)
        BY <2>1, <3>1, <4>0, <4>2 DEF PickRegions, Accept, Chosen, Fulfilled, IdlePick, None
      <4> QED
        BY <4>1, <4>2
    <3>2. CASE /\ pick' = [pick EXCEPT !.pc = "clear"]
               /\ UNCHANGED <<regions, lock, torn, choices>>
      BY <2>1, <3>2 DEF TypeOK, PickRegions, Chosen, Fulfilled, choices
    <3> QED
      BY <2>1, <3>1, <3>2 DEF PickRegions
  <2>2. CASE PickClear
    BY <2>2 DEF TypeOK, PickClear, Chosen, Fulfilled, choices
  <2>3. CASE PickRestore
    BY <2>3 DEF TypeOK, PickRestore, Chosen, Fulfilled, choices
  <2>4. CASE PickAgain
    BY <2>4 DEF Remembers, PickAgain, PickOver, IdlePick, Chosen, Fulfilled, choices
  <2> QED
    BY <1>4, <2>1, <2>2, <2>3, <2>4 DEF PickStep
<1>5. CASE CycleStart
  BY <1>5, ChosenKept DEF CycleStart, CycleBegin, Free, Nobody, tables
<1>6. CASE CycleEnd
  BY <1>6, ChosenKept DEF CycleEnd, Nobody, tables
<1>7. CASE Tick \/ UNCHANGED vars
  BY <1>7, ChosenKept DEF Tick, vars, tables
<1>8. CASE Kill
  <2>1. CASE pick.pc # "idle"
    BY <1>8, <2>1 DEF Kill, Forget, Chosen, Fulfilled, IdlePick, None
  <2>2. CASE pick.pc = "idle"
    BY <1>8, <2>2 DEF TypeOK, Kill, Chosen, Fulfilled, IdlePick, tables, choices
  <2> QED
    BY <2>1, <2>2
<1>9. CASE Breaks
  <2>1. CASE UNCHANGED <<lock, pick, choices>>
    BY <1>9, <2>1, ChosenKept DEF Breaks, tables
  <2>2. CASE PickOver /\ Forget
    BY <2>2 DEF PickOver, Forget, Chosen, Fulfilled, IdlePick, None
  <2> QED
    BY <1>9, <2>1, <2>2 DEF Breaks
<1> QED
  BY <1>1, <1>2, <1>3, <1>4, <1>5, <1>6, <1>7, <1>8, <1>9 DEF Next

(***************************************************************************)
(* The schedule                                                            *)
(***************************************************************************)

LEMMA SpacedStep == TypeOK /\ Spaced /\ [Next]_vars => Spaced'
<1> SUFFICES ASSUME TypeOK, Spaced, [Next]_vars PROVE Spaced'
    OBVIOUS
<1>1. CASE AutoStart \/ ManualStart
  BY <1>1 DEF AutoStart, ManualStart, Start, Spaced
<1>2. CASE SaveRun
  <2>1. since' \in Nat /\ since' = since
    BY <1>2, TimeAssumption DEF TypeOK, SaveRun, Hour
  <2> QED
    BY <1>2, <2>1 DEF SaveRun, Spaced
<1>3. CASE Tick
  <2>1. age \in Nat /\ since \in Nat /\ MaxAge \in Nat
    BY TimeAssumption DEF TypeOK, Hour
  <2> QED
    BY <1>3, <2>1 DEF Tick, Spaced, Capped
<1>4. CASE UNCHANGED schedule
  BY <1>4 DEF schedule, Spaced
<1>5. [Next]_vars => \/ AutoStart \/ ManualStart \/ SaveRun \/ Tick \/ UNCHANGED schedule
  BY DEF Next, SyncStep, DownloadFails, Download, Replace, SyncRegions, Select, PickStep,
         PickRegions, PickClear, PickRestore, PickAgain, CycleStart, CycleEnd, Kill, Breaks, vars
<1> QED
  BY <1>1, <1>2, <1>3, <1>4, <1>5

(***************************************************************************)
(* Theorems                                                                *)
(***************************************************************************)

LEMMA IInvHolds == Spec => []IInv
<1>1. IInv /\ [Next]_vars => IInv'
  BY TypeStep, FollowsStep, RemembersStep, ChosenStep, SpacedStep DEF IInv
<1> QED
  BY InitCorrect, <1>1, PTL DEF Spec

\* The tables, the locks, the run and the counters keep their types; nothing is
\* selected that is not there.
THEOREM BoundaryTypeCorrect == Spec => []TypeOK
<1>1. IInv => TypeOK
  BY DEF IInv
<1> QED
  BY <1>1, IInvHolds, PTL

\* With nobody at work the regions are those of the selection, but for faults and a
\* selection that outgrew the limit (areas_selection, regenerate_query_regions).
THEOREM RegionsMatchCorrect == Spec => []RegionsMatch
<1>1. IInv => RegionsMatch
  BY DEF IInv, TypeOK, Follows, RegionsMatch, Free, Nobody
<1> QED
  BY <1>1, IInvHolds, PTL

\* The operator's last word on any area holds as long as every result has brought
\* the area again (replace_areas, areas_selection and its rollback).
THEOREM ChoicesKeptCorrect == Spec => []ChoicesKept
<1>1. IInv => ChoicesKept
  BY DEF IInv, Chosen, Fulfilled, ChoicesKept, Obeyed, Free, Nobody
<1> QED
  BY <1>1, IInvHolds, PTL

\* No step of a sync or of a selection changes areas, selection or regions while a
\* coverage cycle holds its lock (exclusive_job_lock).
THEOREM OneMapPerCycleCorrect == Spec => OneMapPerCycle
<1>1. ASSUME IInv, [Next]_vars
      PROVE  [lock = "cycle" /\ lock' = "cycle" => UNCHANGED tables]_vars
  <2> SUFFICES ASSUME lock = "cycle", Next PROVE UNCHANGED tables
      BY <1>1 DEF vars
  <2>1. sync.pc = "idle" /\ pick.pc = "idle" /\ ~Free
    BY <1>1 DEF IInv, TypeOK, Free, Nobody
  <2>2. ~AutoStart /\ ~ManualStart /\ ~SyncStep /\ ~PickStep /\ ~CycleStart
    BY <2>1 DEF AutoStart, ManualStart, Start, SyncStep, DownloadFails, Download, Replace,
                SyncRegions, SaveRun, PickStep, PickRegions, PickClear, PickRestore, PickAgain,
                CycleStart, CycleBegin
  <2>3. ~\E chosen \in SUBSET areas, on \in BOOLEAN : Select(chosen, on)
    BY <2>1 DEF Select
  <2>4. CycleEnd \/ Tick \/ Kill \/ Breaks => UNCHANGED tables
    BY DEF CycleEnd, Tick, Kill, Breaks
  <2> QED
    BY <2>2, <2>3, <2>4 DEF Next
<1> QED
  BY <1>1, IInvHolds, PTL DEF Spec, OneMapPerCycle

\* Automatic attempts without a success between them begin at least the backoff
\* apart, also after attempts that were killed (_sync_due, _sync_backoff_hours).
THEOREM AttemptsApartCorrect == Spec => AttemptsApart
<1>1. ASSUME IInv, [Next]_vars
      PROVE  [AutoStart /\ unmet > 0 => since >= BackoffHours(unmet)]_vars
  <2> SUFFICES ASSUME AutoStart, unmet > 0 PROVE since >= BackoffHours(unmet)
      OBVIOUS
  <2>1. run \in {"open", "failed"} /\ fails = unmet /\ age <= since
    BY <1>1 DEF IInv, Spaced
  <2>2. age >= BackoffHours(unmet)
    BY <2>1 DEF AutoStart, Due
  <2>3. age \in Nat /\ since \in Nat
    BY <1>1, TimeAssumption DEF IInv, TypeOK, Hour
  <2>4. BackoffHours(unmet) \in Nat
    <3>1. unmet \in 1..Len(Backoff)
      BY <1>1, BackoffLength DEF IInv, TypeOK
    <3>2. Capped(unmet, Len(Backoff)) \in DOMAIN Backoff
      BY <3>1, BackoffLength DEF Capped
    <3> QED
      BY <3>1, <3>2, TimeAssumption DEF BackoffHours
  <2> QED
    BY <2>1, <2>2, <2>3, <2>4
<1> QED
  BY <1>1, IInvHolds, PTL DEF Spec, AttemptsApart

=============================================================================
