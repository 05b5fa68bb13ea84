-------------------------- MODULE DetectionProofs --------------------------
(***************************************************************************)
(* Two loops over one database keep the row coherent, back every flag by   *)
(* its alert and count missed cycles only on the very row they were        *)
(* counted from, for every setting, every set of reports and every number  *)
(* of cycles and crashes.                                                  *)
(*                                                                         *)
(* The inductive invariant says of a payload on its way to the database    *)
(* what the properties say of the row it becomes, and how it relates to    *)
(* the row that is there now: Local(l).  What loop l does concerns its own *)
(* Local(l); the lemma OtherLoop says why it cannot break the other one.   *)
(***************************************************************************)
EXTENDS Detection, TLAPS

(***************************************************************************)
(* What the operators of Episode do to a coherent row, for every setting.  *)
(***************************************************************************)

LEMMA SettingsTypes ==
    /\ OutsideConfirm \in Nat /\ OutsideConfirm >= 1
    /\ StopObservations \in Nat /\ StopObservations >= 1
    /\ GoneObservations \in Nat /\ GoneObservations >= 1
    /\ GonePolls \in Nat /\ GonePolls >= 1
    /\ StopDuration \in Nat /\ StopDuration >= 1
<1>1. /\ OutsideConfirm \in Nat \ {0} /\ StopObservations \in Nat \ {0}
      /\ GoneObservations \in Nat \ {0} /\ GonePolls \in Nat \ {0}
      /\ StopDuration \in Nat \ {0}
  BY SettingsAssumption, Zenon
<1> QED
  BY <1>1

LEMMA NoneFacts == None \notin Nat /\ None \notin Pos
<1>1. \A n \in Nat : n \in Int
  OBVIOUS
<1>2. None \notin Nat
  BY <1>1, NoneAssumption, Zenon
<1>3. None \notin Pos
  BY NoneAssumption, WorldAssumption, Zenon
<1> QED
  BY <1>2, <1>3

\* _close_episode leaves a blank coherent row (an observation outside).
LEMMA ClosedCoherent ==
    ASSUME NEW o \in Observation, ~Inside(o.pos)
    PROVE  Closed(o) \in State /\ Coherent(Closed(o))
<1>1. Closed(o) \in State
  BY DEF Closed, State, Observation
<1>2. Coherent(Closed(o))
  BY SettingsTypes DEF Closed, Coherent
<1> QED
  BY <1>1, <1>2

\* A new episode is coherent.
LEMMA OpenedCoherent ==
    ASSUME NEW o \in Observation, Inside(o.pos)
    PROVE  Opened(o) \in State /\ Coherent(Opened(o))
<1>1. Opened(o) \in State
  BY DEF Opened, State, Observation
<1>2. o.seen \in Nat /\ o.pos \in Pos
  BY DEF Observation
<1>3. Coherent(Opened(o))
  BY <1>2, SettingsTypes, NoneFacts DEF Opened, Coherent
<1> QED
  BY <1>1, <1>3

LEMMA StateTypes ==
    ASSUME NEW r \in State
    PROVE  /\ r.seen \in Nat /\ r.pos \in Pos
           /\ r.insideObs \in Nat /\ r.outsideObs \in Nat /\ r.missing \in Nat
           /\ r.since \in Nat \cup {None} /\ r.anchor \in Pos \cup {None}
           /\ r.episode \in Nat \cup {None}
           /\ r.inside \in BOOLEAN /\ r.stopped \in BOOLEAN /\ r.gone \in BOOLEAN
           /\ r # None
BY NoneIsNoState DEF State

LEMMA LocatedType ==
    ASSUME NEW r \in State, NEW o \in Observation
    PROVE  Located(r, o) \in State
BY DEF Located, State, Observation

\* A pending exit keeps the episode and counts no missed cycle.
LEMMA LeftCoherent ==
    ASSUME NEW r \in State, Coherent(r), HasEpisode(r),
           NEW o \in Observation, o.seen > r.seen, ~Inside(o.pos)
    PROVE  Left(r, o) \in State /\ Coherent(Left(r, o))
<1>1. CASE r.outsideObs + 1 >= OutsideConfirm
  BY <1>1, ClosedCoherent DEF Left
<1>2. CASE ~(r.outsideObs + 1 >= OutsideConfirm)
  <2> DEFINE new == [Located(r, o) EXCEPT !.outsideObs = @ + 1]
  <2>1. Left(r, o) = new
    BY <1>2 DEF Left
  <2>2. new \in State
    <3>1. Located(r, o) \in State
      BY LocatedType
    <3>2. Located(r, o).outsideObs + 1 \in Nat
      BY <3>1, StateTypes
    <3> QED
      BY <3>1, <3>2 DEF State
  <2>3. /\ new.seen = o.seen /\ new.pos = o.pos /\ new.missing = 0
        /\ new.outsideObs = r.outsideObs + 1
        /\ new.inside = r.inside /\ new.insideObs = r.insideObs
        /\ new.since = r.since /\ new.anchor = r.anchor
        /\ new.episode = r.episode
        /\ new.stopped = r.stopped /\ new.gone = r.gone
    BY DEF Located, State
  <2>4. o.seen \in Nat
    BY DEF Observation
  <2> HIDE DEF new
  <2>5. Coherent(new)
    BY <1>2, <2>3, <2>4, StateTypes, SettingsTypes, NoneFacts DEF Coherent, HasEpisode
  <2> QED
    BY <2>1, <2>2, <2>5
<1> QED
  BY <1>1, <1>2

\* An observation inside advances the episode and keeps the row coherent.
LEMMA AdvancedCoherent ==
    ASSUME NEW r \in State, Coherent(r), Continuing(r),
           NEW o \in Observation, o.seen > r.seen, Inside(o.pos)
    PROVE  /\ Advanced(r, o) \in State
           /\ Coherent(Advanced(r, o))
           /\ Advanced(r, o).episode = r.episode
<1> DEFINE win == Windowed(r, o)
           new == [Located(win, o) EXCEPT
                      !.airline = o.airline, !.insideObs = @ + 1, !.outsideObs = 0]
<1>1. Advanced(r, o) = new
  BY DEF Advanced
<1>2. o.seen \in Nat /\ o.pos \in Pos
  BY DEF Observation
<1>3. /\ win \in State
      /\ win.insideObs = r.insideObs /\ win.inside = r.inside
      /\ win.episode = r.episode
      /\ win.stopped = r.stopped /\ win.gone = r.gone
  BY <1>2 DEF Windowed, State
<1>4. \/ win.since = None /\ win.anchor = None
      \/ win.since = r.since /\ win.anchor = r.anchor /\ r.anchor # None
      \/ win.since = o.seen /\ win.anchor = o.pos
  BY DEF Windowed, KeepsWindow, State
<1> HIDE DEF win
<1>5. new \in State
  <2>1. Located(win, o) \in State
    BY <1>3, LocatedType
  <2>2. Located(win, o).insideObs + 1 \in Nat
    BY <2>1, StateTypes
  <2>3. o.airline \in BOOLEAN
    BY DEF Observation
  <2> QED
    BY <2>1, <2>2, <2>3 DEF State
<1>6. /\ new.seen = o.seen /\ new.pos = o.pos /\ new.missing = 0
      /\ new.outsideObs = 0 /\ new.insideObs = win.insideObs + 1
      /\ new.inside = win.inside /\ new.episode = win.episode
      /\ new.since = win.since /\ new.anchor = win.anchor
      /\ new.stopped = win.stopped /\ new.gone = win.gone
  BY <1>3 DEF Located, State
<1> HIDE DEF new
<1>7. Coherent(new)
  BY <1>2, <1>3, <1>4, <1>6, StateTypes, SettingsTypes, NoneFacts
     DEF Coherent, Continuing, HasEpisode
<1> QED
  BY <1>1, <1>3, <1>5, <1>6, <1>7

\* What an accepted observation makes of a coherent row, or of no row, is a
\* coherent row; a stop is due only once the minimum of observations is met.
LEMMA UpdateCoherent ==
    ASSUME NEW r \in State \cup {None}, r # None => Coherent(r),
           NEW o \in Observation, Writes(r, o)
    PROVE  /\ Update(r, o) \in State
           /\ Coherent(Update(r, o))
           /\ RaisesStop(r, o) =>
                 /\ r # None
                 /\ Update(r, o).episode = r.episode
                 /\ Update(r, o).episode # None
                 /\ Update(r, o).insideObs >= StopObservations
<1>1. r # None => r \in State /\ o.seen > r.seen
  BY StateTypes DEF Writes, Stale, Observation
<1>2. CASE Inside(o.pos) /\ Continuing(r)
  <2>1. r # None
    BY <1>2 DEF Continuing, HasEpisode
  <2>2. Update(r, o) = Advanced(r, o)
    BY <1>2 DEF Update
  <2> QED
    BY <1>1, <1>2, <2>1, <2>2, AdvancedCoherent
       DEF RaisesStop, StopDue, Continuing, HasEpisode
<1>3. CASE Inside(o.pos) /\ ~Continuing(r)
  BY <1>3, OpenedCoherent DEF Update, RaisesStop
<1>4. CASE ~Inside(o.pos) /\ HasEpisode(r)
  BY <1>1, <1>4, LeftCoherent DEF Update, RaisesStop, HasEpisode
<1>5. CASE ~Inside(o.pos) /\ ~HasEpisode(r)
  BY <1>5, ClosedCoherent DEF Update, RaisesStop
<1> QED
  BY <1>2, <1>3, <1>4, <1>5

\* Raising the stop flag on a row that met its minimum keeps it coherent.
LEMMA StoppedCoherent ==
    ASSUME NEW r \in State, Coherent(r), r.episode # None,
           r.insideObs >= StopObservations, NEW flag \in BOOLEAN
    PROVE  LET new == [r EXCEPT !.stopped = flag]
           IN  new \in State /\ Coherent(new)
<1> DEFINE new == [r EXCEPT !.stopped = flag]
<1>1. new \in State
  BY DEF State
<1>2. Coherent(new)
  BY DEF Coherent, State
<1> QED
  BY <1>1, <1>2

\* A counted cycle, and the flag it may raise, keep the row coherent.
LEMMA MissedCoherent ==
    ASSUME NEW r \in State, Coherent(r), NEW successful, Counts(r, successful)
    PROVE  /\ Missed(r) \in State
           /\ Coherent(Missed(r))
           /\ Missed(r).episode = r.episode
           /\ GoneDue(Missed(r)) =>
                 \A flag \in BOOLEAN :
                    LET new == [Missed(r) EXCEPT !.gone = flag]
                    IN  new \in State /\ Coherent(new)
<1> DEFINE m == Missed(r)
<1>1. /\ m \in State
      /\ m.missing = r.missing + 1 /\ m.outsideObs = r.outsideObs
      /\ m.episode = r.episode /\ m.inside = r.inside
      /\ m.insideObs = r.insideObs /\ m.since = r.since /\ m.anchor = r.anchor
      /\ m.seen = r.seen /\ m.pos = r.pos
      /\ m.stopped = r.stopped /\ m.gone = r.gone
  BY DEF Missed, State
<1>2. r.episode # None /\ r.outsideObs = 0
  BY DEF Counts, HasEpisode
<1> HIDE DEF m
<1>3. Coherent(m)
  BY <1>1, <1>2, StateTypes DEF Coherent
<1>4. ASSUME GoneDue(m), NEW flag \in BOOLEAN
      PROVE  LET new == [m EXCEPT !.gone = flag] IN new \in State /\ Coherent(new)
  <2>1. [m EXCEPT !.gone = flag] \in State
    BY <1>1 DEF State
  <2>2. Coherent([m EXCEPT !.gone = flag])
    BY <1>1, <1>2, <1>3, <1>4 DEF Coherent, GoneDue, State
  <2> QED
    BY <2>1, <2>2
<1> QED
  BY <1>1, <1>3, <1>4 DEF m

\* What an accepted observation leaves of the row it is applied to: a flag is
\* kept only with its episode, missed cycles are forgotten.
LEMMA UpdateFacts ==
    ASSUME NEW r \in State \cup {None}, NEW o \in Observation, Writes(r, o)
    PROVE  LET new == Update(r, o)
           IN  /\ new.seen = o.seen /\ new.prov = o.prov /\ new.missing = 0
               /\ r # None => new.seen > r.seen
               /\ new.stopped => r # None /\ r.stopped /\ new.episode = r.episode
               /\ new.gone => r # None /\ r.gone /\ new.episode = r.episode
<1> DEFINE new == Update(r, o)
<1>0. r # None => r \in State /\ o.seen > r.seen
  BY StateTypes DEF Writes, Stale, Observation
<1>1. CASE Inside(o.pos) /\ Continuing(r)
  <2>1. r \in State
    BY <1>0, <1>1 DEF Continuing, HasEpisode
  <2>2. Windowed(r, o) \in State
    BY <2>1 DEF Windowed, State, Observation
  <2>3. /\ Windowed(r, o).stopped = r.stopped
        /\ Windowed(r, o).gone = r.gone
        /\ Windowed(r, o).episode = r.episode
    BY <2>1 DEF Windowed, State
  <2> DEFINE win == Windowed(r, o)
  <2>4. new = [Located(win, o) EXCEPT
                  !.airline = o.airline, !.insideObs = @ + 1, !.outsideObs = 0]
    BY <1>1 DEF Update, Advanced
  <2> HIDE DEF win
  <2>5. /\ new.seen = o.seen /\ new.prov = o.prov /\ new.missing = 0
        /\ new.stopped = win.stopped /\ new.gone = win.gone /\ new.episode = win.episode
    BY <2>2, <2>4 DEF Located, State, win
  <2> HIDE DEF new
  <2>6. new.seen > r.seen
    BY <1>0, <2>1, <2>5, StateTypes
  <2> QED
    BY <2>1, <2>3, <2>5, <2>6, StateTypes DEF win, new
<1>2. CASE Inside(o.pos) /\ ~Continuing(r)
  BY <1>0, <1>2 DEF Update, Opened
<1>3. CASE ~Inside(o.pos) /\ HasEpisode(r)
  <2>1. r \in State
    BY <1>0, <1>3 DEF HasEpisode
  <2> DEFINE kept == [Located(r, o) EXCEPT !.outsideObs = @ + 1]
  <2>2. new = Closed(o) \/ new = kept
    BY <1>3 DEF Update, Left
  <2>3. CASE new = Closed(o)
    BY <1>0, <2>1, <2>3 DEF Closed
  <2>4. CASE new = kept
    <3>1. /\ kept.seen = o.seen /\ kept.prov = o.prov /\ kept.missing = 0
          /\ kept.stopped = r.stopped /\ kept.gone = r.gone
          /\ kept.episode = r.episode
      BY <2>1 DEF Located, State
    <3> HIDE DEF new, kept
    <3> QED
      BY <1>0, <2>1, <2>4, <3>1, StateTypes DEF new
  <2> QED
    BY <2>2, <2>3, <2>4
<1>4. CASE ~Inside(o.pos) /\ ~HasEpisode(r)
  BY <1>0, <1>4 DEF Update, Closed
<1> QED
  BY <1>1, <1>2, <1>3, <1>4

(***************************************************************************)
(* The inductive invariant                                                 *)
(***************************************************************************)

\* A flag of row p is backed by the alert of p's episode.
Backed(p) ==
    /\ p.stopped => Recorded(p.episode, "PROBABLE_STOP")
    /\ p.gone => Recorded(p.episode, "DISAPPEARED")

\* The position of p was reported to one of the loops, not in the future.
Dated(p) == p.seen <= now /\ p.prov \in Loop

RowSound == row # None => Coherent(row) /\ Backed(row) /\ Dated(row)

Busy(l) == pc[l] \in {"PROBABLE_STOP", "DISAPPEARED", "store"}

FetchedSound(l) ==
    obs[l] # None => obs[l].seen <= now /\ obs[l].prov = l

PayloadSound(l) ==
    /\ payload[l] \in State /\ Coherent(payload[l])
    /\ Backed(payload[l]) /\ Dated(payload[l])
    /\ pc[l] = "PROBABLE_STOP" =>
          /\ payload[l].episode # None /\ payload[l].missing = 0
          /\ payload[l].insideObs >= StopObservations
    /\ pc[l] = "DISAPPEARED" =>
          payload[l].episode # None /\ payload[l].insideObs >= GoneObservations

\* A payload is no older than the row of the revision it carries.
BaseSound(l) ==
    base[l] # None =>
        /\ base[l] <= seq /\ row # None
        /\ base[l] = seq => payload[l].seen >= row.seen

\* A missed cycle was counted on a row no older than the present one; if the
\* revision is still the same, it is this very row.
MissSound(l) ==
    payload[l].missing > 0 =>
        /\ base[l] # None /\ complete[l] /\ obs[l] = None
        /\ payload[l].region = RegionOf[l]
        /\ payload[l].seen <= row.seen
        /\ base[l] = seq =>
              payload[l] = [Missed(row) EXCEPT !.gone = payload[l].gone]

Local(l) ==
    /\ FetchedSound(l)
    /\ Busy(l) => PayloadSound(l) /\ BaseSound(l) /\ MissSound(l)

IInv == TypeOK /\ RowSound /\ \A l \in Loop : Local(l)

LEMMA Bounds ==
    /\ MaxAge \in Nat /\ MaxTime \in Nat /\ MaxMissing \in Nat /\ MaxCrashes \in Nat
BY BoundsAssumption

\* Nothing is unrecorded, so a backed row stays backed.
LEMMA StaysBacked ==
    ASSUME NEW p, Backed(p), alerts \subseteq alerts'
    PROVE  /\ p.stopped => Recorded(p.episode, "PROBABLE_STOP")'
           /\ p.gone => Recorded(p.episode, "DISAPPEARED")'
BY DEF Backed, Recorded

\* A step that leaves loop m alone leaves Local(m) true, provided that the clock
\* and the alerts only grow and that a new row has a new revision and is no older.
LEMMA OtherLoop ==
    ASSUME IInv, NEW m \in Loop,
           pc'[m] = pc[m], obs'[m] = obs[m], complete'[m] = complete[m],
           payload'[m] = payload[m], base'[m] = base[m],
           alerts \subseteq alerts', now' \in Nat, now <= now',
           \/ row' = row /\ seq' = seq
           \/ /\ row' \in State /\ seq' = seq + 1
              /\ row # None => row'.seen >= row.seen
    PROVE  Local(m)'
<1>1. /\ Local(m) /\ now \in Nat /\ seq \in Nat /\ base[m] \in Nat \cup {None}
      /\ obs[m] \in Observation \cup {None} /\ row \in State \cup {None}
  BY Bounds DEF IInv, TypeOK
<1>2. FetchedSound(m)'
  BY <1>1 DEF FetchedSound, Local, Observation
<1>3. ASSUME Busy(m)'
      PROVE  PayloadSound(m)' /\ BaseSound(m)' /\ MissSound(m)'
  <2>1. Busy(m) /\ PayloadSound(m) /\ BaseSound(m) /\ MissSound(m)
    BY <1>1, <1>3 DEF Local, Busy
  <2>2. payload[m] \in State /\ payload[m].seen \in Nat
    BY <2>1, StateTypes DEF PayloadSound
  <2>3. row # None => row \in State /\ row.seen \in Nat
    BY <1>1, StateTypes
  <2>4. row' # None => row' \in State /\ row'.seen \in Nat
    BY <2>3, StateTypes
  <2>5. Backed(payload[m])'
    BY <2>1, StaysBacked DEF PayloadSound, Backed
  <2>6. PayloadSound(m)'
    BY <1>1, <2>1, <2>2, <2>5 DEF PayloadSound, Dated
  <2>7. BaseSound(m)'
    BY <1>1, <2>1, <2>2, <2>3, <2>4, NoneIsNoState, NoneFacts DEF BaseSound
  <2>8. MissSound(m)'
    <3>1. CASE row' = row /\ seq' = seq
      BY <2>1, <3>1 DEF MissSound, Missed
    <3>2. CASE row' \in State /\ seq' = seq + 1 /\ (row # None => row'.seen >= row.seen)
      <4> SUFFICES ASSUME payload[m].missing > 0
                   PROVE  /\ base[m] # None /\ complete[m] /\ obs[m] = None
                          /\ payload[m].region = RegionOf[m]
                          /\ payload[m].seen <= row'.seen
                          /\ base[m] # seq'
        BY DEF MissSound
      <4>1. /\ base[m] # None /\ complete[m] /\ obs[m] = None
            /\ payload[m].region = RegionOf[m]
            /\ payload[m].seen <= row.seen
        BY <2>1 DEF MissSound
      <4>2. base[m] \in Nat /\ base[m] <= seq /\ row # None
        BY <1>1, <2>1, <4>1 DEF BaseSound
      <4> QED
        BY <1>1, <2>2, <2>3, <2>4, <3>2, <4>1, <4>2, NoneIsNoState
    <3> QED
      BY <3>1, <3>2
  <2> QED
    BY <2>6, <2>7, <2>8
<1> QED
  BY <1>2, <1>3 DEF Local

LEMMA SightingFacts ==
    ASSUME TypeOK, NEW l \in Loop, NEW sighting \in Sightings(l) \cup {None}
    PROVE  /\ sighting \in Observation \cup {None}
           /\ sighting # None => sighting.seen <= now /\ sighting.prov = l
<1> SUFFICES ASSUME sighting # None
             PROVE  sighting \in Observation /\ sighting.seen <= now /\ sighting.prov = l
  OBVIOUS
<1>1. PICK report \in Report, t \in 0..now : sighting = Observed(l, report, t)
  BY DEF Sightings
<1>2. report \in [pos : Pos, low : BOOLEAN, airline : BOOLEAN, altLow : BOOLEAN]
  BY ReportAssumption
<1>3. l \in Provider /\ RegionOf[l] \in Region
  BY LoopAssumption, RegionAssumption
<1>4. t \in Nat /\ t <= now
  BY <1>1, Bounds DEF TypeOK
<1> QED
  BY <1>1, <1>2, <1>3, <1>4 DEF Observed, Observation

\* A loop that returned holds nothing.
LEMMA Returned ==
    ASSUME TypeOK, NEW l \in Loop, Return(l)
    PROVE  /\ Local(l)'
           /\ pc' \in [Loop -> Phase] /\ obs' \in [Loop -> Observation \cup {None}]
           /\ complete' \in [Loop -> BOOLEAN] /\ payload' \in [Loop -> State \cup {None}]
           /\ base' \in [Loop -> Nat \cup {None}]
           /\ \A m \in Loop : m # l =>
                 /\ pc'[m] = pc[m] /\ obs'[m] = obs[m] /\ complete'[m] = complete[m]
                 /\ payload'[m] = payload[m] /\ base'[m] = base[m]
<1>1. pc'[l] = "idle" /\ obs'[l] = None
  BY DEF Return, Goto, TypeOK
<1>2. Local(l)'
  BY <1>1 DEF Local, FetchedSound, Busy
<1> QED
  BY <1>2 DEF Return, Goto, TypeOK, Phase

LEMMA FetchInv ==
    ASSUME IInv, NEW l \in Loop, NEW sighting \in Sightings(l) \cup {None},
           NEW whole \in BOOLEAN, Fetch(l, sighting, whole)
    PROVE  IInv'
<1>1. TypeOK /\ now \in Nat
  BY Bounds DEF IInv, TypeOK
<1>2. /\ Kept(l, sighting) \in Observation \cup {None}
      /\ Kept(l, sighting) # None => Kept(l, sighting).seen <= now /\ Kept(l, sighting).prov = l
  BY <1>1, SightingFacts DEF Kept
<1>3. TypeOK'
  BY <1>1, <1>2 DEF Fetch, Goto, TypeOK, Phase
<1>4. RowSound'
  BY DEF Fetch, IInv, RowSound, Backed, Recorded, Dated
<1>5. Local(l)'
  <2>1. pc'[l] = "fetched" /\ obs'[l] = Kept(l, sighting) /\ now' = now
    BY <1>1 DEF Fetch, Goto, TypeOK
  <2> QED
    BY <1>2, <2>1 DEF Local, FetchedSound, Busy
<1>6. ASSUME NEW m \in Loop, m # l PROVE Local(m)'
  <2>1. /\ pc'[m] = pc[m] /\ obs'[m] = obs[m] /\ complete'[m] = complete[m]
        /\ payload'[m] = payload[m] /\ base'[m] = base[m]
    BY <1>1, <1>6 DEF Fetch, Goto, TypeOK
  <2>2. alerts' = alerts /\ now' = now /\ row' = row /\ seq' = seq
    BY DEF Fetch
  <2> QED
    BY <1>1, <2>1, <2>2, OtherLoop
<1> QED
  BY <1>3, <1>4, <1>5, <1>6 DEF IInv

LEMMA ProcessInv ==
    ASSUME IInv, NEW l \in Loop, Process(l)
    PROVE  IInv'
<1> DEFINE new == Update(row, obs[l])
<1>1. /\ TypeOK /\ RowSound /\ Local(l) /\ now \in Nat /\ seq \in Nat
      /\ row \in State \cup {None} /\ obs[l] \in Observation
      /\ obs[l].seen <= now /\ obs[l].prov = l /\ complete[l] \in BOOLEAN
  BY Bounds DEF IInv, TypeOK, Process, Local, FetchedSound
<1>2. now' = now /\ row' = row /\ seq' = seq /\ alerts' = alerts /\ crashes' = crashes
  BY DEF Process
<1>3. RowSound'
  BY <1>1, <1>2 DEF RowSound, Backed, Recorded, Dated
<1>4. CASE ~Writes(row, obs[l])
  <2>1. Return(l)
    BY <1>4 DEF Process
  <2>2. TypeOK'
    BY <1>1, <1>2, <2>1, Returned DEF TypeOK
  <2>3. \A m \in Loop : Local(m)'
    BY <1>1, <1>2, <2>1, Returned, OtherLoop
  <2> QED
    BY <1>3, <2>2, <2>3 DEF IInv
<1>5. CASE Writes(row, obs[l])
  <2>1. /\ new \in State /\ Coherent(new)
        /\ RaisesStop(row, obs[l]) =>
              new.episode # None /\ new.insideObs >= StopObservations
    BY <1>1, <1>5, UpdateCoherent DEF RowSound
  <2>2. /\ new.seen = obs[l].seen /\ new.prov = obs[l].prov /\ new.missing = 0
        /\ row # None => new.seen > row.seen
        /\ new.stopped => row # None /\ row.stopped /\ new.episode = row.episode
        /\ new.gone => row # None /\ row.gone /\ new.episode = row.episode
    BY <1>1, <1>5, UpdateFacts
  <2>3. /\ payload'[l] = new /\ base'[l] = Base(obs[l])
        /\ pc'[l] = IF RaisesStop(row, obs[l]) THEN "PROBABLE_STOP" ELSE "store"
        /\ obs' = obs /\ complete' = complete
        /\ payload' = [payload EXCEPT ![l] = new]
        /\ base' = [base EXCEPT ![l] = Base(obs[l])]
        /\ pc' = [pc EXCEPT ![l] =
                     IF RaisesStop(row, obs[l]) THEN "PROBABLE_STOP" ELSE "store"]
    BY <1>1, <1>5 DEF Process, Plan, Goto, TypeOK
  <2>4. Base(obs[l]) \in {seq, None} /\ (Base(obs[l]) # None => row # None)
    BY <1>5, NoneIsNoState DEF Base, Writes, Continuing, HasEpisode
  <2> HIDE DEF new
  <2>5. TypeOK'
    BY <1>1, <1>2, <2>1, <2>3, <2>4 DEF TypeOK, Phase
  <2>6. Local(l)'
    <3>1. FetchedSound(l)'
      BY <1>1, <1>2, <2>3 DEF FetchedSound
    <3>2. Backed(new) /\ Dated(new)
      BY <1>1, <2>2 DEF RowSound, Backed, Dated
    <3>3. PayloadSound(l)'
      BY <1>2, <2>1, <2>2, <2>3, <3>2 DEF PayloadSound, Backed, Recorded, Dated
    <3>4. BaseSound(l)'
      <4>1. row # None => row.seen \in Nat
        BY <1>1, StateTypes
      <4>2. new.seen \in Nat
        BY <2>1, StateTypes
      <4> QED
        BY <1>1, <1>2, <2>2, <2>3, <2>4, <4>1, <4>2 DEF BaseSound
    <3>5. MissSound(l)'
      BY <2>2, <2>3 DEF MissSound
    <3> QED
      BY <3>1, <3>3, <3>4, <3>5 DEF Local
  <2>7. ASSUME NEW m \in Loop, m # l PROVE Local(m)'
    <3>1. /\ pc'[m] = pc[m] /\ obs'[m] = obs[m] /\ complete'[m] = complete[m]
          /\ payload'[m] = payload[m] /\ base'[m] = base[m]
      BY <1>1, <2>3, <2>7 DEF TypeOK
    <3> QED
      BY <1>1, <1>2, <3>1, OtherLoop
  <2> QED
    BY <1>3, <2>5, <2>6, <2>7 DEF IInv
<1> QED
  BY <1>4, <1>5

LEMMA SnapshotInv ==
    ASSUME IInv, NEW l \in Loop, Snapshot(l)
    PROVE  IInv'
<1> DEFINE new == Missed(row)
<1>1. /\ TypeOK /\ RowSound /\ Local(l) /\ now \in Nat /\ seq \in Nat
      /\ row \in State \cup {None} /\ obs[l] = None /\ complete[l] \in BOOLEAN
  BY Bounds DEF IInv, TypeOK, Snapshot
<1>2. now' = now /\ row' = row /\ seq' = seq /\ alerts' = alerts /\ crashes' = crashes
  BY DEF Snapshot
<1>3. RowSound'
  BY <1>1, <1>2 DEF RowSound, Backed, Recorded, Dated
<1>4. CASE ~CountedHere(l)
  <2>1. Return(l)
    BY <1>4 DEF Snapshot
  <2>2. TypeOK'
    BY <1>1, <1>2, <2>1, Returned DEF TypeOK
  <2>3. \A m \in Loop : Local(m)'
    BY <1>1, <1>2, <2>1, Returned, OtherLoop
  <2> QED
    BY <1>3, <2>2, <2>3 DEF IInv
<1>5. CASE CountedHere(l)
  <2>1. /\ row \in State /\ Coherent(row) /\ Backed(row) /\ Dated(row)
        /\ Counts(row, Covered(l))
    BY <1>1, <1>5 DEF RowSound, CountedHere
  <2>2. complete[l] /\ row.region = RegionOf[l] /\ row.episode # None
    BY <1>1, <2>1 DEF Counts, Covered, HasEpisode
  <2>3. new \in State /\ Coherent(new) /\ new.episode = row.episode
    BY <2>1, MissedCoherent
  <2>4. /\ new.seen = row.seen /\ new.prov = row.prov /\ new.region = row.region
        /\ new.stopped = row.stopped /\ new.gone = row.gone
        /\ new = [new EXCEPT !.gone = new.gone]
    BY <2>1 DEF Missed, State
  <2>5. /\ payload'[l] = new /\ base'[l] = seq
        /\ pc'[l] = IF GoneDue(new) THEN "DISAPPEARED" ELSE "store"
        /\ obs' = obs /\ complete' = complete
        /\ payload' = [payload EXCEPT ![l] = new]
        /\ base' = [base EXCEPT ![l] = seq]
        /\ pc' = [pc EXCEPT ![l] = IF GoneDue(new) THEN "DISAPPEARED" ELSE "store"]
    BY <1>1, <1>5 DEF Snapshot, Plan, Goto, TypeOK
  <2>6. GoneDue(new) => new.insideObs >= GoneObservations
    BY DEF GoneDue
  <2>7. MissSound(l)'
    BY <1>1, <1>2, <2>1, <2>2, <2>4, <2>5, StateTypes, NoneFacts DEF MissSound
  <2> HIDE DEF new
  <2>8. TypeOK'
    BY <1>1, <1>2, <2>3, <2>5 DEF TypeOK, Phase
  <2>9. Local(l)'
    <3>1. FetchedSound(l)'
      BY <1>1, <2>5 DEF FetchedSound
    <3>2. Backed(new) /\ Dated(new)
      BY <2>1, <2>3, <2>4 DEF Backed, Dated
    <3>3. PayloadSound(l)'
      BY <1>2, <2>2, <2>3, <2>5, <2>6, <3>2 DEF PayloadSound, Backed, Recorded, Dated
    <3>4. BaseSound(l)'
      BY <1>1, <1>2, <2>1, <2>4, <2>5, StateTypes DEF BaseSound
    <3> QED
      BY <2>7, <3>1, <3>3, <3>4 DEF Local
  <2>10. ASSUME NEW m \in Loop, m # l PROVE Local(m)'
    <3>1. /\ pc'[m] = pc[m] /\ obs'[m] = obs[m] /\ complete'[m] = complete[m]
          /\ payload'[m] = payload[m] /\ base'[m] = base[m]
      BY <1>1, <2>5, <2>10 DEF TypeOK
    <3> QED
      BY <1>1, <1>2, <3>1, OtherLoop
  <2> QED
    BY <1>3, <2>8, <2>9, <2>10 DEF IInv
<1> QED
  BY <1>4, <1>5

\* Raising the flag of an alert whose minimum is met.
LEMMA FlaggedFacts ==
    ASSUME NEW p \in State, Coherent(p), p.episode # None,
           NEW type \in {"PROBABLE_STOP", "DISAPPEARED"},
           type = "PROBABLE_STOP" => p.insideObs >= StopObservations,
           type = "DISAPPEARED" => p.insideObs >= GoneObservations
    PROVE  LET f == Flagged(p, type)
           IN  /\ f \in State /\ Coherent(f)
               /\ f.episode = p.episode /\ f.seen = p.seen /\ f.prov = p.prov
               /\ f.missing = p.missing /\ f.region = p.region
               /\ f.stopped => p.stopped \/ type = "PROBABLE_STOP"
               /\ f.gone => p.gone \/ type = "DISAPPEARED"
<1>1. CASE type = "PROBABLE_STOP"
  BY <1>1, StoppedCoherent DEF Flagged, State
<1>2. CASE type = "DISAPPEARED"
  <2>1. Coherent([p EXCEPT !.gone = TRUE])
    BY <1>2 DEF Coherent, State
  <2> QED
    BY <1>2, <2>1 DEF Flagged, State
<1> QED
  BY <1>1, <1>2

LEMMA AlertInv ==
    ASSUME IInv, NEW l \in Loop, NEW type \in {"PROBABLE_STOP", "DISAPPEARED"},
           Alert(l, type)
    PROVE  IInv'
<1>1. /\ TypeOK /\ RowSound /\ Local(l) /\ now \in Nat /\ now <= MaxTime /\ seq \in Nat
      /\ row \in State \cup {None} /\ pc[l] = type /\ Busy(l)
  BY Bounds DEF IInv, TypeOK, Alert, Busy
<1>2. /\ now' = now /\ row' = row /\ seq' = seq /\ crashes' = crashes
      /\ obs' = obs /\ complete' = complete /\ base' = base
      /\ pc' = [pc EXCEPT ![l] = "store"]
  BY DEF Alert, Goto
<1>3. PayloadSound(l) /\ BaseSound(l) /\ MissSound(l) /\ FetchedSound(l)
  BY <1>1 DEF Local
<1>4. PICK p \in State : p = payload[l]
  BY <1>3 DEF PayloadSound
<1>5. PICK at \in Nat : at = now
  BY <1>1
<1> DEFINE f == Flagged(p, type)
           event == [episode |-> p.episode, type |-> type, provider |-> p.prov, at |-> at]
<1>6. /\ Coherent(p) /\ p.episode # None /\ Backed(p) /\ Dated(p)
      /\ type = "PROBABLE_STOP" => p.missing = 0 /\ p.insideObs >= StopObservations
      /\ type = "DISAPPEARED" => p.insideObs >= GoneObservations
  BY <1>1, <1>3, <1>4 DEF PayloadSound
<1>7. /\ f \in State /\ Coherent(f)
      /\ f.episode = p.episode /\ f.seen = p.seen /\ f.prov = p.prov
      /\ f.missing = p.missing /\ f.region = p.region
      /\ f.stopped => p.stopped \/ type = "PROBABLE_STOP"
      /\ f.gone => p.gone \/ type = "DISAPPEARED"
  BY <1>4, <1>6, FlaggedFacts
<1>8. type = "DISAPPEARED" => f = [p EXCEPT !.gone = TRUE]
  BY DEF Flagged
<1>9. event.episode = p.episode /\ event.type = type /\ event.provider = p.prov
      /\ event.at = at
  OBVIOUS
<1>10. \/ alerts' = alerts \cup {event} /\ payload' = [payload EXCEPT ![l] = f]
       \/ alerts' = alerts /\ payload' = payload
  BY <1>4, <1>5 DEF Alert
<1> HIDE DEF f, event
<1>11. /\ alerts \subseteq alerts' /\ \A m \in Loop : m # l => payload'[m] = payload[m]
       /\ \/ payload'[l] = f /\ event \in alerts'
          \/ payload'[l] = p
  BY <1>1, <1>4, <1>10 DEF TypeOK
<1>12. TypeOK'
  <2>1. p.episode \in 0..MaxTime /\ p.prov \in Loop /\ at \in 0..MaxTime
    <3>1. p.episode \in Nat /\ p.seen \in Nat /\ p.episode <= p.seen
      BY <1>4, <1>6, StateTypes DEF Coherent
    <3>2. p.seen <= now /\ p.prov \in Loop
      BY <1>6 DEF Dated
    <3> QED
      BY <1>1, <1>5, <3>1, <3>2, Bounds
  <2>2. \A a \in alerts' :
           /\ a.episode \in 0..MaxTime /\ a.at \in 0..MaxTime
           /\ a.type \in {"PROBABLE_STOP", "DISAPPEARED"} /\ a.provider \in Loop
    BY <1>1, <1>9, <1>10, <2>1 DEF TypeOK
  <2>3. payload' \in [Loop -> State \cup {None}]
    BY <1>1, <1>7, <1>10 DEF TypeOK
  <2> QED
    BY <1>1, <1>2, <2>2, <2>3 DEF TypeOK, Phase
<1>13. RowSound'
  BY <1>1, <1>2, <1>11, StaysBacked DEF RowSound, Backed, Dated
<1>14. Local(l)'
  <2>1. pc'[l] = "store"
    BY <1>1, <1>2 DEF TypeOK
  <2>2. FetchedSound(l)'
    BY <1>2, <1>3 DEF FetchedSound
  <2>3. PICK q : q = payload'[l]
    OBVIOUS
  <2>4. /\ q \in State /\ Coherent(q)
        /\ q.seen = p.seen /\ q.prov = p.prov
        /\ q.missing = p.missing /\ q.region = p.region
    BY <1>4, <1>6, <1>7, <1>11, <2>3
  <2>5. Backed(q)'
    <3>1. /\ p.stopped => Recorded(p.episode, "PROBABLE_STOP")'
          /\ p.gone => Recorded(p.episode, "DISAPPEARED")'
      BY <1>6, <1>11, StaysBacked
    <3>2. CASE q = p
      BY <3>1, <3>2 DEF Backed
    <3>3. CASE q = f /\ event \in alerts'
      <4>1. Recorded(f.episode, type)'
        BY <1>7, <1>9, <3>3 DEF Recorded
      <4> QED
        BY <1>7, <3>1, <3>3, <4>1 DEF Backed
    <3> QED
      BY <1>11, <2>3, <3>2, <3>3
  <2>6. PayloadSound(l)'
    <3>1. Backed(payload[l])'
      BY <2>3, <2>5 DEF Backed
    <3>2. Dated(payload[l])'
      BY <1>2, <1>6, <2>3, <2>4 DEF Dated
    <3>3. payload'[l] \in State /\ Coherent(payload'[l])
      BY <2>3, <2>4
    <3> QED
      BY <2>1, <3>1, <3>2, <3>3 DEF PayloadSound
  <2>7. BaseSound(l)'
    BY <1>2, <1>3, <1>4, <2>3, <2>4 DEF BaseSound
  <2>8. MissSound(l)'
    <3> SUFFICES ASSUME p.missing > 0
                 PROVE  MissSound(l)'
      BY <2>3, <2>4 DEF MissSound
    <3>1. /\ base[l] # None /\ complete[l] /\ obs[l] = None
          /\ p.region = RegionOf[l] /\ p.seen <= row.seen /\ row # None
          /\ base[l] = seq => p = [Missed(row) EXCEPT !.gone = p.gone]
      BY <1>3, <1>4 DEF MissSound, BaseSound
    <3>2. type = "DISAPPEARED"
      BY <1>4, <1>6, StateTypes
    <3>3. q = p \/ q = [p EXCEPT !.gone = TRUE]
      BY <1>8, <1>11, <2>3, <3>2
    <3>4. ASSUME base[l] = seq
          PROVE  q = [Missed(row) EXCEPT !.gone = q.gone]
      <4>1. p = [Missed(row) EXCEPT !.gone = p.gone]
        BY <3>1, <3>4
      <4>2. row \in State
        BY <1>1, <3>1
      <4>3. [p EXCEPT !.gone = TRUE].gone = TRUE
        BY <1>4 DEF State
      <4> QED
        BY <3>3, <4>1, <4>2, <4>3 DEF Missed, State
    <3> QED
      BY <1>2, <2>3, <2>4, <3>1, <3>4 DEF MissSound, Missed
  <2> QED
    BY <2>2, <2>6, <2>7, <2>8 DEF Local
<1>15. ASSUME NEW m \in Loop, m # l PROVE Local(m)'
  <2>1. pc'[m] = pc[m]
    BY <1>1, <1>2, <1>15 DEF TypeOK
  <2> QED
    BY <1>1, <1>2, <1>11, <1>15, <2>1, OtherLoop
<1> QED
  BY <1>12, <1>13, <1>14, <1>15 DEF IInv

LEMMA StoreInv ==
    ASSUME IInv, NEW l \in Loop, Store(l)
    PROVE  IInv'
<1>1. /\ TypeOK /\ RowSound /\ Local(l) /\ Busy(l) /\ PayloadSound(l) /\ BaseSound(l)
      /\ now \in Nat /\ seq \in Nat /\ row \in State \cup {None}
  BY Bounds DEF IInv, TypeOK, Store, Local, Busy
<1>2. now' = now /\ alerts' = alerts /\ crashes' = crashes /\ Return(l)
  BY DEF Store
<1>3. CASE row' = row /\ seq' = seq
  <2>1. TypeOK'
    BY <1>1, <1>2, <1>3, Returned DEF TypeOK
  <2>2. RowSound'
    BY <1>1, <1>2, <1>3 DEF RowSound, Backed, Recorded, Dated
  <2>3. \A m \in Loop : Local(m)'
    BY <1>1, <1>2, <1>3, Returned, OtherLoop
  <2> QED
    BY <2>1, <2>2, <2>3 DEF IInv
<1>4. CASE Lands(payload[l], base[l]) /\ row' = payload[l] /\ seq' = seq + 1
  <2>1. row' \in State /\ Coherent(row') /\ row'.seen \in Nat
    BY <1>1, <1>4, StateTypes DEF PayloadSound
  <2>2. row # None => row'.seen >= row.seen
    <3> SUFFICES ASSUME row # None
                 PROVE  row'.seen >= row.seen
      OBVIOUS
    <3>1. row.seen \in Nat
      BY <1>1, StateTypes
    <3>2. seq = base[l] \/ payload[l].seen > row.seen
      BY <1>4 DEF Lands
    <3>3. CASE seq = base[l]
      <4>1. base[l] # None
        BY <1>1, <3>3, NoneFacts
      <4> QED
        BY <1>1, <1>4, <3>3, <4>1 DEF BaseSound
    <3>4. CASE payload[l].seen > row.seen
      BY <1>4, <2>1, <3>1, <3>4
    <3> QED
      BY <3>2, <3>3, <3>4
  <2>3. TypeOK'
    BY <1>1, <1>2, <1>4, <2>1, Returned DEF TypeOK
  <2>4. RowSound'
    BY <1>1, <1>2, <1>4 DEF RowSound, PayloadSound, Backed, Recorded, Dated
  <2>5. \A m \in Loop : m # l => Local(m)'
    BY <1>1, <1>2, <1>4, <2>1, <2>2, Returned, OtherLoop
  <2> QED
    BY <1>1, <1>2, <2>3, <2>4, <2>5, Returned DEF IInv
<1> QED
  BY <1>3, <1>4 DEF Store, Stored

LEMMA CrashInv ==
    ASSUME IInv, NEW l \in Loop, Crash(l)
    PROVE  IInv'
<1>1. TypeOK /\ now \in Nat /\ RowSound /\ crashes \in 0..MaxCrashes
  BY Bounds DEF IInv, TypeOK
<1>2. /\ Return(l) /\ crashes' = crashes + 1 /\ crashes < MaxCrashes
      /\ now' = now /\ row' = row /\ seq' = seq /\ alerts' = alerts
  BY DEF Crash
<1>3. TypeOK'
  BY <1>1, <1>2, Returned, Bounds DEF TypeOK
<1>4. RowSound'
  BY <1>1, <1>2 DEF RowSound, Backed, Recorded, Dated
<1>5. \A m \in Loop : Local(m)'
  BY <1>1, <1>2, Returned, OtherLoop
<1> QED
  BY <1>3, <1>4, <1>5 DEF IInv

LEMMA TickInv ==
    ASSUME IInv, Tick
    PROVE  IInv'
<1>1. TypeOK /\ now \in 0..MaxTime /\ RowSound
  BY DEF IInv, TypeOK
<1>2. /\ now' = now + 1 /\ now < MaxTime /\ now \in Nat
      /\ UNCHANGED <<row, seq, alerts, pc, obs, complete, payload, base, crashes>>
  BY <1>1, Bounds DEF Tick
<1>3. TypeOK'
  BY <1>1, <1>2, Bounds DEF TypeOK
<1>4. RowSound'
  BY <1>1, <1>2, StateTypes DEF RowSound, Backed, Recorded, Dated, TypeOK
<1>5. \A m \in Loop : Local(m)'
  <2> SUFFICES ASSUME NEW m \in Loop
               PROVE  Local(m)'
    OBVIOUS
  <2>1. now' \in Nat /\ now <= now' /\ alerts \subseteq alerts'
    BY <1>2
  <2> QED
    BY <1>2, <2>1, OtherLoop
<1> QED
  BY <1>3, <1>4, <1>5 DEF IInv

LEMMA InitInv == Init => IInv
<1> SUFFICES ASSUME Init
             PROVE  IInv
  OBVIOUS
<1>1. TypeOK
  BY Bounds DEF Init, TypeOK, Phase
<1>2. RowSound
  BY DEF Init, RowSound
<1>3. \A l \in Loop : Local(l)
  BY DEF Init, Local, FetchedSound, Busy
<1> QED
  BY <1>1, <1>2, <1>3 DEF IInv

LEMMA StepInv ==
    ASSUME IInv, [Next]_vars
    PROVE  IInv'
<1>1. ASSUME NEW l \in Loop, NEW sighting \in Sightings(l) \cup {None},
             NEW whole \in BOOLEAN, Fetch(l, sighting, whole)
      PROVE  IInv'
  BY <1>1, FetchInv
<1>2. ASSUME NEW l \in Loop, Step(l)
      PROVE  IInv'
  <2>1. CASE Process(l)
    BY <2>1, ProcessInv
  <2>2. CASE Snapshot(l)
    BY <2>2, SnapshotInv
  <2>3. CASE Alert(l, "PROBABLE_STOP")
    BY <2>3, AlertInv
  <2>4. CASE Alert(l, "DISAPPEARED")
    BY <2>4, AlertInv
  <2>5. CASE Store(l)
    BY <2>5, StoreInv
  <2> QED
    BY <1>2, <2>1, <2>2, <2>3, <2>4, <2>5 DEF Step
<1>3. ASSUME NEW l \in Loop, Crash(l)
      PROVE  IInv'
  BY <1>3, CrashInv
<1>4. CASE Tick
  BY <1>4, TickInv
<1>5. CASE UNCHANGED vars
  <2>1. UNCHANGED <<now, row, seq, alerts, pc, obs, complete, payload, base, crashes>>
    BY <1>5 DEF vars
  <2>2. now' \in Nat /\ now <= now'
    BY <2>1, Bounds DEF IInv, TypeOK
  <2>3. \A m \in Loop : Local(m)'
    BY <2>1, <2>2, OtherLoop
  <2>4. TypeOK'
    BY <2>1 DEF IInv, TypeOK
  <2>5. RowSound'
    BY <2>1 DEF IInv, RowSound, Backed, Recorded, Dated
  <2> QED
    BY <2>3, <2>4, <2>5 DEF IInv
<1> QED
  BY <1>1, <1>2, <1>3, <1>4, <1>5 DEF Next

LEMMA Invariant == Spec => []IInv
<1>1. Init => IInv
  BY InitInv
<1>2. IInv /\ [Next]_vars => IInv'
  BY StepInv
<1> QED
  BY <1>1, <1>2, PTL DEF Spec

\* Every row, payload and event the two loops produce has its type.
THEOREM DetectionTypeCorrect == Spec => []TypeOK
<1>1. IInv => TypeOK
  BY DEF IInv
<1> QED
  BY <1>1, Invariant, PTL

\* Two loops, crashes and stale snapshots never leave a row whose columns
\* contradict each other, for every setting and every report.
THEOREM LoopsKeepRowCoherent == Spec => []RowCoherent
<1>1. IInv => RowCoherent
  BY DEF IInv, RowSound, RowCoherent
<1> QED
  BY <1>1, Invariant, PTL

\* A stop or disappearance flag in the row stands for an event in the events table
\* for that very episode, whatever write it reached the row by.
THEOREM FlagsBackedCorrect == Spec => []FlagsBacked
<1>1. IInv => FlagsBacked
  BY DEF IInv, RowSound, FlagsBacked, Backed
<1> QED
  BY <1>1, Invariant, PTL

\* The step that raises the count of missed cycles of the row is a loop's write of
\* a payload counted on this very row.
LEMMA CountingStep ==
    ASSUME IInv, [Next]_vars, row # None, row'.missing > row.missing
    PROVE  \E l \in Loop :
              /\ complete[l] /\ obs[l] = None /\ RegionOf[l] = row.region
              /\ row' = [Missed(row) EXCEPT !.gone = row'.gone]
<1>1. row \in State /\ row.missing \in Nat /\ row.seen \in Nat /\ seq \in Nat
  BY StateTypes DEF IInv, TypeOK
<1>2. row' # row
  BY <1>1
<1>3. PICK l \in Loop : Store(l)
  BY <1>2 DEF Next, Step, Fetch, Process, Snapshot, Alert, Crash, Tick, vars
<1>4. Lands(payload[l], base[l]) /\ row' = payload[l]
  BY <1>2, <1>3 DEF Store, Stored
<1>5. PayloadSound(l) /\ BaseSound(l) /\ MissSound(l)
  BY <1>3 DEF IInv, Local, Busy, Store
<1>6. payload[l].missing > 0 /\ payload[l].seen \in Nat
  BY <1>1, <1>4, <1>5, StateTypes DEF PayloadSound
<1>7. /\ base[l] # None /\ complete[l] /\ obs[l] = None
      /\ payload[l].region = RegionOf[l] /\ payload[l].seen <= row.seen
      /\ base[l] = seq =>
            payload[l] = [Missed(row) EXCEPT !.gone = payload[l].gone]
  BY <1>5, <1>6 DEF MissSound
<1>8. base[l] = seq
  BY <1>1, <1>4, <1>6, <1>7 DEF Lands
<1>9. payload[l] = [Missed(row) EXCEPT !.gone = payload[l].gone]
  BY <1>7, <1>8
<1>10. payload[l].region = row.region
  BY <1>1, <1>9 DEF Missed, State
<1> QED
  BY <1>4, <1>7, <1>9, <1>10

\* A missed cycle is written only over the row it was counted from, however the
\* loops interleave: the snapshot of active_states never overwrites an observation.
THEOREM CountsOnTopCorrect == Spec => CountsOnTop
<1>1. IInv /\ [Next]_vars =>
         [row # None /\ row'.missing > row.missing
          => row' = [Missed(row) EXCEPT !.gone = row'.gone]]_vars
  BY CountingStep
<1> QED
  BY <1>1, Invariant, PTL DEF Spec, CountsOnTop

\* Only a cycle that covered the row's own region completely, and did not see the
\* aircraft, adds to its missed cycles: a failed provider never does.
THEOREM CountsCoveredRegionCorrect == Spec => CountsCoveredRegion
<1>1. IInv /\ [Next]_vars =>
         [row # None /\ row'.missing > row.missing
          => \E l \in Loop :
                complete[l] /\ obs[l] = None /\ RegionOf[l] = row.region]_vars
  BY CountingStep
<1> QED
  BY <1>1, Invariant, PTL DEF Spec, CountsCoveredRegion
=============================================================================
