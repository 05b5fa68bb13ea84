------------------------ MODULE EpisodeHistoryProofs ------------------------
(***************************************************************************)
(* For every world, every setting and every report an aircraft can make:   *)
(* the stored row summarises the log of its episode, so that an alert      *)
(* means what it says, no stop is missed, and an episode is closed only by *)
(* confirmed exits.                                                        *)
(***************************************************************************)
EXTENDS EpisodeHistory, SequenceTheorems, FiniteSetTheorems, TLAPS

(***************************************************************************)
(* The inductive invariant                                                 *)
(***************************************************************************)

Entry == Observation \cup {None}

\* The last observation inside is the i-th entry.
LastInside(l, i) == InsideAt(l, i) /\ \A j \in (i + 1)..Len(l) : ~InsideAt(l, j)

\* The observations outside since.
OutsideTail(l) ==
    {i \in DOMAIN l : l[i] # None /\ \A j \in i..Len(l) : ~InsideAt(l, j)}

\* The row still shows the last observation inside, and has counted the cycles that
\* missed the aircraft since: all of them, unless it is an airliner or leaving.
ShowsLast(r, l) ==
    \E i \in DOMAIN l :
        /\ LastInside(l, i)
        /\ r.airline = l[i].airline
        /\ r.missing <= Len(l) - i
        /\ r.outsideObs = 0 =>
              /\ r.altLow = l[i].altLow
              /\ ~r.airline => r.missing = Len(l) - i
        /\ r.missing > 0 => ~r.airline /\ r.outsideObs = 0

\* Its stationary window is one of the log ...
WindowIsReal(r, l) ==
    r.anchor # None =>
        \E i \in DOMAIN l :
            /\ StillFrom(l, i)
            /\ r.since = l[i].seen /\ r.anchor = l[i].pos
            /\ \A k, m \in i..Len(l) : ~GapInside(l, k, m)

\* ... the one of the timer: it is at the place where the timer last started, as long
\* as nothing disturbed it since, and there is none otherwise.
Running(l, S, i) == (\A j \in S : j <= i) /\ Undisturbed(l, i, Len(l))

WindowIsTimer(r, l) ==
    \A S \in Starts(l) :
        /\ \A i \in S : Running(l, S, i) => r.anchor = l[i].pos /\ r.since = l[i].seen
        /\ r.anchor # None => \E i \in S : Running(l, S, i)

Summarises(r, l) ==
    /\ r.insideObs = InsideCount(l)
    /\ r.outsideObs = Cardinality(OutsideTail(l))
    /\ ShowsLast(r, l)
    /\ WindowIsReal(r, l)
    /\ WindowIsTimer(r, l)

RowSummarises == IF HasEpisode(row) THEN Summarises(row, log) ELSE log = << >>

\* The flag of an open episode stands for its recorded alert.
FlagBacked == HasEpisode(row) /\ row.stopped => Recorded(row.episode, "PROBABLE_STOP")

\* The row has areas exactly while an episode is open.
OpenInside(r) == r.inside <=> r.episode # None

Typed ==
    /\ row \in State \cup {None}
    /\ row # None => OpenInside(row)
    /\ log \in Seq(Entry)

\* The timer of the log is defined.
TimerDefined == Starts(log) # {}

IInv == /\ Typed /\ RowSummarises /\ FlagBacked /\ TimerDefined
        /\ NoStopMissed /\ StopJustified /\ GoneJustified

(***************************************************************************)
(* Types                                                                   *)
(***************************************************************************)

LEMMA NoneFacts == None \notin Nat /\ None \notin Pos
<1>1. \A n \in Nat : n \in Int
  OBVIOUS
<1>2. None \notin Nat
  BY <1>1, NoneAssumption, Zenon
<1>3. None \notin Pos
  BY NoneAssumption, WorldAssumption, Zenon
<1> QED
  BY <1>2, <1>3

LEMMA StateTypes ==
    ASSUME NEW r \in State
    PROVE  /\ r.seen \in Nat /\ r.insideObs \in Nat /\ r.outsideObs \in Nat
           /\ r.missing \in Nat /\ r.episode \in Nat \cup {None}
           /\ r # None
BY NoneIsNoState DEF State

\* What an accepted observation makes of a row is a row, that has areas exactly while
\* an episode is open; the stop flag is kept only with its episode.
LEMMA UpdateTyped ==
    ASSUME NEW r \in State \cup {None}, r # None => OpenInside(r),
           NEW obs \in Observation, Writes(r, obs)
    PROVE  LET new == Update(r, obs)
           IN  /\ new \in State /\ OpenInside(new)
               /\ new.stopped => HasEpisode(r) /\ r.stopped /\ new.episode = r.episode
<1>1. ASSUME NEW new, new = Opened(obs) \/ new = Closed(obs)
      PROVE  new \in State /\ OpenInside(new) /\ ~new.stopped
  <2>1. obs.seen \in Nat /\ obs.pos \in Pos
    BY DEF Observation
  <2>2. Opened(obs) \in State
    BY DEF Opened, State, Observation
  <2>3. Closed(obs) \in State
    BY DEF Closed, State, Observation
  <2>4. (new.inside <=> new.episode # None) /\ ~new.stopped
    BY <1>1, <2>1, NoneFacts DEF Opened, Closed
  <2> QED
    BY <1>1, <2>2, <2>3, <2>4 DEF OpenInside
<1>2. ASSUME r # None PROVE r \in State /\ Located(r, obs) \in State
  BY <1>2 DEF Located, State, Observation
<1>3. CASE Inside(obs.pos) /\ Continuing(r)
  <2> DEFINE win == Windowed(r, obs)
             new == [Located(win, obs) EXCEPT
                        !.airline = obs.airline, !.insideObs = @ + 1, !.outsideObs = 0]
  <2>1. Update(r, obs) = new /\ HasEpisode(r) /\ r \in State
    BY <1>3 DEF Update, Advanced, Continuing, HasEpisode
  <2>2. /\ win \in State /\ win.inside = r.inside /\ win.episode = r.episode
        /\ win.stopped = r.stopped
    BY <2>1 DEF Windowed, State, Observation
  <2> HIDE DEF win
  <2>3. Located(win, obs) \in State /\ obs.airline \in BOOLEAN
    BY <2>2 DEF Located, State, Observation
  <2>4. Located(win, obs).insideObs + 1 \in Nat
    BY <2>3, StateTypes
  <2>5. new \in State
    BY <2>3, <2>4 DEF State
  <2>6. new.inside = win.inside /\ new.episode = win.episode /\ new.stopped = win.stopped
    BY <2>2 DEF Located, State
  <2> HIDE DEF new
  <2> QED
    BY <2>1, <2>2, <2>5, <2>6, StateTypes DEF OpenInside
<1>4. CASE ~Inside(obs.pos) /\ HasEpisode(r)
  <2> DEFINE new == [Located(r, obs) EXCEPT !.outsideObs = @ + 1]
  <2>1. (Update(r, obs) = Closed(obs) \/ Update(r, obs) = new) /\ r \in State
    BY <1>4 DEF Update, Left, HasEpisode
  <2>2. Located(r, obs) \in State /\ Located(r, obs).outsideObs + 1 \in Nat
    BY <1>2, <1>4, StateTypes DEF HasEpisode
  <2>3. new \in State
    BY <2>2 DEF State
  <2>4. new.inside = r.inside /\ new.episode = r.episode /\ new.stopped = r.stopped
    BY <2>1 DEF Located, State
  <2> HIDE DEF new
  <2> QED
    BY <1>1, <1>4, <2>1, <2>3, <2>4, StateTypes DEF OpenInside
<1>5. CASE ~(Inside(obs.pos) /\ Continuing(r)) /\ ~(~Inside(obs.pos) /\ HasEpisode(r))
  <2>1. Update(r, obs) = Opened(obs) \/ Update(r, obs) = Closed(obs)
    BY <1>5 DEF Update
  <2> QED
    BY <1>1, <2>1
<1> QED
  BY <1>3, <1>4, <1>5

LEMMA FlaggedTyped ==
    ASSUME NEW r \in State, OpenInside(r), NEW f \in BOOLEAN,
           NEW new, new = [r EXCEPT !.stopped = f] \/ new = [r EXCEPT !.gone = f]
    PROVE  new \in State /\ OpenInside(new)
BY DEF State, OpenInside

LEMMA MissedTyped ==
    ASSUME NEW r \in State, OpenInside(r)
    PROVE  Missed(r) \in State /\ OpenInside(Missed(r))
<1>1. r.missing + 1 \in Nat
  BY StateTypes
<1> QED
  BY <1>1 DEF Missed, State, OpenInside

(***************************************************************************)
(* The log, one entry longer                                               *)
(***************************************************************************)

\* l2 is l with entry e at its end.
Extends(l, e, l2) ==
    /\ Len(l) \in Nat /\ Len(l2) = Len(l) + 1
    /\ DOMAIN l = 1..Len(l) /\ DOMAIN l2 = 1..Len(l2)
    /\ l2[Len(l2)] = e
    /\ \A i \in DOMAIN l : l2[i] = l[i]

LEMMA AppendExtends ==
    ASSUME NEW l \in Seq(Entry), NEW e \in Entry
    PROVE  Append(l, e) \in Seq(Entry) /\ Extends(l, e, Append(l, e))
<1>1. /\ Append(l, e) \in Seq(Entry) /\ Len(Append(l, e)) = Len(l) + 1
      /\ Append(l, e)[Len(l) + 1] = e
      /\ \A i \in 1..Len(l) : Append(l, e)[i] = l[i]
  BY AppendProperties
<1>2. /\ Len(l) \in Nat /\ DOMAIN l = 1..Len(l)
      /\ DOMAIN Append(l, e) = 1..Len(Append(l, e))
  BY <1>1
<1> QED
  BY <1>1, <1>2 DEF Extends

IsInside(e) == e # None /\ Inside(e.pos)

LEMMA InsideExtended ==
    ASSUME NEW l, NEW e, NEW l2, Extends(l, e, l2)
    PROVE  /\ \A i \in DOMAIN l : InsideAt(l2, i) <=> InsideAt(l, i)
           /\ InsideAt(l2, Len(l2)) <=> IsInside(e)
BY DEF Extends, InsideAt, IsInside

\* Any set of places of a log is finite, and one new place makes it one larger.
LEMMA PlacesCounted ==
    ASSUME NEW n \in Nat, NEW S \in SUBSET (1..n)
    PROVE  /\ Cardinality(S) \in Nat
           /\ Cardinality(S \cup {n + 1}) = Cardinality(S) + 1
<1>1. 1 \in Int /\ n \in Int
  OBVIOUS
<1>2. IsFiniteSet(1..n)
  BY <1>1, FS_Interval
<1>3. IsFiniteSet(S)
  BY <1>2, FS_Subset
<1>4. n + 1 \notin S
  OBVIOUS
<1> QED
  BY <1>3, <1>4, FS_CardinalityType, FS_AddElement

LEMMA InsideCounted ==
    ASSUME NEW l, NEW e, NEW l2, Extends(l, e, l2)
    PROVE  /\ InsideCount(l) \in Nat
           /\ IsInside(e) => InsideCount(l2) = InsideCount(l) + 1
           /\ ~IsInside(e) => InsideCount(l2) = InsideCount(l)
<1> DEFINE S == {i \in DOMAIN l : InsideAt(l, i)}
           S2 == {i \in DOMAIN l2 : InsideAt(l2, i)}
<1>1. Len(l) \in Nat /\ S \in SUBSET (1..Len(l))
  BY DEF Extends
<1>2. IsInside(e) => S2 = S \cup {Len(l) + 1}
  BY InsideExtended DEF Extends
<1>3. ~IsInside(e) => S2 = S
  BY InsideExtended DEF Extends
<1>4. InsideCount(l) = Cardinality(S) /\ InsideCount(l2) = Cardinality(S2)
  BY DEF InsideCount
<1> HIDE DEF S, S2
<1> QED
  BY <1>1, <1>2, <1>3, <1>4, PlacesCounted

LEMMA TailCounted ==
    ASSUME NEW l, NEW e, NEW l2, Extends(l, e, l2)
    PROVE  /\ Cardinality(OutsideTail(l)) \in Nat
           /\ e = None => Cardinality(OutsideTail(l2)) = Cardinality(OutsideTail(l))
           /\ e # None /\ ~IsInside(e) =>
                 Cardinality(OutsideTail(l2)) = Cardinality(OutsideTail(l)) + 1
           /\ IsInside(e) => Cardinality(OutsideTail(l2)) = 0
<1>1. Len(l) \in Nat /\ OutsideTail(l) \in SUBSET (1..Len(l))
  BY DEF Extends, OutsideTail
<1>2. ASSUME NEW i \in DOMAIN l
      PROVE  i \in OutsideTail(l2) <=> i \in OutsideTail(l) /\ ~IsInside(e)
  BY InsideExtended DEF Extends, OutsideTail
<1>3. Len(l2) \in OutsideTail(l2) <=> e # None /\ ~IsInside(e)
  BY InsideExtended DEF Extends, OutsideTail
<1>4. OutsideTail(l2) \subseteq DOMAIN l \cup {Len(l2)} /\ OutsideTail(l) \subseteq DOMAIN l
  BY DEF Extends, OutsideTail
<1>5. Len(l2) = Len(l) + 1 /\ Len(l2) \notin DOMAIN l
  BY DEF Extends
<1>6. CASE IsInside(e)
  <2>1. OutsideTail(l2) = {}
    BY <1>2, <1>3, <1>4, <1>6
  <2> QED
    BY <1>1, <1>6, <2>1, FS_EmptySet, PlacesCounted DEF IsInside
<1>7. CASE ~IsInside(e)
  <2>1. e = None => OutsideTail(l2) = OutsideTail(l)
    BY <1>2, <1>3, <1>4, <1>7
  <2>2. e # None => OutsideTail(l2) = OutsideTail(l) \cup {Len(l) + 1}
    BY <1>2, <1>3, <1>4, <1>5, <1>7
  <2> QED
    BY <1>1, <1>7, <2>1, <2>2, PlacesCounted
<1> QED
  BY <1>6, <1>7

\* No observation outside is pending: after the last one inside come misses only.
LEMMA NothingPending ==
    ASSUME NEW l, NEW e, NEW l2, Extends(l, e, l2), Cardinality(OutsideTail(l)) = 0,
           NEW i \in DOMAIN l, LastInside(l, i)
    PROVE  \A j \in (i + 1)..Len(l) : l[j] = None
<1>1. Len(l) \in Nat /\ OutsideTail(l) \in SUBSET (1..Len(l))
  BY DEF Extends, OutsideTail
<1>2. 1 \in Int /\ Len(l) \in Int
  BY <1>1
<1>3. IsFiniteSet(1..Len(l))
  BY <1>2, FS_Interval
<1>4. IsFiniteSet(OutsideTail(l))
  BY <1>1, <1>3, FS_Subset
<1>5. OutsideTail(l) = {}
  BY <1>4, FS_EmptySet
<1> QED
  BY <1>1, <1>5 DEF Extends, OutsideTail, LastInside

\* What was said of the old entries is said of them still.
LEMMA GapExtended ==
    ASSUME NEW l, NEW e, NEW l2, Extends(l, e, l2),
           NEW k \in DOMAIN l, NEW m \in DOMAIN l
    PROVE  GapInside(l2, k, m) <=> GapInside(l, k, m)
<1>1. l2[k] = l[k] /\ \A j \in (k + 1)..(m - 1) : l2[j] = l[j]
  BY DEF Extends
<1>2. (InsideAt(l2, k) <=> InsideAt(l, k)) /\ (InsideAt(l2, m) <=> InsideAt(l, m))
  BY InsideExtended
<1> QED
  BY <1>1, <1>2 DEF GapInside

LEMMA UndisturbedExtended ==
    ASSUME NEW l, NEW e, NEW l2, Extends(l, e, l2), NEW i \in DOMAIN l, NEW j \in DOMAIN l
    PROVE  /\ Undisturbed(l2, i, j) <=> Undisturbed(l, i, j)
           /\ Carries(l2, i, j) <=> Carries(l, i, j)
<1>1. i..j \subseteq DOMAIN l
  BY DEF Extends
<1>2. \A k \in i..j : l2[k] = l[k] /\ (InsideAt(l2, k) <=> InsideAt(l, k))
  BY <1>1, InsideExtended DEF Extends
<1>3. \A k, m \in i..j : GapInside(l2, k, m) <=> GapInside(l, k, m)
  BY <1>1, GapExtended
<1>4. Undisturbed(l2, i, j) <=> Undisturbed(l, i, j)
  BY <1>2, <1>3 DEF Undisturbed
<1>5. l2[i] = l[i] /\ l2[j] = l[j]
  BY DEF Extends
<1> QED
  BY <1>4, <1>5 DEF Carries

LEMMA SlowExtended ==
    ASSUME NEW l, NEW e, NEW l2, Extends(l, e, l2)
    PROVE  /\ \A i \in DOMAIN l : i \in Slow(l2) <=> i \in Slow(l)
           /\ Len(l2) \in Slow(l2) <=> IsInside(e) /\ e.low
           /\ Slow(l) \subseteq DOMAIN l /\ Slow(l2) \subseteq DOMAIN l \cup {Len(l2)}
BY InsideExtended DEF Extends, Slow

\* Whether the timer starts at a place is settled by the places before it.
StartsAt(l, S, j) ==
    ~\E i \in S : i < j /\ S \cap ((i + 1)..(j - 1)) = {} /\ Carries(l, i, j)

LEMMA StartsDef ==
    ASSUME NEW l, NEW S
    PROVE  S \in Starts(l) <=>
              S \subseteq Slow(l) /\ \A j \in Slow(l) : j \in S <=> StartsAt(l, S, j)
BY DEF Starts, StartsAt

LEMMA StartsAtExtended ==
    ASSUME NEW l, NEW e, NEW l2, Extends(l, e, l2), NEW j \in DOMAIN l,
           NEW S \in SUBSET Slow(l), NEW S2 \in SUBSET Slow(l2), S = S2 \cap DOMAIN l
    PROVE  StartsAt(l2, S2, j) <=> StartsAt(l, S, j)
<1>1. DOMAIN l = 1..Len(l) /\ Len(l) \in Nat /\ S \subseteq DOMAIN l /\ j \in Nat
  BY SlowExtended DEF Extends
<1>2. S2 \subseteq DOMAIN l \cup {Len(l2)} /\ Len(l2) = Len(l) + 1
  BY SlowExtended DEF Extends
<1>3. \A i \in S2 : i < j => i \in S
  BY <1>1, <1>2
<1>4. ASSUME NEW i \in S
      PROVE  S2 \cap ((i + 1)..(j - 1)) = S \cap ((i + 1)..(j - 1))
  BY <1>1, <1>2
<1>5. \A i \in S : Carries(l2, i, j) <=> Carries(l, i, j)
  BY <1>1, UndisturbedExtended
<1> QED
  BY <1>3, <1>4, <1>5 DEF StartsAt

\* The starts in the longer log, short of its last place, are those in the shorter.
LEMMA StartsRestricted ==
    ASSUME NEW l, NEW e, NEW l2, Extends(l, e, l2), NEW S2 \in Starts(l2)
    PROVE  S2 \cap DOMAIN l \in Starts(l)
<1> DEFINE S == S2 \cap DOMAIN l
<1>1. S2 \subseteq Slow(l2) /\ \A j \in Slow(l2) : j \in S2 <=> StartsAt(l2, S2, j)
  BY StartsDef
<1>2. S \subseteq Slow(l)
  BY <1>1, SlowExtended
<1>3. ASSUME NEW j \in Slow(l) PROVE j \in S <=> StartsAt(l, S, j)
  <2>1. j \in DOMAIN l /\ j \in Slow(l2)
    BY SlowExtended
  <2>2. j \in S2 <=> StartsAt(l2, S2, j)
    BY <1>1, <2>1
  <2>3. StartsAt(l2, S2, j) <=> StartsAt(l, S, j)
    BY <1>1, <1>2, <2>1, StartsAtExtended
  <2> QED
    BY <2>1, <2>2, <2>3
<1> QED
  BY <1>2, <1>3, StartsDef

\* A timer is defined for the longer log if it is for the shorter.
LEMMA StartsDefined ==
    ASSUME NEW l, NEW e, NEW l2, Extends(l, e, l2), Starts(l) # {}
    PROVE  Starts(l2) # {}
<1>1. PICK S : S \in Starts(l)
  OBVIOUS
<1> DEFINE n == Len(l2)
           S2 == IF n \in Slow(l2) /\ StartsAt(l2, S, n) THEN S \cup {n} ELSE S
<1>2. S \subseteq Slow(l) /\ \A j \in Slow(l) : j \in S <=> StartsAt(l, S, j)
  BY <1>1, StartsDef
<1>3. n \notin DOMAIN l /\ n \in Nat /\ S \subseteq DOMAIN l
  BY <1>2, SlowExtended DEF Extends
<1>4. S \subseteq Slow(l2) /\ S2 \subseteq Slow(l2) /\ S = S2 \cap DOMAIN l
  BY <1>2, <1>3, SlowExtended
<1>5. StartsAt(l2, S2, n) <=> StartsAt(l2, S, n)
  BY <1>3 DEF StartsAt
<1>6. ASSUME NEW j \in Slow(l2) PROVE j \in S2 <=> StartsAt(l2, S2, j)
  <2>1. CASE j = n
    BY <1>3, <1>5, <1>6, <2>1
  <2>2. CASE j # n
    <3>1. j \in DOMAIN l /\ j \in Slow(l)
      BY <1>6, <2>2, SlowExtended
    <3>2. StartsAt(l2, S2, j) <=> StartsAt(l, S, j)
      BY <1>2, <1>4, <3>1, StartsAtExtended
    <3> QED
      BY <1>2, <1>4, <3>1, <3>2
  <2> QED
    BY <2>1, <2>2
<1> HIDE DEF S2
<1>7. S2 \in Starts(l2)
  BY <1>4, <1>6, StartsDef
<1> QED
  BY <1>7

\* At a slow observation the timer last started runs: it started here, or is carried
\* here from the last start before.
LEMMA TimerRuns ==
    ASSUME NEW l, NEW e, NEW l2, Extends(l, e, l2), NEW S2 \in Starts(l2),
           Len(l2) \in Slow(l2)
    PROVE  /\ \E i \in S2 : Running(l2, S2, i)
           /\ \A i \in S2 : (\A j \in S2 : j <= i) => Running(l2, S2, i)
           /\ Len(l2) \notin S2 =>
                 \A i \in S2 : Running(l2, S2, i) => Carries(l2, i, Len(l2)) /\ i < Len(l2)
<1> DEFINE n == Len(l2)
<1>1. /\ S2 \subseteq Slow(l2) /\ (n \in S2 <=> StartsAt(l2, S2, n))
      /\ n \in Nat /\ InsideAt(l2, n) /\ l2[n].low
  BY StartsDef DEF Extends, Slow
<1>2. \A j \in S2 : j \in 1..n
  BY <1>1 DEF Slow, Extends
<1>3. CASE n \in S2
  <2>1. Undisturbed(l2, n, n)
    BY <1>1 DEF Undisturbed, GapInside
  <2>2. \A i \in S2 : (\A j \in S2 : j <= i) => i = n
    BY <1>1, <1>2, <1>3
  <2> QED
    BY <1>2, <1>3, <2>1, <2>2 DEF Running
<1>4. CASE n \notin S2
  <2>1. PICK i \in S2 : i < n /\ S2 \cap ((i + 1)..(n - 1)) = {} /\ Carries(l2, i, n)
    BY <1>1, <1>4 DEF StartsAt
  <2>2. \A j \in S2 : j <= i
    <3>1. \A j \in S2 : j # n /\ j \notin (i + 1)..(n - 1)
      BY <1>4, <2>1
    <3> QED
      BY <1>1, <1>2, <2>1, <3>1
  <2>3. \A k \in S2 : (\A j \in S2 : j <= k) => k = i
    BY <1>2, <2>1, <2>2
  <2>4. Running(l2, S2, i)
    BY <2>1, <2>2 DEF Running, Carries
  <2> QED
    BY <2>1, <2>3, <2>4 DEF Running
<1> QED
  BY <1>3, <1>4

LEMMA StillExtended ==
    ASSUME NEW l, NEW e, NEW l2, Extends(l, e, l2), NEW i \in DOMAIN l
    PROVE  StillFrom(l2, i) <=>
              /\ StillFrom(l, i)
              /\ IsInside(e) => e.low /\ Distance(l[i].pos, e.pos) <= Radius
<1>1. l2[i] = l[i] /\ (InsideAt(l2, i) <=> InsideAt(l, i))
  BY InsideExtended DEF Extends
<1>2. i..Len(l2) = (i..Len(l)) \cup {Len(l2)}
  BY DEF Extends
<1>3. \A j \in i..Len(l) : l2[j] = l[j] /\ (InsideAt(l2, j) <=> InsideAt(l, j))
  BY InsideExtended DEF Extends
<1>4. l2[Len(l2)] = e /\ (InsideAt(l2, Len(l2)) <=> IsInside(e))
  BY InsideExtended DEF Extends
<1> QED
  BY <1>1, <1>2, <1>3, <1>4 DEF StillFrom

\* Every observation of the window is slow, the last one too.
LEMMA StillIsLow ==
    ASSUME NEW l, NEW e, NEW l2, Extends(l, e, l2), NEW i \in DOMAIN l, StillFrom(l, i),
           NEW j \in i..Len(l), InsideAt(l, j)
    PROVE  l[j].low
BY DEF StillFrom

(***************************************************************************)
(* What a step makes of the summary                                        *)
(***************************************************************************)

\* An entry that is not an observation inside changes neither the last one nor the
\* window, and no window reaches the end of the log with observations only.
LEMMA LastExtended ==
    ASSUME NEW l, NEW e, NEW l2, Extends(l, e, l2), ~IsInside(e),
           NEW i \in DOMAIN l, LastInside(l, i)
    PROVE  LastInside(l2, i) /\ i \in DOMAIN l2 /\ l2[i] = l[i]
<1>1. \A j \in (i + 1)..Len(l2) : j \in (i + 1)..Len(l) \/ j = Len(l2)
  BY DEF Extends
<1>2. \A j \in (i + 1)..Len(l) : j \in DOMAIN l
  BY DEF Extends
<1>3. i \in DOMAIN l2 /\ l2[i] = l[i]
  BY DEF Extends
<1> QED
  BY <1>1, <1>2, <1>3, InsideExtended DEF LastInside

LEMMA WindowExtended ==
    ASSUME NEW l, NEW e, NEW l2, Extends(l, e, l2), ~IsInside(e),
           NEW r, WindowIsReal(r, l), NEW r2, r2.since = r.since, r2.anchor = r.anchor
    PROVE  WindowIsReal(r2, l2)
<1>1. ASSUME r2.anchor # None PROVE WindowIsReal(r2, l2)
  <2>1. PICK i \in DOMAIN l : /\ StillFrom(l, i) /\ r.since = l[i].seen /\ r.anchor = l[i].pos
                              /\ \A k, m \in i..Len(l) : ~GapInside(l, k, m)
    BY <1>1 DEF WindowIsReal
  <2>2. StillFrom(l2, i)
    BY <2>1, StillExtended
  <2>3. ASSUME NEW k \in i..Len(l2), NEW m \in i..Len(l2) PROVE ~GapInside(l2, k, m)
    <3>1. CASE k = Len(l2) \/ m = Len(l2)
      BY <3>1, InsideExtended DEF GapInside
    <3>2. CASE k # Len(l2) /\ m # Len(l2)
      <4>1. k \in i..Len(l) /\ m \in i..Len(l) /\ k \in DOMAIN l /\ m \in DOMAIN l
        BY <3>2 DEF Extends
      <4> QED
        BY <2>1, <4>1, GapExtended
    <3> QED
      BY <3>1, <3>2
  <2>4. i \in DOMAIN l2 /\ l2[i] = l[i]
    BY DEF Extends
  <2> QED
    BY <2>1, <2>2, <2>3, <2>4 DEF WindowIsReal
<1> QED
  BY <1>1 DEF WindowIsReal

LEMMA TimerExtended ==
    ASSUME NEW l, NEW e, NEW l2, Extends(l, e, l2), ~IsInside(e),
           NEW r, WindowIsTimer(r, l), NEW r2, r2.since = r.since, r2.anchor = r.anchor
    PROVE  WindowIsTimer(r2, l2)
<1> SUFFICES ASSUME NEW S \in Starts(l2)
             PROVE  /\ \A i \in S : Running(l2, S, i) =>
                           r2.anchor = l2[i].pos /\ r2.since = l2[i].seen
                    /\ r2.anchor # None => \E i \in S : Running(l2, S, i)
  BY DEF WindowIsTimer
<1>1. S \subseteq Slow(l2)
  BY StartsDef
<1>2. S \subseteq DOMAIN l
  BY <1>1, SlowExtended
<1>3. S \in Starts(l)
  BY <1>2, StartsRestricted, S \cap DOMAIN l = S
<1>4. ASSUME NEW i \in S PROVE Running(l2, S, i) <=> Running(l, S, i)
  <2>1. i \in DOMAIN l /\ Len(l2) = Len(l) + 1 /\ Len(l) \in Nat /\ DOMAIN l = 1..Len(l)
    BY <1>2 DEF Extends
  <2>2. Len(l) \in DOMAIN l
    BY <2>1
  <2>3. Undisturbed(l2, i, Len(l)) <=> Undisturbed(l, i, Len(l))
    BY <2>1, <2>2, UndisturbedExtended
  <2>4. i..Len(l2) = (i..Len(l)) \cup {Len(l2)}
    BY <2>1
  <2>5. ~InsideAt(l2, Len(l2))
    BY InsideExtended
  <2>6. ASSUME NEW k \in i..Len(l2), NEW m \in i..Len(l2), GapInside(l2, k, m)
        PROVE  k \in i..Len(l) /\ m \in i..Len(l)
    BY <2>4, <2>5, <2>6 DEF GapInside
  <2>7. Undisturbed(l2, i, Len(l2)) <=> Undisturbed(l2, i, Len(l))
    BY <2>4, <2>5, <2>6 DEF Undisturbed
  <2> QED
    BY <2>3, <2>7 DEF Running
<1>5. \A i \in S : l2[i] = l[i]
  BY <1>2 DEF Extends
<1> QED
  BY <1>3, <1>4, <1>5 DEF WindowIsTimer

\* A cycle without the aircraft, counted or not.
LEMMA SummaryMissed ==
    ASSUME NEW r, NEW l, NEW l2, Extends(l, None, l2), Summarises(r, l), r.missing \in Nat,
           NEW r2,
           r2.insideObs = r.insideObs, r2.outsideObs = r.outsideObs,
           r2.airline = r.airline, r2.altLow = r.altLow,
           r2.since = r.since, r2.anchor = r.anchor,
           r2.missing = IF r.outsideObs = 0 /\ ~r.airline THEN r.missing + 1
                        ELSE r.missing
    PROVE  Summarises(r2, l2)
<1>0. ~IsInside(None)
  BY DEF IsInside
<1>1. r2.insideObs = InsideCount(l2) /\ r2.outsideObs = Cardinality(OutsideTail(l2))
  BY <1>0, InsideCounted, TailCounted DEF Summarises
<1>2. ShowsLast(r2, l2)
  <2>1. PICK i \in DOMAIN l :
           /\ LastInside(l, i) /\ r.airline = l[i].airline /\ r.missing <= Len(l) - i
           /\ r.outsideObs = 0 =>
                 /\ r.altLow = l[i].altLow
                 /\ ~r.airline => r.missing = Len(l) - i
           /\ r.missing > 0 => ~r.airline /\ r.outsideObs = 0
    BY DEF Summarises, ShowsLast
  <2>2. LastInside(l2, i)
    BY <1>0, <2>1, LastExtended
  <2>3. i \in DOMAIN l2 /\ l2[i] = l[i] /\ Len(l2) = Len(l) + 1 /\ i \in Nat /\ Len(l) \in Nat
    BY DEF Extends
  <2>4. r2.missing <= Len(l2) - i
    BY <2>1, <2>3
  <2>5. r2.outsideObs = 0 /\ ~r2.airline => r2.missing = Len(l2) - i
    BY <2>1, <2>3
  <2> QED
    BY <2>1, <2>2, <2>3, <2>4, <2>5 DEF ShowsLast
<1>3. WindowIsReal(r2, l2) /\ WindowIsTimer(r2, l2)
  BY <1>0, WindowExtended, TimerExtended DEF Summarises
<1> QED
  BY <1>1, <1>2, <1>3 DEF Summarises

\* An observation outside that leaves the exit pending.
LEMMA SummaryLeft ==
    ASSUME NEW r, NEW l, NEW obs \in Observation, NEW l2, Extends(l, obs, l2),
           ~Inside(obs.pos), Summarises(r, l),
           NEW r2,
           r2.insideObs = r.insideObs, r2.outsideObs = r.outsideObs + 1,
           r2.airline = r.airline, r2.missing = 0,
           r2.since = r.since, r2.anchor = r.anchor
    PROVE  Summarises(r2, l2)
<1>0. ~IsInside(obs) /\ obs # None
  BY NoneIsNoObservation DEF IsInside
<1>1. /\ r2.insideObs = InsideCount(l2) /\ r2.outsideObs = Cardinality(OutsideTail(l2))
      /\ r2.outsideObs # 0
  BY <1>0, InsideCounted, TailCounted DEF Summarises
<1>2. ShowsLast(r2, l2)
  <2>1. PICK i \in DOMAIN l : LastInside(l, i) /\ r.airline = l[i].airline
    BY DEF Summarises, ShowsLast
  <2>2. LastInside(l2, i)
    BY <1>0, <2>1, LastExtended
  <2>3. i \in DOMAIN l2 /\ l2[i] = l[i] /\ Len(l2) - i \in Nat
    BY DEF Extends
  <2> QED
    BY <1>1, <2>1, <2>2, <2>3 DEF ShowsLast
<1>3. WindowIsReal(r2, l2) /\ WindowIsTimer(r2, l2)
  BY <1>0, WindowExtended, TimerExtended DEF Summarises
<1> QED
  BY <1>1, <1>2, <1>3 DEF Summarises

LEMMA NearItself == ASSUME NEW p \in Pos PROVE Distance(p, p) <= Radius
<1>1. Radius \in Nat
  BY SettingsAssumption, Zenon
<1>2. p \in Int
  BY WorldAssumption
<1> QED
  BY <1>1, <1>2 DEF Distance

\* A gap before an observation inside has been counted.
LEMMA GapIsCounted ==
    ASSUME NEW l, NEW obs, NEW l2, Extends(l, obs, l2), NEW r, Summarises(r, l),
           NEW k \in 1..Len(l2), GapInside(l2, k, Len(l2))
    PROVE  r.missing > 0
<1>1. /\ Len(l) \in Nat /\ Len(l2) = Len(l) + 1
      /\ k \in DOMAIN l /\ k + 1 <= Len(l) /\ DOMAIN l = 1..Len(l)
  BY DEF GapInside, Extends
<1>2. l2[k] = l[k] /\ \A j \in (k + 1)..Len(l) : l[j] = None
  BY <1>1 DEF GapInside, Extends
<1>3. LastInside(l, k) /\ ~l[k].airline
  BY <1>1, <1>2, InsideExtended DEF GapInside, LastInside, InsideAt
<1>4. OutsideTail(l) = {}
  BY <1>1, <1>2, <1>3 DEF OutsideTail, LastInside
<1>5. r.outsideObs = 0
  BY <1>4, FS_EmptySet DEF Summarises
<1>6. PICK i \in DOMAIN l : /\ LastInside(l, i) /\ r.airline = l[i].airline
                            /\ ~r.airline => r.missing = Len(l) - i
  BY <1>5 DEF Summarises, ShowsLast
<1>7. i = k
  BY <1>1, <1>3, <1>6 DEF LastInside
<1> QED
  BY <1>1, <1>3, <1>6, <1>7

\* And what has been counted is a gap.
LEMMA CountedIsGap ==
    ASSUME NEW l, NEW obs, NEW l2, Extends(l, obs, l2), NEW r, Summarises(r, l),
           IsInside(obs), r.missing > 0, r.missing \in Nat
    PROVE  \E k \in DOMAIN l : LastInside(l, k) /\ GapInside(l2, k, Len(l2))
<1>1. PICK k \in DOMAIN l : /\ LastInside(l, k) /\ r.airline = l[k].airline
                            /\ r.missing <= Len(l) - k
                            /\ ~r.airline /\ r.outsideObs = 0
  BY DEF Summarises, ShowsLast
<1>2. \A j \in (k + 1)..Len(l) : l[j] = None
  BY <1>1, NothingPending DEF Summarises
<1>3. /\ Len(l) \in Nat /\ Len(l2) = Len(l) + 1 /\ DOMAIN l = 1..Len(l)
      /\ \A i \in DOMAIN l : l2[i] = l[i]
  BY DEF Extends
<1>4. k + 1 < Len(l2)
  BY <1>1, <1>3
<1>5. InsideAt(l2, k) /\ InsideAt(l2, Len(l2)) /\ ~l2[k].airline
  BY <1>1, <1>3, InsideExtended DEF LastInside
<1>6. \A j \in (k + 1)..(Len(l2) - 1) : l2[j] = None
  BY <1>2, <1>3
<1> QED
  BY <1>1, <1>4, <1>5, <1>6 DEF GapInside

\* An observation inside, with an open episode.
LEMMA SummaryAdvanced ==
    ASSUME NEW l \in Seq(Entry), NEW obs \in Observation, NEW l2, Extends(l, obs, l2),
           Inside(obs.pos),
           NEW r \in State, Summarises(r, l),
           NEW r2,
           r2.insideObs = r.insideObs + 1, r2.outsideObs = 0, r2.missing = 0,
           r2.airline = obs.airline, r2.altLow = obs.altLow,
           \/ ~obs.low /\ r2.since = None /\ r2.anchor = None
           \/ obs.low /\ KeepsWindow(r, obs) /\ r2.since = r.since /\ r2.anchor = r.anchor
           \/ obs.low /\ ~KeepsWindow(r, obs) /\ r2.since = obs.seen /\ r2.anchor = obs.pos
    PROVE  Summarises(r2, l2)
<1>1. IsInside(obs) /\ obs # None
  BY NoneIsNoObservation DEF IsInside
<1>2. /\ Len(l) \in Nat /\ Len(l2) = Len(l) + 1 /\ l2[Len(l2)] = obs
      /\ DOMAIN l = 1..Len(l) /\ DOMAIN l2 = 1..Len(l2)
      /\ Len(l2) \in DOMAIN l2
      /\ \A i \in DOMAIN l : i \in DOMAIN l2 /\ l2[i] = l[i]
  BY DEF Extends
<1>3. r2.insideObs = InsideCount(l2) /\ r2.outsideObs = Cardinality(OutsideTail(l2))
  BY <1>1, InsideCounted, TailCounted DEF Summarises
<1>4. InsideAt(l2, Len(l2))
  BY <1>1, InsideExtended
<1>5. ShowsLast(r2, l2)
  <2>1. LastInside(l2, Len(l2))
    BY <1>2, <1>4 DEF LastInside
  <2> QED
    BY <1>2, <2>1 DEF ShowsLast
<1>6. Distance(obs.pos, obs.pos) <= Radius
  BY NearItself DEF Observation
<1>7. WindowIsReal(r2, l2)
  <2>1. CASE r2.anchor = None
    BY <2>1 DEF WindowIsReal
  <2>2. CASE obs.low /\ KeepsWindow(r, obs) /\ r2.since = r.since /\ r2.anchor = r.anchor
    <3>1. PICK i \in DOMAIN l :
             /\ StillFrom(l, i) /\ r.since = l[i].seen /\ r.anchor = l[i].pos
             /\ \A k, m \in i..Len(l) : ~GapInside(l, k, m)
      BY <2>2 DEF KeepsWindow, Summarises, WindowIsReal
    <3>2. StillFrom(l2, i)
      BY <2>2, <3>1, StillExtended DEF KeepsWindow
    <3>3. ASSUME NEW k \in i..Len(l2), NEW m \in i..Len(l2) PROVE ~GapInside(l2, k, m)
      <4>1. CASE m = Len(l2)
        <5>1. k \in 1..Len(l2)
          BY <1>2
        <5>2. r.missing = 0
          BY <2>2 DEF KeepsWindow
        <5> QED
          BY <4>1, <5>1, <5>2, GapIsCounted
      <4>2. CASE k = Len(l2)
        BY <1>2, <4>2 DEF GapInside
      <4>3. CASE k # Len(l2) /\ m # Len(l2)
        <5>1. k \in i..Len(l) /\ m \in i..Len(l) /\ k \in DOMAIN l /\ m \in DOMAIN l
          BY <1>2, <4>3
        <5> QED
          BY <3>1, <5>1, GapExtended
      <4> QED
        BY <4>1, <4>2, <4>3
    <3> QED
      BY <1>2, <2>2, <3>1, <3>2, <3>3 DEF WindowIsReal
  <2>3. CASE obs.low /\ ~KeepsWindow(r, obs) /\ r2.since = obs.seen /\ r2.anchor = obs.pos
    <3>1. StillFrom(l2, Len(l2))
      BY <1>2, <1>4, <1>6, <2>3 DEF StillFrom
    <3>2. \A k, m \in Len(l2)..Len(l2) : ~GapInside(l2, k, m)
      BY <1>2 DEF GapInside
    <3> QED
      BY <1>2, <2>3, <3>1, <3>2 DEF WindowIsReal
  <2> QED
    BY <2>1, <2>2, <2>3
<1>8. WindowIsTimer(r2, l2)
  <2> SUFFICES ASSUME NEW S2 \in Starts(l2)
               PROVE  /\ \A i \in S2 : Running(l2, S2, i) =>
                             r2.anchor = l2[i].pos /\ r2.since = l2[i].seen
                      /\ r2.anchor # None => \E i \in S2 : Running(l2, S2, i)
    BY DEF WindowIsTimer
  <2> DEFINE S == S2 \cap DOMAIN l
             n == Len(l2)
  <2>1. S \in Starts(l)
    BY StartsRestricted
  <2>2. n \in Slow(l2) <=> obs.low
    BY <1>1, SlowExtended
  <2>3. S2 \subseteq DOMAIN l \cup {n} /\ \A i \in S2 : i \in 1..n
    BY <1>2, StartsDef, SlowExtended
  <2>4. CASE ~obs.low
    <3>1. ASSUME NEW i \in S2, Running(l2, S2, i) PROVE FALSE
      <4>1. n \in i..n
        BY <1>2, <2>3
      <4> QED
        BY <1>2, <1>4, <2>4, <3>1, <4>1 DEF Running, Undisturbed
    <3> QED
      BY <2>4, <3>1
  <2>5. CASE obs.low /\ n \in S2
    <3>1. \A i \in S2 : Running(l2, S2, i) => i = n
      BY <2>3, <2>5 DEF Running
    <3>2. ~KeepsWindow(r, obs)
      <4> SUFFICES ASSUME KeepsWindow(r, obs) PROVE FALSE
        OBVIOUS
      <4>1. PICK k \in S : Running(l, S, k)
        BY <2>1 DEF KeepsWindow, Summarises, WindowIsTimer
      <4>2. r.anchor = l[k].pos
        BY <2>1, <4>1 DEF Summarises, WindowIsTimer
      <4>3. k \in DOMAIN l /\ Len(l) \in DOMAIN l /\ k < n /\ l2[k] = l[k]
        BY <1>2, <4>1
      <4>4. S2 \cap ((k + 1)..(n - 1)) = {}
        BY <1>2, <2>3, <4>1, <4>3 DEF Running
      <4>5. Undisturbed(l2, k, Len(l))
        BY <4>1, <4>3, UndisturbedExtended DEF Running
      <4>6. k..n = (k..Len(l)) \cup {n}
        BY <1>2, <4>3
      <4>7. \A j \in k..n : InsideAt(l2, j) => l2[j].low
        BY <1>2, <2>5, <4>5, <4>6 DEF Undisturbed
      <4>8. ASSUME NEW j \in k..n, NEW m \in k..n PROVE ~GapInside(l2, j, m)
        <5>1. CASE m = n
          <6>1. j \in 1..n /\ r.missing = 0
            BY <1>2, <4>3 DEF KeepsWindow
          <6> QED
            BY <5>1, <6>1, GapIsCounted
        <5>2. CASE m # n
          <6>1. m \in k..Len(l)
            BY <1>2, <4>6, <5>2
          <6>2. CASE j = n
            BY <1>2, <6>1, <6>2 DEF GapInside
          <6>3. CASE j # n
            BY <4>5, <4>6, <6>1, <6>3 DEF Undisturbed
          <6> QED
            BY <6>2, <6>3
        <5> QED
          BY <5>1, <5>2
      <4>9. Undisturbed(l2, k, n)
        BY <4>7, <4>8 DEF Undisturbed
      <4>10. Distance(l2[k].pos, l2[n].pos) <= Radius
        BY <1>2, <4>2, <4>3 DEF KeepsWindow
      <4>11. Carries(l2, k, n)
        BY <4>9, <4>10 DEF Carries
      <4>12. ~StartsAt(l2, S2, n)
        BY <4>1, <4>3, <4>4, <4>11 DEF StartsAt
      <4> QED
        BY <2>2, <2>5, <4>12, StartsDef
    <3>3. r2.anchor = l2[n].pos /\ r2.since = l2[n].seen
      BY <1>2, <2>5, <3>2
    <3> QED
      BY <2>2, <2>5, <3>1, <3>3, TimerRuns
  <2>6. CASE obs.low /\ n \notin S2
    <3>1. S = S2
      BY <2>3, <2>6
    <3> SUFFICES ASSUME NEW i \in S2, Running(l2, S2, i)
                 PROVE  r2.anchor = l2[i].pos /\ r2.since = l2[i].seen
      BY <2>2, <2>6, TimerRuns
    <3>2. Carries(l2, i, n) /\ i < n
      BY <2>2, <2>6, TimerRuns
    <3>3. i \in DOMAIN l /\ Len(l) \in DOMAIN l /\ i \in Nat /\ l2[i] = l[i]
      BY <1>2, <2>3, <3>2
    <3>4. Undisturbed(l2, i, Len(l))
      <4>1. i..Len(l) \subseteq i..n
        BY <1>2
      <4> QED
        BY <3>2, <4>1 DEF Carries, Undisturbed
    <3>5. Running(l, S, i)
      BY <3>1, <3>3, <3>4, UndisturbedExtended DEF Running
    <3>6. r.anchor = l[i].pos /\ r.since = l[i].seen
      BY <2>1, <3>1, <3>5 DEF Summarises, WindowIsTimer
    <3>7. r.missing = 0
      <4> SUFFICES ASSUME r.missing > 0 PROVE FALSE
        BY StateTypes
      <4>1. PICK k \in DOMAIN l : LastInside(l, k) /\ GapInside(l2, k, n)
        BY <1>1, StateTypes, CountedIsGap
      <4>2. InsideAt(l, i)
        BY <3>1, <3>3, <2>1, StartsDef DEF Slow
      <4>3. i <= k
        BY <1>2, <3>3, <4>1, <4>2 DEF LastInside
      <4>4. k \in i..n /\ n \in i..n
        BY <1>2, <3>2, <3>3, <4>3
      <4> QED
        BY <3>2, <4>1, <4>4 DEF Carries, Undisturbed
    <3>8. r.anchor # None
      <4>1. l[i] \in Observation
        <5>1. InsideAt(l, i)
          BY <3>1, <2>1, StartsDef DEF Slow
        <5> QED
          BY <1>2, <3>3, <5>1 DEF Entry, InsideAt
      <4> QED
        BY <3>6, <4>1, NoneFacts DEF Observation
    <3>9. KeepsWindow(r, obs)
      BY <1>2, <3>2, <3>3, <3>6, <3>7, <3>8 DEF KeepsWindow, Carries
    <3> QED
      BY <2>6, <3>3, <3>6, <3>9
  <2> QED
    BY <2>4, <2>5, <2>6, <2>2
<1> QED
  BY <1>3, <1>5, <1>7, <1>8 DEF Summarises

\* The observation that opens an episode.
LEMMA SummaryOpened ==
    ASSUME NEW obs \in Observation, Inside(obs.pos)
    PROVE  Summarises(Opened(obs), << obs >>) /\ InsideCount(<< obs >>) = 1
<1> DEFINE l == << obs >>
<1>1. Len(l) = 1 /\ DOMAIN l = 1..1 /\ l[1] = obs
  OBVIOUS
<1> HIDE DEF l
<1>2. InsideAt(l, 1)
  BY <1>1, NoneIsNoObservation DEF InsideAt
<1>3. {i \in DOMAIN l : InsideAt(l, i)} = {1} /\ OutsideTail(l) = {}
  BY <1>1, <1>2 DEF OutsideTail
<1>4. InsideCount(l) = 1 /\ Cardinality(OutsideTail(l)) = 0
  BY <1>3, FS_Singleton, FS_EmptySet DEF InsideCount
<1>5. LastInside(l, 1)
  BY <1>1, <1>2 DEF LastInside
<1>6. \A i \in DOMAIN l : StillFrom(l, i) => i = 1 /\ obs.low
  BY <1>1, <1>2 DEF StillFrom
<1>7. Distance(obs.pos, obs.pos) <= Radius
  BY NearItself DEF Observation
<1>8. obs.low => StillFrom(l, 1)
  BY <1>1, <1>2, <1>7 DEF StillFrom
<1>9. \A k, m \in 1..Len(l) : ~GapInside(l, k, m)
  BY <1>1 DEF GapInside
<1>10. /\ Opened(obs).insideObs = 1 /\ Opened(obs).outsideObs = 0
       /\ Opened(obs).missing = 0 /\ Opened(obs).airline = obs.airline
       /\ Opened(obs).altLow = obs.altLow
       /\ obs.low => Opened(obs).since = obs.seen /\ Opened(obs).anchor = obs.pos
       /\ ~obs.low => Opened(obs).anchor = None
  BY DEF Opened
<1>11. ShowsLast(Opened(obs), l)
  BY <1>1, <1>5, <1>10 DEF ShowsLast
<1>12. WindowIsReal(Opened(obs), l)
  BY <1>1, <1>6, <1>8, <1>9, <1>10 DEF WindowIsReal
<1>14. WindowIsTimer(Opened(obs), l)
  <2>1. Slow(l) = IF obs.low THEN {1} ELSE {}
    BY <1>1, <1>2 DEF Slow
  <2>2. ASSUME NEW S \in Starts(l) PROVE S = Slow(l)
    <3>1. S \subseteq Slow(l) /\ \A j \in Slow(l) : j \in S <=> StartsAt(l, S, j)
      BY StartsDef
    <3>2. \A j \in Slow(l) : StartsAt(l, S, j)
      BY <2>1, <3>1 DEF StartsAt
    <3> QED
      BY <3>1, <3>2
  <2>3. obs.low => Undisturbed(l, 1, Len(l))
    BY <1>1, <1>9 DEF Undisturbed
  <2> QED
    BY <1>1, <1>10, <2>1, <2>2, <2>3 DEF WindowIsTimer, Running
<1>13. Summarises(Opened(obs), l)
  BY <1>4, <1>10, <1>11, <1>12, <1>14 DEF Summarises
<1> QED
  BY <1>4, <1>13 DEF l

(***************************************************************************)
(* The operators of Episode against the log                                *)
(***************************************************************************)

LEMMA AdvancedFields ==
    ASSUME NEW r \in State, NEW obs \in Observation
    PROVE  LET new == Advanced(r, obs)
           IN  /\ new.insideObs = r.insideObs + 1 /\ new.outsideObs = 0 /\ new.missing = 0
               /\ new.airline = obs.airline /\ new.altLow = obs.altLow
               /\ new.episode = r.episode /\ new.stopped = r.stopped
               /\ \/ ~obs.low /\ new.since = None /\ new.anchor = None
                  \/ /\ obs.low /\ KeepsWindow(r, obs)
                     /\ new.since = r.since /\ new.anchor = r.anchor
                  \/ /\ obs.low /\ ~KeepsWindow(r, obs)
                     /\ new.since = obs.seen /\ new.anchor = obs.pos
<1> DEFINE win == Windowed(r, obs)
           new == [Located(win, obs) EXCEPT
                      !.airline = obs.airline, !.insideObs = @ + 1, !.outsideObs = 0]
<1>1. Advanced(r, obs) = new
  BY DEF Advanced
<1>2. /\ win \in State
      /\ win.insideObs = r.insideObs /\ win.episode = r.episode /\ win.stopped = r.stopped
  BY DEF Windowed, State, Observation
<1>3. \/ ~obs.low /\ win.since = None /\ win.anchor = None
      \/ obs.low /\ KeepsWindow(r, obs) /\ win.since = r.since /\ win.anchor = r.anchor
      \/ obs.low /\ ~KeepsWindow(r, obs) /\ win.since = obs.seen /\ win.anchor = obs.pos
  BY DEF Windowed, State
<1> HIDE DEF win
<1>4. /\ new.insideObs = win.insideObs + 1 /\ new.outsideObs = 0 /\ new.missing = 0
      /\ new.airline = obs.airline /\ new.altLow = obs.altLow
      /\ new.episode = win.episode /\ new.stopped = win.stopped
      /\ new.since = win.since /\ new.anchor = win.anchor
  BY <1>2 DEF Located, State
<1> HIDE DEF new
<1> QED
  BY <1>1, <1>2, <1>3, <1>4

\* A flag is no part of the summary.
LEMMA FlagsAside ==
    ASSUME NEW r \in State, NEW l, NEW f
    PROVE  /\ Summarises([r EXCEPT !.stopped = f], l) <=> Summarises(r, l)
           /\ Summarises([r EXCEPT !.gone = f], l) <=> Summarises(r, l)
<1>1. ASSUME NEW r2, r2 = [r EXCEPT !.stopped = f] \/ r2 = [r EXCEPT !.gone = f]
      PROVE  Summarises(r2, l) <=> Summarises(r, l)
  <2>1. /\ r2.insideObs = r.insideObs /\ r2.outsideObs = r.outsideObs
        /\ r2.airline = r.airline /\ r2.altLow = r.altLow /\ r2.missing = r.missing
        /\ r2.since = r.since /\ r2.anchor = r.anchor
    BY <1>1 DEF State
  <2> QED
    BY <2>1 DEF Summarises, ShowsLast, WindowIsReal, WindowIsTimer
<1> QED
  BY <1>1

\* The log that goes with the row an accepted observation makes.
LogAfter(r, new, l, obs) ==
    IF new.episode = None THEN << >>
    ELSE IF r # None /\ r.episode = new.episode THEN Append(l, obs)
    ELSE << obs >>

LEMMA UpdateSummarised ==
    ASSUME NEW r \in State \cup {None}, r # None => OpenInside(r), NEW l \in Seq(Entry),
           IF HasEpisode(r) THEN Summarises(r, l) ELSE l = << >>,
           NEW obs \in Observation, Writes(r, obs)
    PROVE  LET new == Update(r, obs)
               l2 == LogAfter(r, new, l, obs)
           IN  /\ l2 \in Seq(Entry)
               /\ new.episode # None => Summarises(new, l2)
               /\ \/ /\ Inside(obs.pos) /\ Continuing(r) /\ new = Advanced(r, obs)
                     /\ l2 = Append(l, obs) /\ new.episode = r.episode
                  \/ /\ Inside(obs.pos) /\ ~HasEpisode(r) /\ new = Opened(obs)
                     /\ l2 = << obs >>
                  \/ /\ ~Inside(obs.pos) /\ HasEpisode(r) /\ new.episode = r.episode
                     /\ l2 = Append(l, obs)
                  \/ /\ ~Inside(obs.pos) /\ new = Closed(obs) /\ l2 = << >>
                     /\ HasEpisode(r) =>
                           Cardinality(OutsideTail(l)) + 1 >= OutsideConfirm
<1> DEFINE new == Update(r, obs)
           l2 == LogAfter(r, new, l, obs)
<1>1. obs \in Entry /\ obs # None
  BY NoneIsNoObservation DEF Entry
<1>2. Append(l, obs) \in Seq(Entry) /\ Extends(l, obs, Append(l, obs))
  BY <1>1, AppendExtends
<1>3. CASE Inside(obs.pos) /\ Continuing(r)
  <2>1. r \in State /\ r.episode # None /\ Summarises(r, l) /\ new = Advanced(r, obs)
    BY <1>3 DEF Continuing, HasEpisode, Update
  <2>2. new.episode = r.episode /\ l2 = Append(l, obs)
    BY <2>1, AdvancedFields, StateTypes DEF LogAfter
  <2> HIDE DEF new, l2
  <2>3. Summarises(new, Append(l, obs))
    BY <1>2, <1>3, <2>1, AdvancedFields, SummaryAdvanced
  <2> QED
    BY <1>2, <1>3, <2>1, <2>2, <2>3 DEF new, l2
<1>4. CASE Inside(obs.pos) /\ ~Continuing(r)
  <2>1. new = Opened(obs) /\ ~HasEpisode(r)
    BY <1>4 DEF Update, Continuing, HasEpisode, OpenInside
  <2>2. l2 = << obs >>
    BY <2>1, NoneFacts DEF LogAfter, Opened, HasEpisode, Observation
  <2> HIDE DEF new, l2
  <2>3. Summarises(new, << obs >>) /\ << obs >> \in Seq(Entry)
    BY <1>1, <1>4, <2>1, SummaryOpened
  <2> QED
    BY <1>4, <2>1, <2>2, <2>3 DEF new, l2
<1>5. CASE ~Inside(obs.pos) /\ HasEpisode(r)
  <2>1. r \in State /\ r.episode # None /\ Summarises(r, l) /\ new = Left(r, obs)
    BY <1>5 DEF HasEpisode, Update
  <2>2. CASE r.outsideObs + 1 >= OutsideConfirm
    <3>1. new = Closed(obs) /\ l2 = << >>
      BY <2>1, <2>2 DEF Left, Closed, LogAfter
    <3>2. Cardinality(OutsideTail(l)) + 1 >= OutsideConfirm
      BY <2>1, <2>2 DEF Summarises
    <3>3. << >> \in Seq(Entry) /\ Closed(obs).episode = None
      BY EmptySeq DEF Closed
    <3> QED
      BY <1>5, <3>1, <3>2, <3>3
  <2>3. CASE ~(r.outsideObs + 1 >= OutsideConfirm)
    <3>1. new = [Located(r, obs) EXCEPT !.outsideObs = @ + 1]
      BY <2>1, <2>3 DEF Left
    <3>2. /\ new.insideObs = r.insideObs /\ new.outsideObs = r.outsideObs + 1
          /\ new.airline = r.airline /\ new.missing = 0
          /\ new.since = r.since /\ new.anchor = r.anchor /\ new.episode = r.episode
      BY <2>1, <3>1 DEF Located, State
    <3>3. l2 = Append(l, obs)
      BY <2>1, <3>2, StateTypes DEF LogAfter
    <3> HIDE DEF new, l2
    <3>4. Summarises(new, Append(l, obs))
      BY <1>2, <1>5, <2>1, <3>2, SummaryLeft
    <3> QED
      BY <1>2, <1>5, <3>2, <3>3, <3>4 DEF new, l2
  <2> QED
    BY <2>2, <2>3
<1>6. CASE ~Inside(obs.pos) /\ ~HasEpisode(r)
  <2>1. new = Closed(obs) /\ new.episode = None /\ l2 = << >>
    BY <1>6 DEF Update, Closed, LogAfter
  <2>2. << >> \in Seq(Entry)
    BY EmptySeq
  <2> QED
    BY <1>6, <2>1, <2>2
<1> QED
  BY <1>3, <1>4, <1>5, <1>6

(***************************************************************************)
(* What the alerts rest on                                                 *)
(***************************************************************************)

\* What StopJustified and GoneJustified say of the evidence of an alert.
StopBy(l) ==
    /\ InsideCount(l) >= StopObservations
    /\ ~Evidence(l).airline
    /\ \E i \in DOMAIN l :
          /\ StillFrom(l, i)
          /\ Evidence(l).seen - l[i].seen >= StopDuration
          /\ \A k, m \in i..Len(l) : ~GapInside(l, k, m)

GoneBy(l) ==
    /\ InsideCount(l) >= GoneObservations
    /\ \E i \in DOMAIN l :
          /\ InsideAt(l, i)
          /\ l[i].altLow /\ ~l[i].airline
          /\ \A j \in (i + 1)..Len(l) : l[j] = None
          /\ Len(l) - i >= GonePolls

LEMMA StopEvidence ==
    ASSUME NEW r \in State, Summarises(r, log), log \in Seq(Entry),
           NEW obs \in Observation, RaisesStop(r, obs)
    PROVE  StopBy(LogWith(obs))
<1> DEFINE new == Advanced(r, obs)
           l2 == Append(log, obs)
<1>1. Extends(log, obs, l2) /\ LogWith(obs) = l2
  BY AppendExtends DEF LogWith, Entry
<1>2. Inside(obs.pos) /\ StopDue(new, obs)
  BY DEF RaisesStop
<1>3. Summarises(new, l2) /\ new.airline = obs.airline
  BY <1>1, <1>2, AdvancedFields, SummaryAdvanced
<1>4. \/ new.since = None /\ new.anchor = None
      \/ new.since = r.since /\ new.anchor = r.anchor /\ KeepsWindow(r, obs)
      \/ new.since = obs.seen /\ new.anchor = obs.pos
  BY AdvancedFields
<1> HIDE DEF new, l2
<1>5. InsideCount(l2) >= StopObservations /\ ~obs.airline
  BY <1>2, <1>3 DEF StopDue, Summarises
<1>6. Evidence(l2) = obs
  BY <1>1 DEF Evidence, Extends
<1>7. new.anchor # None
  BY <1>2, <1>4, NoneFacts DEF StopDue, KeepsWindow, Observation
<1>8. PICK i \in DOMAIN l2 : /\ StillFrom(l2, i) /\ new.since = l2[i].seen
                             /\ \A k, m \in i..Len(l2) : ~GapInside(l2, k, m)
  BY <1>3, <1>7 DEF Summarises, WindowIsReal
<1>9. obs.seen - l2[i].seen >= StopDuration
  BY <1>2, <1>8 DEF StopDue
<1> QED
  BY <1>1, <1>5, <1>6, <1>8, <1>9 DEF StopBy

LEMMA GoneEvidence ==
    ASSUME NEW r \in State, Summarises(r, log), log \in Seq(Entry),
           NEW successful, Counts(r, successful), GoneDue(Missed(r))
    PROVE  GoneBy(LogWith(None))
<1> DEFINE l2 == Append(log, None)
<1>1. Extends(log, None, l2) /\ LogWith(None) = l2
  BY AppendExtends DEF LogWith, Entry
<1> HIDE DEF l2
<1>2. /\ r.outsideObs = 0 /\ ~r.airline /\ r.altLow
      /\ r.insideObs >= GoneObservations /\ r.missing + 1 >= GonePolls
  BY DEF Counts, GoneDue, Missed, State
<1>3. InsideCount(l2) >= GoneObservations
  BY <1>1, <1>2, InsideCounted DEF Summarises, IsInside
<1>4. PICK i \in DOMAIN log :
         LastInside(log, i) /\ ~log[i].airline /\ log[i].altLow /\ r.missing = Len(log) - i
  BY <1>2 DEF Summarises, ShowsLast
<1>5. \A j \in (i + 1)..Len(log) : log[j] = None
  BY <1>1, <1>2, <1>4, NothingPending DEF Summarises
<1>6. i \in DOMAIN l2 /\ l2[i] = log[i] /\ InsideAt(l2, i)
  <2>1. InsideAt(log, i)
    BY <1>4 DEF LastInside
  <2>2. i \in DOMAIN l2 /\ l2[i] = log[i]
    BY <1>1 DEF Extends
  <2> QED
    BY <2>1, <2>2 DEF InsideAt
<1>7. \A j \in (i + 1)..Len(l2) : l2[j] = None
  BY <1>1, <1>5 DEF Extends
<1>8. Len(l2) - i >= GonePolls
  BY <1>1, <1>2, <1>4 DEF Extends
<1> QED
  BY <1>1, <1>3, <1>4, <1>6, <1>7, <1>8 DEF GoneBy

LEMMA ObservedType ==
    ASSUME NEW report \in Report, NEW t \in 1..MaxTime
    PROVE  Observed(report, t) \in Observation
<1>1. Source \in Provider \X Region
  <2>1. PICK p \in Provider, r \in Region : TRUE
    BY SourceAssumption
  <2>2. <<p, r>> \in Provider \X Region
    OBVIOUS
  <2> QED
    BY <2>2, Zenon DEF Source
<1>2. t \in Nat
  BY BoundsAssumption
<1>3. report \in [pos : Pos, low : BOOLEAN, airline : BOOLEAN, altLow : BOOLEAN]
  BY ReportAssumption
<1> QED
  BY <1>1, <1>2, <1>3 DEF Observed, Observation

(***************************************************************************)
(* The steps                                                               *)
(***************************************************************************)

\* What the property ClosureConfirmed says of one step.
Closes ==
    row # None /\ row.episode # None /\ row'.episode # row.episode
    => LET tail == {i \in DOMAIN log : \A j \in i..Len(log) : ~InsideAt(log, j)}
       IN  /\ ~Inside(row'.pos)
           /\ Cardinality({i \in tail : log[i] # None}) + 1 >= OutsideConfirm

LEMMA TailIsOutside ==
    LET tail == {i \in DOMAIN log : \A j \in i..Len(log) : ~InsideAt(log, j)}
    IN  {i \in tail : log[i] # None} = OutsideTail(log)
BY DEF OutsideTail

\* An observation inside with an open episode: a stop the log amounts to is due now,
\* or its alert is recorded.
LEMMA StopIsSeen ==
    ASSUME NEW r \in State, Continuing(r), NEW obs \in Observation, Writes(r, obs),
           Inside(obs.pos),
           NEW l, NEW l2, Extends(l, obs, l2), Summarises(Advanced(r, obs), l2),
           NEW S \in Starts(l2), NEW i \in S, \A j \in S : j <= i, Len(l2) \in Slow(l2),
           InsideCount(l2) >= StopObservations, ~obs.airline,
           l2[i].seen # None, obs.seen - l2[i].seen >= StopDuration
    PROVE  RaisesStop(r, obs) \/ r.stopped
<1>1. Running(l2, S, i)
  BY TimerRuns
<1>2. Advanced(r, obs).since = l2[i].seen /\ Advanced(r, obs).insideObs = InsideCount(l2)
  BY <1>1 DEF Summarises, WindowIsTimer
<1>3. obs.low
  BY DEF Slow, Extends
<1>4. Advanced(r, obs).airline = obs.airline /\ Advanced(r, obs).stopped = r.stopped
  BY AdvancedFields
<1> QED
  BY <1>2, <1>3, <1>4 DEF RaisesStop, StopDue

LEMMA ObserveStep ==
    ASSUME IInv, NEW report \in Report, NEW t \in 1..MaxTime, Observe(report, t)
    PROVE  IInv' /\ Closes
<1> DEFINE obs == Observed(report, t)
           new == Update(row, obs)
           flag == Flags(RaisesStop(row, obs), new.episode, "PROBABLE_STOP")
<1>1. obs \in Observation
  BY ObservedType
<1>2. Writes(row, obs) /\ row \in State \cup {None} /\ log \in Seq(Entry)
  BY DEF Observe, IInv, Typed
<1>3. /\ new \in State /\ OpenInside(new)
      /\ new.stopped => HasEpisode(row) /\ row.stopped /\ new.episode = row.episode
  BY <1>1, <1>2, UpdateTyped DEF IInv, Typed
<1>4. row' = IF RaisesStop(row, obs) THEN [new EXCEPT !.stopped = flag] ELSE new
  BY DEF Observe
<1>5. log' = LogAfter(row, new, log, obs)
  BY DEF Observe, LogWith, LogAfter
<1>6. /\ IF RaisesStop(row, obs) THEN Insert(new.episode, "PROBABLE_STOP", LogWith(obs))
                                 ELSE NoAlert
      /\ alerts \subseteq alerts'
  BY DEF Observe, Insert, NoAlert
<1>7. flag \in BOOLEAN
  BY DEF Flags, RaisesStop
<1>8. /\ log' \in Seq(Entry)
      /\ new.episode # None => Summarises(new, log')
      /\ \/ /\ Inside(obs.pos) /\ Continuing(row) /\ new = Advanced(row, obs)
            /\ log' = Append(log, obs) /\ new.episode = row.episode
         \/ /\ Inside(obs.pos) /\ ~HasEpisode(row) /\ new = Opened(obs)
            /\ log' = << obs >>
         \/ /\ ~Inside(obs.pos) /\ HasEpisode(row) /\ new.episode = row.episode
            /\ log' = Append(log, obs)
         \/ /\ ~Inside(obs.pos) /\ new = Closed(obs) /\ log' = << >>
            /\ HasEpisode(row) => Cardinality(OutsideTail(log)) + 1 >= OutsideConfirm
  BY <1>1, <1>2, <1>5, UpdateSummarised DEF IInv, Typed, RowSummarises
<1>9. Inside(obs.pos) /\ Continuing(row) => new.stopped = row.stopped /\ row \in State
  BY <1>1, <1>2, <1>8, AdvancedFields DEF Continuing, HasEpisode
<1>10. ~(Inside(obs.pos) /\ Continuing(row)) => ~RaisesStop(row, obs)
  BY DEF RaisesStop
<1>12. LogWith(obs) = Append(log, obs) /\ Extends(log, obs, Append(log, obs))
  BY <1>1, <1>2, AppendExtends DEF LogWith, Entry
<1>13. IsInside(obs) <=> Inside(obs.pos)
  BY <1>1, NoneIsNoObservation DEF IsInside
<1> HIDE DEF obs, new, flag
<1>14. /\ row' \in State /\ OpenInside(row') /\ row'.episode = new.episode
       /\ row'.pos = new.pos
       /\ new.episode # None => Summarises(row', log')
       /\ row'.stopped => new.stopped \/ (RaisesStop(row, obs) /\ flag)
  <2>1. CASE RaisesStop(row, obs)
    <3>1. row' \in State /\ OpenInside(row')
      BY <1>3, <1>4, <1>7, <2>1, FlaggedTyped
    <3>2. row'.episode = new.episode /\ row'.pos = new.pos /\ (row'.stopped => flag)
      BY <1>3, <1>4, <2>1 DEF State
    <3>3. new.episode # None => Summarises(row', log')
      BY <1>3, <1>4, <1>8, <2>1, FlagsAside
    <3> QED
      BY <2>1, <3>1, <3>2, <3>3
  <2>2. CASE ~RaisesStop(row, obs)
    BY <1>3, <1>4, <1>8, <2>2
  <2> QED
    BY <2>1, <2>2
<1>15. row' # None
  BY <1>14, StateTypes
<1>16. Typed'
  BY <1>8, <1>14 DEF Typed
<1>17. RowSummarises'
  <2>1. CASE new.episode # None
    BY <1>14, <1>15, <2>1 DEF RowSummarises, HasEpisode
  <2>2. CASE new.episode = None
    <3>1. log' = << >>
      BY <1>5, <2>2 DEF LogAfter
    <3> QED
      BY <1>14, <2>2, <3>1 DEF RowSummarises, HasEpisode
  <2> QED
    BY <2>1, <2>2
<1>18. FlagBacked'
  <2> SUFFICES ASSUME new.episode # None, row'.stopped
               PROVE  Key(new.episode, "PROBABLE_STOP") \in alerts'
    BY <1>14 DEF FlagBacked, HasEpisode, Recorded
  <2>1. CASE new.stopped
    BY <1>3, <1>6, <2>1 DEF IInv, FlagBacked, HasEpisode, Recorded
  <2>2. CASE RaisesStop(row, obs)
    BY <1>6, <2>2 DEF Insert
  <2> QED
    BY <1>14, <2>1, <2>2
<1>19. NoStopMissed'
  <2> SUFFICES ASSUME NEW S \in Starts(log'), NEW i \in S, \A j \in S : j <= i,
                      Len(log') \in Slow(log'),
                      InsideCount(log') >= StopObservations, ~Evidence(log').airline,
                      Evidence(log').seen - log'[i].seen >= StopDuration
               PROVE  Key(row'.episode, "PROBABLE_STOP") \in alerts'
    BY DEF NoStopMissed, Recorded
  <2>0. i \in DOMAIN log' /\ InsideAt(log', i) /\ InsideAt(log', Len(log'))
    BY StartsDef DEF Slow
  <2>1. CASE Inside(obs.pos) /\ Continuing(row)
    <3>1. /\ new = Advanced(row, obs) /\ log' = Append(log, obs)
          /\ new.episode = row.episode /\ row.episode # None
      BY <1>8, <2>1 DEF Continuing, HasEpisode
    <3>2. Evidence(log') = obs /\ Extends(log, obs, log')
      BY <1>12, <3>1 DEF Evidence, Extends
    <3>3. log'[i].seen # None
      <4>1. log'[i] \in Entry
        BY <1>8, <2>0
      <4> QED
        BY <2>0, <4>1, NoneFacts DEF Entry, InsideAt, Observation
    <3>5. Summarises(Advanced(row, obs), log')
      BY <1>8, <3>1
    <3>4. RaisesStop(row, obs) \/ row.stopped
      BY <1>1, <1>2, <1>9, <2>1, <3>2, <3>3, <3>5, StopIsSeen
    <3>6. CASE RaisesStop(row, obs)
      BY <1>6, <1>14, <3>6 DEF Insert
    <3>7. CASE row.stopped
      BY <1>6, <1>14, <2>1, <3>1, <3>7 DEF IInv, FlagBacked, Continuing, HasEpisode, Recorded
    <3> QED
      BY <3>4, <3>6, <3>7
  <2>2. CASE Inside(obs.pos) /\ log' = << obs >>
    <3>1. i = 1 /\ Len(log') = 1 /\ log'[1] = obs
      BY <2>0, <2>2
    <3>2. obs.seen \in Nat
      BY <1>1 DEF Observation
    <3>3. StopDuration \in Nat \ {0}
      BY SettingsAssumption, Zenon
    <3> QED
      BY <3>1, <3>2, <3>3 DEF Evidence
  <2>3. CASE ~Inside(obs.pos) /\ log' = Append(log, obs)
    <3>1. ~InsideAt(log', Len(log'))
      BY <1>12, <1>13, <2>3, InsideExtended
    <3> QED
      BY <2>0, <3>1
  <2>4. CASE log' = << >>
    BY <2>0, <2>4
  <2> QED
    BY <1>8, <2>1, <2>2, <2>3, <2>4
<1>22. TimerDefined'
  <2>1. Starts(log) # {}
    BY DEF IInv, TimerDefined
  <2>2. ASSUME NEW l, l = << >> \/ l = << obs >> PROVE Starts(l) # {}
    <3>1. DOMAIN l \subseteq {1}
      BY <2>2
    <3>2. StartsAt(l, Slow(l), 1)
      BY <3>1 DEF StartsAt, Slow
    <3>3. Slow(l) \subseteq {1}
      BY <3>1 DEF Slow
    <3>4. Slow(l) \in Starts(l)
      BY <3>2, <3>3, StartsDef
    <3> QED
      BY <3>4
  <2>3. log' = Append(log, obs) => Starts(log') # {}
    BY <1>12, <2>1, StartsDefined
  <2>4. log' = Append(log, obs) \/ log' = << >> \/ log' = << obs >>
    BY <1>8
  <2> QED
    BY <2>2, <2>3, <2>4 DEF TimerDefined
<1>20. StopJustified' /\ GoneJustified'
  <2>1. CASE RaisesStop(row, obs)
    <3>1. row \in State /\ Summarises(row, log)
      BY <1>9, <1>10, <2>1 DEF IInv, RowSummarises, Continuing
    <3>2. raised' = None \/ raised' = [type |-> "PROBABLE_STOP", evidence |-> LogWith(obs)]
      BY <1>6, <2>1 DEF Insert
    <3>3. StopBy(LogWith(obs))
      BY <1>1, <1>2, <2>1, <3>1, StopEvidence
    <3>4. raised' # None =>
             raised'.type = "PROBABLE_STOP" /\ raised'.evidence = LogWith(obs)
      BY <3>2
    <3>5. StopJustified'
      BY <3>3, <3>4, Zenon DEF StopJustified, StopBy
    <3>6. GoneJustified'
      BY <3>4 DEF GoneJustified
    <3> QED
      BY <3>5, <3>6
  <2>2. CASE ~RaisesStop(row, obs)
    BY <1>6, <2>2 DEF NoAlert, StopJustified, GoneJustified
  <2> QED
    BY <2>1, <2>2
<1>21. Closes
  <2> SUFFICES ASSUME row # None, row.episode # None, row'.episode # row.episode
               PROVE  /\ ~Inside(row'.pos)
                      /\ Cardinality(OutsideTail(log)) + 1 >= OutsideConfirm
    BY TailIsOutside, Zenon DEF Closes
  <2>1. ~Inside(obs.pos) /\ new = Closed(obs)
    BY <1>8, <1>14 DEF HasEpisode
  <2>2. row'.pos = obs.pos
    BY <1>14, <2>1 DEF Closed
  <2> QED
    BY <1>8, <1>14, <2>1, <2>2 DEF HasEpisode
<1> QED
  BY <1>16, <1>17, <1>18, <1>19, <1>20, <1>21, <1>22 DEF IInv

\* The flags a missed cycle may raise aside, the row has counted it, or not.
LEMMA MissStep ==
    ASSUME IInv, Miss
    PROVE  IInv' /\ Closes
<1> DEFINE missed == Missed(row)
           flag == Flags(GoneDue(missed), row.episode, "DISAPPEARED")
           counted == Counts(row, {row.region})
<1>1. /\ row \in State /\ OpenInside(row) /\ log \in Seq(Entry)
      /\ row.episode # None /\ Summarises(row, log)
  BY DEF Miss, IInv, Typed, RowSummarises, HasEpisode
<1>2. log' \in Seq(Entry) /\ Extends(log, None, log') /\ log' = LogWith(None)
  BY <1>1, AppendExtends DEF Miss, LogWith, Entry
<1>3. counted <=> row.outsideObs = 0 /\ ~row.airline
  BY <1>1 DEF Counts, HasEpisode, OpenInside, Miss
<1>4. missed \in State /\ OpenInside(missed)
  BY <1>1, MissedTyped
<1>5. /\ counted => row' = IF GoneDue(missed) THEN [missed EXCEPT !.gone = flag] ELSE missed
      /\ ~counted => row' = row
  BY DEF Miss
<1>6. flag \in BOOLEAN
  BY DEF Flags, GoneDue
<1>7. /\ IF counted /\ GoneDue(missed) THEN Insert(row.episode, "DISAPPEARED", LogWith(None))
                                       ELSE NoAlert
      /\ alerts \subseteq alerts'
  BY DEF Miss, Insert, NoAlert
<1>8. missed = [row EXCEPT !.missing = @ + 1]
  BY DEF Missed
<1> HIDE DEF flag
<1>9. /\ row'.insideObs = row.insideObs /\ row'.outsideObs = row.outsideObs
      /\ row'.airline = row.airline /\ row'.altLow = row.altLow
      /\ row'.since = row.since /\ row'.anchor = row.anchor
      /\ row'.episode = row.episode /\ row'.stopped = row.stopped
      /\ row'.missing = IF counted THEN row.missing + 1 ELSE row.missing
  <2>1. CASE ~counted
    BY <1>5, <2>1
  <2>2. CASE counted
    BY <1>1, <1>5, <1>8, <2>2 DEF State
  <2> QED
    BY <2>1, <2>2
<1>10. row' \in State /\ OpenInside(row')
  BY <1>1, <1>4, <1>5, <1>6, FlaggedTyped
<1>11. Typed'
  BY <1>2, <1>10 DEF Typed
<1>12. RowSummarises'
  <2>1. Summarises(row', log')
    BY <1>1, <1>2, <1>3, <1>9, StateTypes, SummaryMissed
  <2> QED
    BY <1>1, <1>9, <1>10, <2>1, StateTypes DEF RowSummarises, HasEpisode
<1>13. FlagBacked'
  BY <1>1, <1>7, <1>9, StateTypes DEF IInv, FlagBacked, HasEpisode, Recorded
<1>14. NoStopMissed'
  <2>1. ~InsideAt(log', Len(log'))
    BY <1>2 DEF Extends, InsideAt
  <2>2. Len(log') \notin Slow(log')
    BY <2>1 DEF Slow
  <2> QED
    BY <2>2 DEF NoStopMissed
<1>16. TimerDefined'
  <2>1. Starts(log) # {}
    BY DEF IInv, TimerDefined
  <2> QED
    BY <1>2, <2>1, StartsDefined DEF TimerDefined
<1>15. StopJustified' /\ GoneJustified'
  <2>1. CASE counted /\ GoneDue(missed)
    <3>1. GoneBy(LogWith(None))
      BY <1>1, <2>1, GoneEvidence
    <3>2. raised' # None =>
             raised'.type = "DISAPPEARED" /\ raised'.evidence = LogWith(None)
      BY <1>7, <2>1 DEF Insert
    <3>3. GoneJustified'
      BY <3>1, <3>2, Zenon DEF GoneJustified, GoneBy
    <3>4. StopJustified'
      BY <3>2 DEF StopJustified
    <3> QED
      BY <3>3, <3>4
  <2>2. CASE ~(counted /\ GoneDue(missed))
    BY <1>7, <2>2 DEF NoAlert, StopJustified, GoneJustified
  <2> QED
    BY <2>1, <2>2
<1> QED
  BY <1>9, <1>11, <1>12, <1>13, <1>14, <1>15, <1>16 DEF IInv, Closes

\* A crash between the event and the row leaves the row and the log as they were.
LEMMA CrashStep ==
    ASSUME IInv,
           \/ \E report \in Report, t \in 1..MaxTime : CrashInObserve(report, t)
           \/ CrashInMiss
    PROVE  IInv' /\ Closes
<1>1. UNCHANGED <<row, log>> /\ alerts \subseteq alerts'
  BY DEF CrashInObserve, CrashInMiss, Insert
<1>2. /\ Typed' /\ RowSummarises' /\ FlagBacked' /\ NoStopMissed' /\ TimerDefined'
      /\ Closes
  BY <1>1 DEF IInv, Typed, RowSummarises, FlagBacked, NoStopMissed, TimerDefined,
              Recorded, Closes
<1>3. ASSUME NEW report \in Report, NEW t \in 1..MaxTime, CrashInObserve(report, t)
      PROVE  StopJustified' /\ GoneJustified'
  <2> DEFINE obs == Observed(report, t)
  <2>1. obs \in Observation /\ RaisesStop(row, obs)
    BY <1>3, ObservedType DEF CrashInObserve
  <2>2. raised' # None =>
           raised'.type = "PROBABLE_STOP" /\ raised'.evidence = LogWith(obs)
    BY <1>3 DEF CrashInObserve, Insert
  <2> HIDE DEF obs
  <2>3. row \in State /\ Summarises(row, log) /\ log \in Seq(Entry)
    BY <2>1 DEF IInv, Typed, RowSummarises, RaisesStop, Continuing, HasEpisode
  <2>4. StopBy(LogWith(obs))
    BY <2>1, <2>3, StopEvidence
  <2>5. StopJustified'
    BY <2>2, <2>4, Zenon DEF StopJustified, StopBy
  <2>6. GoneJustified'
    BY <2>2 DEF GoneJustified
  <2> QED
    BY <2>5, <2>6
<1>4. ASSUME CrashInMiss PROVE StopJustified' /\ GoneJustified'
  <2>1. Counts(row, {row.region}) /\ GoneDue(Missed(row))
    BY <1>4 DEF CrashInMiss
  <2>2. row \in State /\ Summarises(row, log) /\ log \in Seq(Entry)
    BY <2>1 DEF IInv, Typed, RowSummarises, Counts, HasEpisode
  <2>3. GoneBy(LogWith(None))
    BY <2>1, <2>2, GoneEvidence
  <2>4. raised' # None =>
           raised'.type = "DISAPPEARED" /\ raised'.evidence = LogWith(None)
    BY <1>4 DEF CrashInMiss, Insert
  <2>5. GoneJustified'
    BY <2>3, <2>4, Zenon DEF GoneJustified, GoneBy
  <2>6. StopJustified'
    BY <2>4 DEF StopJustified
  <2> QED
    BY <2>5, <2>6
<1> QED
  BY <1>2, <1>3, <1>4 DEF IInv

LEMMA NextStep == IInv /\ [Next]_vars => IInv' /\ Closes
<1> SUFFICES ASSUME IInv, [Next]_vars PROVE IInv' /\ Closes
  OBVIOUS
<1>1. ASSUME NEW report \in Report, NEW t \in 1..MaxTime, Observe(report, t)
      PROVE  IInv' /\ Closes
  BY <1>1, ObserveStep
<1>2. CASE Miss
  BY <1>2, MissStep
<1>3. CASE \/ \E report \in Report, t \in 1..MaxTime : CrashInObserve(report, t)
           \/ CrashInMiss
  BY <1>3, CrashStep
<1>4. CASE UNCHANGED vars
  BY <1>4 DEF vars, IInv, Typed, RowSummarises, FlagBacked, NoStopMissed, TimerDefined,
              Recorded, StopJustified, GoneJustified, Closes
<1> QED
  BY <1>1, <1>2, <1>3, <1>4 DEF Next

LEMMA Invariance == Spec => []IInv
<1>1. Init => IInv
  <2> SUFFICES ASSUME Init PROVE IInv
    OBVIOUS
  <2>1. row = None /\ log = << >> /\ raised = None
    BY DEF Init
  <2>2. Slow(log) = {}
    BY <2>1 DEF Slow
  <2>3. {} \in Starts(log) /\ \A S \in Starts(log) : S = {}
    BY <2>2, StartsDef
  <2>4. NoStopMissed /\ TimerDefined
    BY <2>3 DEF NoStopMissed, TimerDefined
  <2> QED
    BY <2>1, <2>4, EmptySeq DEF IInv, Typed, RowSummarises, FlagBacked,
                                HasEpisode, StopJustified, GoneJustified
<1> QED
  BY <1>1, NextStep, PTL DEF Spec

(***************************************************************************)
(* The theorems                                                            *)
(***************************************************************************)

\* Every PROBABLE_STOP alert rests on enough observations inside and on a long enough
\* slow window without a counted gap, whatever the log of the episode holds.
THEOREM StopJustifiedCorrect == Spec => []StopJustified
<1>1. IInv => StopJustified
  BY DEF IInv
<1> QED
  BY <1>1, Invariance, PTL

\* Every DISAPPEARED alert rests on an aircraft last seen inside, low and no airliner,
\* and then missed by GonePolls cycles in a row.
THEOREM GoneJustifiedCorrect == Spec => []GoneJustified
<1>1. IInv => GoneJustified
  BY DEF IInv
<1> QED
  BY <1>1, Invariance, PTL

\* Whenever the timer, read off the whole log of the open episode, has run for the
\* duration, the alert is recorded, also after a crash between the event and the row.
THEOREM NoStopMissedCorrect == Spec => []NoStopMissed
<1>1. IInv => NoStopMissed
  BY DEF IInv
<1> QED
  BY <1>1, Invariance, PTL

\* The timer of every log is defined, so NoStopMissed is about one.
THEOREM TimerDefinedCorrect == Spec => []TimerDefined
<1>1. IInv => TimerDefined
  BY DEF IInv
<1> QED
  BY <1>1, Invariance, PTL

\* An episode is closed only by an observation outside that is at least the
\* OutsideConfirm-th since the last one inside.
THEOREM ClosureConfirmedCorrect == Spec => ClosureConfirmed
<1>1. IInv /\ [Next]_vars => [Closes]_vars
  BY NextStep
<1> QED
  BY <1>1, Invariance, PTL DEF Spec, ClosureConfirmed, Closes
=============================================================================
