--------------------------- MODULE MCTrackFetch ---------------------------
(* Instance of TrackFetch for TLC. *)
EXTENDS TrackFetch, TLC

CONSTANTS v1, v2, e1, e2

MCEpisodeOf == [v \in {v1, v2} |-> IF v = v1 THEN e1 ELSE e2]
MCSymmetry == Permutations(Request) \cup Permutations(Flight)
===========================================================================
