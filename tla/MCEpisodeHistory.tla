------------------------- MODULE MCEpisodeHistory -------------------------
(* Instances of EpisodeHistory for TLC: position 0 is outside the areas. *)
EXTENDS EpisodeHistory

MCPos == 0..3
MCArea == 1..3

Says(pos, low, airline, altLow) ==
    [pos |-> pos, low |-> low, airline |-> airline, altLow |-> altLow]

\* Outside; slow at three places, 1 and 3 too far apart; slow and taken for an
\* airliner at the first of them; fast and high.
MCReport ==
    {Says(0, FALSE, FALSE, TRUE),
     Says(1, TRUE, FALSE, TRUE), Says(2, TRUE, FALSE, TRUE), Says(3, TRUE, FALSE, TRUE),
     Says(1, TRUE, TRUE, TRUE), Says(2, FALSE, FALSE, FALSE)}
===========================================================================
