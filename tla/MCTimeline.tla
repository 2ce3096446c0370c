------------------------------ MODULE MCTimeline ------------------------------
(***************************************************************************)
(* Transcripts of three words for TLC: in one cue with a pause, and in two *)
(* cues of which the second one starts where the first one ends.           *)
(***************************************************************************)
EXTENDS Timeline

W(id, start, end) == [id |-> id, start |-> Unit * start, end |-> Unit * end, text |-> "text"]
C(start, end, words) == [start |-> Unit * start, end |-> Unit * end, words |-> words]

OneCue  == << C(0, 4, << W(1, 0, 1), W(2, 1, 2), W(3, 3, 4) >>) >>
TwoCues == << C(0, 2, << W(1, 0, 2) >>), C(2, 4, << W(2, 2, 3), W(3, 3, 4) >>) >>

ThreeWords == {OneCue, TwoCues}
=============================================================================
