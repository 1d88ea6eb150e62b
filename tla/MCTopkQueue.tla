---------------------------- MODULE MCTopkQueue -----------------------------
(* Small instances of TopkQueue for TLC. *)
EXTENDS TopkQueue

(* Scores below, at and above the cut of finalize(), with room for ties.   *)
MCScores == {-1, 0, 1, 2}
=============================================================================
