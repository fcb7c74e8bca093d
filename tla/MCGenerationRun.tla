--------------------------- MODULE MCGenerationRun ---------------------------
(***************************************************************************)
(* GenerationRun for TLC.  Titles are only compared with each other, so    *)
(* states that differ by a permutation of them need to be seen once; there *)
(* is no liveness property in this run.                                    *)
(***************************************************************************)
EXTENDS GenerationRun, TLC

TitleSymmetry == Permutations(Title)
=============================================================================
