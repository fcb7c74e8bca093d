---------------------------- MODULE MCClustering ----------------------------
(***************************************************************************)
(* Two items and one manual headline for TLC.  The embeddings of a and b   *)
(* are within the threshold; their titles share one token only, which must *)
(* not merge them; b shares two tokens with the manual headline.  So b can *)
(* go three ways, depending on what the job saw.                           *)
(***************************************************************************)
EXTENDS Clustering

CONSTANTS a, b, manual

MCMaxDist == 1
MCMinTokens == 2

MCDist == [i \in Item |-> [j \in Item |-> IF i = j THEN 0 ELSE 1]]

MCOverlap ==
    [i \in Item |-> [h \in Headline |->
        IF i = h THEN 3
        ELSE IF {i, h} = {b, manual} THEN 2
        ELSE IF {i, h} = {a, b} THEN 1
        ELSE 0]]
=============================================================================
