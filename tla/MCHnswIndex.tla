---------------------------- MODULE MCHnswIndex ------------------------------
(* HnswIndex on a few points of a line.  The marks of a Golomb ruler have    *)
(* pairwise different distances, so no two slots tie.                        *)
EXTENDS HnswIndex

CONSTANTS Marks, Ms, Efs

MCDistance == [e \in Marks \X Marks |->
                 IF e[1] < e[2] THEN e[2] - e[1] ELSE e[1] - e[2]]
MCParams == [M : Ms, efConstruction : Efs]
=============================================================================
