------------------------------- MODULE MCGrid -------------------------------
(* Small images for TLC. *)
EXTENDS Grid

MCImageSizes == -1..6

\* Areas whose spans every size divides; y usually points up, and down in the second.
MCAoi ==
  {[upperLeft |-> [x |-> 10, y |-> 50], upperRight |-> [x |-> 70, y |-> 50],
    lowerLeft |-> [x |-> 10, y |-> -70]],
   [upperLeft |-> [x |-> -60, y |-> 0], upperRight |-> [x |-> 60, y |-> 0],
    lowerLeft |-> [x |-> -60, y |-> 60]]}
=============================================================================
