------------------------------ MODULE MCOneShot ------------------------------
(* The sums of two or three processes over slots of two cells.                 *)
EXTENDS OneShot

\* One dtype, grids of one and two blocks, one message too large for the kernel.
OneDtype ==
  <<[blocks |-> 2, width |-> 1], [blocks |-> 1, width |-> 1], [blocks |-> 1, width |-> 1],
    [blocks |-> 3, width |-> 1], [blocks |-> 2, width |-> 1]>>

\* A message of a wide dtype, then one of a narrow one.
TwoDtypes == <<[blocks |-> 1, width |-> 2], [blocks |-> 2, width |-> 1]>>
=============================================================================
