----------------------------- MODULE MCDisplay -----------------------------
(* Instances of Display for TLC. *)
EXTENDS Display

MCCells == [o \in Outputs |-> IF o \in Builtin THEN {1, 2} ELSE {3}]
MCCovers == [p \in 0 .. 2 |-> IF p = 0 THEN {} ELSE IF p = 1 THEN {1} ELSE {2, 3}]

Scene(e, g, p, o, d) == [ver |-> <<e, g>>, pic |-> p, target |-> o, damage |-> d]
First == CHOOSE o \in Outputs : o \in Builtin
Second == CHOOSE o \in Outputs : o \notin Builtin

\* Pictures that move within and between the outputs in one scene epoch (one
\* version twice, with different pictures), the empty scene of another epoch,
\* and a scene without a version.
MCScenes ==
    {Scene(1, 1, 1, First, {1}), Scene(1, 2, 2, First, {2, 3}), Scene(1, 2, 1, First, {}),
     Scene(1, 3, 2, Second, {}), Scene(2, 3, 0, First, {}), Scene(0, 0, 1, First, {})}
=============================================================================
