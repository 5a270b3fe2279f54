------------------------------ MODULE MCPlanning ------------------------------
(***************************************************************************)
(* Five by four cells with one static obstacle, whose safety distance      *)
(* leaves a way below it.  A scan may look past the obstacle or close that *)
(* way but for a cell, and so may two objects.                             *)
(***************************************************************************)
EXTENDS Planning
mcStatic == {<<2, 3>>}
mcLidar == <<1, 1>>
mcStart == <<0, 1>>
mcGoals == {<<4, 2>>, <<0, 2>>}
mcEchoes == {{}, {<<3, 3>>, <<4, 1>>}, {<<2, 0>>, <<2, 1>>}, {<<0, 2>>}}
mcFrame == {{}, {<<0, 2>>}}
Symmetry == Permutations(Thread)
=============================================================================
