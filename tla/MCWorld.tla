------------------------------- MODULE MCWorld -------------------------------
EXTENDS World

CONSTANTS ask, tell

MCInstances == 1 .. 2
MCRequestIds == 1 .. 1
MCPrompts == {ask, tell}

(* The search goes on from states in which the worlds have given few numbers *)
(* between them, to revisions and to capabilities.                          *)
FewNumbers ==
  Cardinality(made[1]) + Cardinality(made[2])
    + Cardinality(issued[1]) + Cardinality(issued[2]) <= 7
=============================================================================
