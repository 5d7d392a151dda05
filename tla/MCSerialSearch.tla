--------------------------- MODULE MCSerialSearch ---------------------------
(* Small programs for SerialSearch.                                         *)
EXTENDS SerialSearch, TLC

CONSTANTS s1, s2, s3

ThreeStates == {s1, s2, s3}

(* A shortcut as the second choice of a call or of another actor, and a     *)
(* cycle that a call with three outcomes may leave.                         *)
Shortcut == (s1 :> <<<<s2>>, <<s3>>>>) @@ (s2 :> <<<<s3>>>>) @@ (s3 :> <<>>)
Cycle    == (s1 :> <<<<s2, s1>>>>) @@ (s2 :> <<<<s1, s2, s3>>, <<s2>>>>) @@ (s3 :> <<>>)

AllPrograms == {Shortcut, Cycle}
AnyBad      == {{}, {s3}}
OnlyLast    == {s3}
=============================================================================
