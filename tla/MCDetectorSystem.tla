-------------------------- MODULE MCDetectorSystem --------------------------
(* Instances of DetectorSystem for TLC. *)
EXTENDS DetectorSystem

CONSTANTS p1, p2, f1, f2, m1, m2

OnePlugin == {p1}
TwoPlugins == {p1, p2}
OneFrame == {f1}
TwoFrames == {f1, f2}
OneModel == {m1}
TwoModels == {m1, m2}
SameModel == [p \in Plugins |-> m1]
OwnModel == [p \in Plugins |-> IF p = p1 THEN m1 ELSE m2]

=============================================================================
