---------------------------- MODULE MCDetections ----------------------------
(* Instances of Detections for TLC. *)
EXTENDS Detections

(* Wide and tall: swapping the two sides shows. *)
TwoSizes == {<<24, 16>>, <<16, 24>>}

(* Near the corner two boxes that overlap and two that do not, one that    *)
(* sticks out of either frame, one far from the corner next to its         *)
(* neighbour; scores at, and on either side of, the threshold.             *)
SixObjects ==
  {[class |-> 1, score |-> 9, box |-> <<0, 2, 6, 8>>],
   [class |-> 2, score |-> 7, box |-> <<0, 4, 6, 10>>],
   [class |-> 1, score |-> 5, box |-> <<12, 10, 14, 14>>],
   [class |-> 2, score |-> 5, box |-> <<14, 10, 18, 14>>],
   [class |-> 3, score |-> 4, box |-> <<8, 0, 10, 2>>],
   [class |-> 3, score |-> 8, box |-> <<2, 12, 8, 26>>]}

=============================================================================
