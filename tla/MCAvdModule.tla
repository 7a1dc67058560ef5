----------------------------- MODULE MCAvdModule ----------------------------
(* Instances of AvdModule for TLC. *)
EXTENDS AvdModule, FiniteSets, TLC

CONSTANTS b1, b2
TwoBuilders == {b1, b2}
OneBuilder == {b1}
BothSwaps == {"reload", "restore"}
BuilderSymmetry == Permutations(TwoBuilders)

OneBranch == {"series"}
TwoBranches == {"series", "other"}

(* apple-avd-fixed.ko, as built for the first kernel. *)
OneKept == {[branch |-> "series", kernel |-> 1]}

(* Bounds of the states that TLC goes on from: two scripts are at work; a  *)
(* client has the device open, and the operator stays on the series, while *)
(* one of them swaps modules.                                              *)
Swapping == \E s \in Swaps : pc[s] # "idle"
TwoAtWork == Cardinality({s \in Script : pc[s] # "idle"}) <= 2
SwapsMeetClients == used => Swapping
SwapsAreOfSeries == Swapping \/ file # None => "other" \notin {branch, ko.branch, loaded.branch}

=============================================================================
