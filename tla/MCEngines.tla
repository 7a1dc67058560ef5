------------------------------ MODULE MCEngines -----------------------------
(* Instances of Engines for TLC. *)
EXTENDS Engines, TLC

CONSTANTS m1, m2, m3, h1, h2, h3, h4
ThreeModels == {m1, m2, m3}
FourHandles == {h1, h2, h3, h4}
Symmetry == Permutations(FourHandles) \cup Permutations(ThreeModels)

(* The default, its reverse, a typing error, a fallback of the operator's *)
(* own, and nothing.                                                      *)
SomePreferences == {<<"ncnn-vulkan", "mnn-vulkan">>, <<"mnn-vulkan", "ncnn-vulkan">>,
                    <<"unknown", "mnn-vulkan">>, <<"ncnn-vulkan", "cpu", "mnn-vulkan">>, <<>>}

=============================================================================
