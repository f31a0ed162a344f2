----------------------------- MODULE MCDemoScript -----------------------------
(* Two runs with the same run id, of one wallet or of two, beside anybody.    *)
EXTENDS DemoScript, TLC

CONSTANTS first, second
MCSymmetry == Permutations({first, second})
=============================================================================
