--------------------------- MODULE MCLifeMonitor ---------------------------
(* Instance of LifeMonitor for TLC: three events, the first and the last on *)
(* one file and of one type; or two on one file, of different types.        *)
EXTENDS LifeMonitor
CONSTANTS l1, l2, f1, f2, k1, k2
MCFiles == {f1, f2}
MCKeys == {k1, k2}
MCFileOf == <<f1, f2, f1>>
MCKeyOf == <<k1, k2, k1>>
MCLoops == {l1, l2}
MCOneLoop == {l1}
MCSameFile == <<f1, f1>>
MCTwoKeys == <<k1, k2>>
=============================================================================
