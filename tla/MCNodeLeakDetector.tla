------------------------- MODULE MCNodeLeakDetector -------------------------
(* Two threads, three detectors and a 2-bit usize, so that a counter      *)
(* wraps below zero.                                                      *)
EXTENDS NodeLeakDetector

CONSTANTS t1, t2, d1, d2, d3

MCThreads == {t1, t2}

MCDetectors == {d1, d2, d3}
=============================================================================
