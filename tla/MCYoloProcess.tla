--------------------------- MODULE MCYoloProcess ---------------------------
(* YoloProcess on one or two inference threads, with N_THREADS + 2 slots. *)
EXTENDS YoloProcess, TLC

CONSTANTS b1, b2, b3, b4

MCBufs1 == {b1, b2, b3}
MCBufs2 == {b1, b2, b3, b4}

\* The slots are interchangeable: sound for the safety runs.
MCSymmetry == Permutations(MCBufs2)
=============================================================================
