--------------------------- MODULE MCAudioStreams ---------------------------
(* AudioStreams with the constants of the model-checking runs.             *)
EXTENDS AudioStreams, TLC

CONSTANTS s1, s2

Symmetry == Permutations(Streams)
=============================================================================
