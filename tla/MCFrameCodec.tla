---------------------------- MODULE MCFrameCodec ----------------------------
(* Message lengths for checking FrameCodec.                                *)
EXTENDS FrameCodec

CONSTANT Lengths

\* One or two messages of these lengths.
UpToTwo == UNION {[1..n -> Lengths] : n \in 1..2}
=============================================================================
