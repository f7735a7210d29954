---------------------------- MODULE MCAudioPath ----------------------------
(* AudioPath with channels that are full after one or two, and a recording *)
(* of two frames.                                                          *)
EXTENDS AudioPath

MCChunkSizes == {1, 2}

=============================================================================
