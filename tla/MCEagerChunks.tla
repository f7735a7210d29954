--------------------------- MODULE MCEagerChunks ----------------------------
(* Instances of EagerChunks for TLC: chunks that overlap by less and by    *)
(* more than half, that do not overlap, and tails that may be dropped.     *)
EXTENDS EagerChunks

Geometry(chunk, overlap, min_tail) ==
  [chunk |-> chunk, overlap |-> overlap, min_tail |-> min_tail]

MCConfigs == { Geometry(3, 1, 1), Geometry(3, 2, 2), Geometry(2, 0, 1) }

=============================================================================
