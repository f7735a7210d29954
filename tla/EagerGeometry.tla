--------------------------- MODULE EagerGeometry ----------------------------
(***************************************************************************)
(* Where the chunks of an eager recording lie (src/src/eager.rs).  Audio   *)
(* is counted in samples; chunk k begins at k * stride and each chunk      *)
(* repeats the last Overlap samples of the one before.                     *)
(***************************************************************************)
EXTENDS Naturals

Monus(a, b) == IF b < a THEN a - b ELSE 0

(* EagerConfig: chunk_samples, overlap_samples; and the tail that is too   *)
(* short to be worth transcribing (0.3 s).                                 *)
Geometries == [chunk : Nat \ {0}, overlap : Nat, min_tail : Nat]

StrideSamples(g) == Monus(g.chunk, g.overlap)

(* Does chunk k lie within the audio?                                      *)
ChunkStart(g, k) == k * StrideSamples(g)
ChunkEnd(g, k) == ChunkStart(g, k) + g.chunk
CanExtract(g, len, k) == ChunkEnd(g, k) <= len

(* A stride of 0 divides by zero in the code, which checks neither length. *)
CountCompleteChunks(g, len) ==
  IF len < g.chunk THEN 0
  ELSE 1 + (Monus(len, g.chunk) \div StrideSamples(g))

(* Mutant: the tail begins where the last chunk ends, counted in chunks.   *)
TailAfterChunks(g, chunks_sent) == chunks_sent * g.chunk

(* The tail begins where the next chunk would, inside the last chunk.      *)
TailStart(g, chunks_sent) == chunks_sent * StrideSamples(g)

HasTail(g, len, chunks_sent) ==
  /\ TailStart(g, chunks_sent) < len
  /\ len - TailStart(g, chunks_sent) >= g.min_tail

=============================================================================
