---------------------------- MODULE MCSliceIdx ----------------------------
(* size_t has six bits, the buffer starts with 8 bytes and cannot pass 32. *)
(* k1 and k2 have the same hash and length.  FILL counts: one that forces  *)
(* growth or fits after it, one realloc refuses, one that wraps round.     *)
(* The line buffer has 2 bytes at first; a line of 8 bytes is refused.     *)
EXTENDS SliceIdx, TLC

CONSTANTS k1, k2, k3, v1, v2

MCKey       == {k1, k2, k3}
MCValue     == {v1, v2}
MCKeySize   == k1 :> 2 @@ k2 :> 2 @@ k3 :> 1
MCValueSize == v1 :> 1 @@ v2 :> 4
MCHash      == k1 :> 5 @@ k2 :> 5 @@ k3 :> 6
=============================================================================
