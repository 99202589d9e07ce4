---------------------------- MODULE MCCacheBench ----------------------------
(* Four keys, so that a fourth ADD finds the table loaded; k1 and k2 share *)
(* a home slot, and k4 even shares k3's hash.                              *)
EXTENDS CacheBench, TLC

CONSTANTS k1, k2, k3, k4

MCKey  == {k1, k2, k3, k4}
MCHash == k1 :> 3 @@ k2 :> 7 @@ k3 :> 2 @@ k4 :> 2
=============================================================================
