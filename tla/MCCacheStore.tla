--------------------------- MODULE MCCacheStore ---------------------------
(* Four keys for tables of 4, 8 and 16 slots: k1 and k2 have the same hash, *)
(* k3 shares their home slot in a table of 4 only, and k4's home is the    *)
(* first slot, where the probes of the others arrive after wrapping round. *)
EXTENDS CacheStore, TLC

CONSTANTS k1, k2, k3, k4

MCKey  == {k1, k2, k3, k4}
MCHash == k1 :> 7 @@ k2 :> 7 @@ k3 :> 3 @@ k4 :> 16
=============================================================================
