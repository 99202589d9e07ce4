----------------------------- MODULE MCTilePack -----------------------------
(* A word has 64 values, a stored count 16.  Grids of 1 to 63 tiles, with  *)
(* 15 (fits), 16 (cut to nothing) and 63 (the signature index would wrap)  *)
(* among them, and 81, which overflows a word.  Tiles of 3 * 5 and 4 * 5   *)
(* bytes in 1 or 4 layers: 60 bytes and the jitter overflow a word, 80 do  *)
(* without it, and 13 * 5 does before the layers are counted.              *)
EXTENDS TilePack

MCValues == [f \in Field |->
    CASE f = "GRID_WIDTH"  -> {0, 1, 3, 4, 9}
      [] f = "GRID_HEIGHT" -> {1, 4, 5, 7, 9}
      [] f = "TILE_WIDTH"  -> {3, 4, 13}
      [] f = "TILE_HEIGHT" -> {5}
      [] f = "LAYERS"      -> {1, 4, 5}
      [] f = "CHECKPOINTS" -> {0, 1, 3, 6}
      [] OTHER             -> {8}]

MCMix(seed, i) == (seed + 37 * i) % 64
=============================================================================
