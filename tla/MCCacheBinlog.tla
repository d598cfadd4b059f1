--------------------------- MODULE MCCacheBinlog ---------------------------
(* Instances of CacheBinlog for TLC. *)
EXTENDS CacheBinlog, TLC

KeySymmetry == Permutations(Keys)

=============================================================================
