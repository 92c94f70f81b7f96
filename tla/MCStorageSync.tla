--------------------------- MODULE MCStorageSync ---------------------------
(* The instance of StorageSync that the safety run checks: its processes can *)
(* be exchanged for one another.                                            *)

EXTENDS StorageSync, TLC

Interchangeable == Permutations(Proc)
=============================================================================
