--------------------------- MODULE MCGuestRecovery ---------------------------
(* Two saved files of one guest, two imports, and a browser whose answers come late. *)
EXTENDS GuestRecovery, TLC

Alike == Permutations(Browsers) \cup Permutations(ExportIds) \cup Permutations(ImportIds)
=============================================================================
