---------------------------- MODULE MCSharedCore ----------------------------
(* Small instances of shared core mode; the bounds are in share_*.cfg. *)
EXTENDS SharedCore
=============================================================================
