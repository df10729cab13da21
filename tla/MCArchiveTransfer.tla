-------------------------- MODULE MCArchiveTransfer --------------------------
(* Small instances of ArchiveTransfer for TLC. *)
EXTENDS ArchiveTransfer
=============================================================================
