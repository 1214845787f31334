----------------------------- MODULE MCTransfers -----------------------------
(* Model-checking instances of Transfers. *)
EXTENDS Transfers

CONSTANTS u1, d1

MCUploads == {u1}
MCDownloads == {d1}
=============================================================================
