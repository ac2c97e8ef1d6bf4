-------------------------- MODULE MCTransakAccess --------------------------
(* Two requests.                                                           *)
EXTENDS TransakAccess

CONSTANTS r1, r2
=============================================================================
