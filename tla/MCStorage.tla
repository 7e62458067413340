----------------------------- MODULE MCStorage -----------------------------
(* The storage service by itself, for the claim of its header that the     *)
(* code does not keep.                                                     *)
EXTENDS Storage
=============================================================================
