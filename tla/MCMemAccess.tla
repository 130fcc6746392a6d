------------------------------ MODULE MCMemAccess ------------------------------
(* Sizes for MemAccess: one that no stride above one divides, and powers of two, *)
(* as in the program's list.                                                     *)
EXTENDS MemAccess

MCSizes == <<2, 4, 7, 8>>
=============================================================================
