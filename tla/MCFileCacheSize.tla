---------------------------- MODULE MCFileCacheSize ----------------------------
(* Sizes for FileCacheSize: below, at and beyond the capacity of three blocks, *)
(* and one beyond the end of the file.                                         *)
EXTENDS FileCacheSize

MCSizes == <<2, 3, 4, 5, 6>>
=============================================================================
