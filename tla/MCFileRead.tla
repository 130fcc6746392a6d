------------------------------ MODULE MCFileRead ------------------------------
(* A file of six blocks for FileRead: the smallest size reads one block, the *)
(* largest is the whole file and exceeds Half.                                *)
EXTENDS FileRead

MCSizes == <<3, 5, 6>>
=============================================================================
