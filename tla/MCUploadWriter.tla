--------------------------- MODULE MCUploadWriter ---------------------------
(* Small instances of UploadWriter: image "a" has two chunks and "b" one.   *)
EXTENDS UploadWriter

MCImages == {"a", "b"}
MCSizeOf == [i \in MCImages |-> IF i = "a" THEN 2 ELSE 1]
MCSessions == {1}
=============================================================================
