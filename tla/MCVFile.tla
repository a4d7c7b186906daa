------------------------------- MODULE MCVFile -------------------------------
(* Instances of VFile for TLC: files of at most two bytes. *)
EXTENDS VFile

MCBytes == {0, 1}

MCChunks == {<<1>>, <<1, 0>>}

Backward == {-1, 0, 1}
=============================================================================
