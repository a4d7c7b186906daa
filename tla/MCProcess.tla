------------------------------ MODULE MCProcess ------------------------------
(* The cores of MCOwnedCore, and two threads.                              *)
EXTENDS MCOwnedCore, Process

CONSTANTS t1, t2

MCThreads == {t1, t2}
=============================================================================
