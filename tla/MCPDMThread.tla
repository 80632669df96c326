---------------------------- MODULE MCPDMThread -----------------------------
(* PDMThread for TLC: two threads, the first of which belongs to a driver that goes away. *)
EXTENDS PDMThread

CONSTANTS t1, t2

OneThread == {t1}
TwoThreads == {t1, t2}
OfDriver == {t1}
=============================================================================
