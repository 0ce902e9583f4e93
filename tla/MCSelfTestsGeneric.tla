------------------------- MODULE MCSelfTestsGeneric -------------------------
(* The portable self-test gate for three threads.                          *)
EXTENDS SelfTestsGeneric

CONSTANTS t1, t2, t3

MCThreads == {t1, t2, t3}
=============================================================================
