--------------------------- MODULE MCSelfTestsAsm ---------------------------
(* The x86 self-test gate for three threads.                               *)
EXTENDS SelfTestsAsm

CONSTANTS t1, t2, t3

MCThreads == {t1, t2, t3}
AllOutcomes == {0, 1} \X {0, -1}
=============================================================================
