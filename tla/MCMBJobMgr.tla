----------------------------- MODULE MCMBJobMgr -----------------------------
(* The job manager on small instances.                                     *)
EXTENDS MBJobMgr

CONSTANTS j1, j2, j3, j4

MCJobs == {j1, j2, j3, j4}
MCByte == MCJobs \X (1 .. MaxBlocks * BLOCK_SIZE)
=============================================================================
