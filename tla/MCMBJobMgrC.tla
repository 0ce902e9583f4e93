---------------------------- MODULE MCMBJobMgrC ----------------------------
(* The aarch64 job managers on small instances.                            *)
EXTENDS MBJobMgrC

CONSTANTS j1, j2, j3

MCJobs == {j1, j2, j3}

(* Two stacks and a short vector, one stack, one stack and one job a run.  *)
MCVariants == { [group |-> 2, fill |-> 3, whole |-> TRUE],
                [group |-> 3, fill |-> 2, whole |-> TRUE],
                [group |-> 3, fill |-> 3, whole |-> FALSE] }

(* MD5 SVE and SVE2: three jobs, too few for the vector kernel.            *)
MCSve == { [group |-> 2, fill |-> 4, whole |-> TRUE] }
=============================================================================
