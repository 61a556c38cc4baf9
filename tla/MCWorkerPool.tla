---------------------------- MODULE MCWorkerPool ----------------------------
(* Instances of WorkerPool for TLC: the platforms' ways to terminate a     *)
(* process tree and to spawn a worker.                                     *)
EXTENDS WorkerPool

AnyTermination == {"accepted", "unresolved", "pending"}
PosixTermination == {"accepted", "unresolved"}
AnySpawn == {"running", "no_pid", "throw"}
=============================================================================
