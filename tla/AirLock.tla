------------------------------ MODULE AirLock ------------------------------
(***************************************************************************)
(* Lock files (src/airframe/src/airlock.c), as several processes use them  *)
(* for one output file through yfOutputOpen and yfOutputClose              *)
(* (src/src/yafout.c).  open with O_EXCL and unlink are the atomic steps.  *)
(* A process may be killed at any step; the lock file stays.               *)
(***************************************************************************)
EXTENDS FiniteSets

CONSTANTS Procs, None, Orphan

ASSUME NamesAssumption == None \notin Procs /\ Orphan \notin Procs /\ None # Orphan

VARIABLES
  lockfile,  \* who created the lock file: None, a process, Orphan if killed
  pc         \* "idle", "refused", "held" or "closed" for each process

lockVars == <<lockfile, pc>>

Init ==
  /\ lockfile = None
  /\ pc = [p \in Procs |-> "idle"]

(* air_lock_acquire, open: creates the lock file or is refused.            *)
OpenLock(p) ==
  /\ pc[p] = "idle"
  /\ IF lockfile = None
     THEN lockfile' = p /\ pc' = [pc EXCEPT ![p] = "held"]
     ELSE lockfile' = lockfile /\ pc' = [pc EXCEPT ![p] = "refused"]

(* Fault: a refused process leaves the lock file alone.                    *)
GiveUpKeepsFile(p) ==
  /\ pc[p] = "refused"
  /\ lockfile' = lockfile
  /\ pc' = [pc EXCEPT ![p] = "idle"]

(* air_lock_acquire, after open was refused: unlink, whoever made it.      *)
GiveUp(p) ==
  /\ pc[p] = "refused"
  /\ lockfile' = None
  /\ pc' = [pc EXCEPT ![p] = "idle"]

(* air_lock_release: the descriptor is closed ...                          *)
CloseLock(p) ==
  /\ pc[p] = "held"
  /\ pc' = [pc EXCEPT ![p] = "closed"]
  /\ UNCHANGED lockfile

(* Fault: release only closes the descriptor.                              *)
UnlinkLockForgotten(p) ==
  /\ pc[p] = "closed"
  /\ lockfile' = lockfile
  /\ pc' = [pc EXCEPT ![p] = "idle"]

(* ... and the file unlinked.                                              *)
UnlinkLock(p) ==
  /\ pc[p] = "closed"
  /\ lockfile' = None
  /\ pc' = [pc EXCEPT ![p] = "idle"]

(* The process is killed; another takes its place later.                   *)
Killed(p) ==
  /\ pc[p] # "idle"
  /\ lockfile' = IF lockfile = p THEN Orphan ELSE lockfile
  /\ pc' = [pc EXCEPT ![p] = "idle"]

Step(p) == OpenLock(p) \/ GiveUp(p) \/ CloseLock(p) \/ UnlinkLock(p)

Next == \E p \in Procs : Step(p) \/ Killed(p)

(* Some process tries to open the output again and again, and not every    *)
(* one that is refused is killed before it has removed the file.           *)
Spec ==
  /\ Init
  /\ [][Next]_lockVars
  /\ \A p \in Procs : WF_lockVars(OpenLock(p)) /\ SF_lockVars(GiveUp(p))

----------------------------------------------------------------------------
(* A lock file that exists was made by a process that still holds it, or   *)
(* that was killed: release never leaves one behind.                       *)
LockFileOwned == lockfile \in Procs => pc[lockfile] \in {"held", "closed"}

(* The lock file of a killed process does not lock the output for ever:    *)
(* the process that is refused because of it removes it (air_lock_acquire).*)
OrphanRemoved == (lockfile = Orphan) ~> (lockfile # Orphan)

(* No two processes hold the lock of one file.                             *)
MutualExclusion ==
  \A p, q \in Procs : pc[p] = "held" /\ pc[q] = "held" => p = q

=============================================================================
