------------------------------- MODULE MCFiles -------------------------------
(***************************************************************************)
(* Small instances of what the airframe does with files and processes.     *)
(* Lock files, multiple I/O, filedaemon and airdaemon share nothing: each  *)
(* behaviour is one of one of them.                                        *)
(***************************************************************************)
EXTENDS AirLock, Mio, FileDaemon, AirDaemon

VARIABLE part   \* which of them

(* Programs that run on and that stop at the end of the input.             *)
SomeConfigs == {[next |-> "dir", fail |-> "delete", daemon |-> TRUE],
                [next |-> "dir", fail |-> "dir", daemon |-> FALSE]}

(* Files of two blocks and of one.                                         *)
SomeLengths == [f \in FFiles |-> IF f = CHOOSE g \in FFiles : TRUE THEN 2 ELSE 1]

(* No maximum, maxima that are a power of two times the delay or not, one  *)
(* that is less than the delay, and no delay.                              *)
SomeRetries == {<<1, 0>>, <<2, 5>>, <<1, 6>>, <<3, 3>>, <<3, 2>>, <<0, 4>>}

FilesInit ==
  /\ part \in {"lock", "mio", "filedaemon", "airdaemon"}
  /\ Init /\ MioInit /\ FileDaemonInit /\ AirDaemonInit
  /\ part # "mio" => ~mcfg.daemon
  /\ part # "airdaemon" => retry.min = 3 /\ retry.max = 3

FilesNext ==
  /\ UNCHANGED part
  /\ \/ part = "lock" /\ Next /\ UNCHANGED <<mioVars, fdVars, daemonVars>>
     \/ part = "mio" /\ MioNext /\ UNCHANGED <<lockVars, fdVars, daemonVars>>
     \/ part = "filedaemon" /\ FileDaemonNext /\ UNCHANGED <<lockVars, mioVars, daemonVars>>
     \/ part = "airdaemon" /\ AirDaemonNext /\ UNCHANGED <<lockVars, mioVars, fdVars>>

(* The fairness is that of AirLock.                                        *)
FilesSpec ==
  /\ FilesInit
  /\ [][FilesNext]_<<part, lockVars, mioVars, fdVars, daemonVars>>
  /\ \A p \in Procs :
       /\ WF_lockVars(part = "lock" /\ OpenLock(p) /\ UNCHANGED <<part, mioVars, fdVars, daemonVars>>)
       /\ SF_lockVars(part = "lock" /\ GiveUp(p) /\ UNCHANGED <<part, mioVars, fdVars, daemonVars>>)

=============================================================================
