---------------------------- MODULE FilesProofs -----------------------------
(***************************************************************************)
(* Proofs about what the airframe does with files and processes (modules   *)
(* AirLock, Mio, FileDaemon and AirDaemon).                                *)
(***************************************************************************)
EXTENDS AirLock, Mio, FileDaemon, AirDaemon, FiniteSetTheorems, WellFoundedInduction, TLAPS

----------------------------------------------------------------------------
(***************************************************************************)
(* Lock files                                                              *)
(***************************************************************************)
LockInv ==
  /\ lockfile \in Procs \cup {None, Orphan}
  /\ pc \in [Procs -> {"idle", "refused", "held", "closed"}]
  /\ LockFileOwned

LEMMA LockInvNext == LockInv /\ [Next]_lockVars => LockInv'
<1> SUFFICES ASSUME LockInv, [Next]_lockVars
             PROVE  LockInv'
  OBVIOUS
<1> USE NamesAssumption DEF LockInv, LockFileOwned
<1>1. ASSUME NEW p \in Procs, Step(p)
      PROVE  LockInv'
  BY <1>1 DEF Step, OpenLock, GiveUp, CloseLock, UnlinkLock
<1>2. ASSUME NEW p \in Procs, Killed(p)
      PROVE  LockInv'
  BY <1>2 DEF Killed
<1>3. CASE UNCHANGED lockVars
  BY <1>3 DEF lockVars
<1> QED BY <1>1, <1>2, <1>3 DEF Next

(* A lock file that exists belongs to a process that has not released it,  *)
(* or to one that was killed, for any number of processes                  *)
(* (air_lock_acquire, air_lock_release).                                   *)
THEOREM LockFilesOwned == Spec => []LockFileOwned
<1>1. Init => LockInv
  BY NamesAssumption DEF Init, LockInv, LockFileOwned
<1>2. LockInv => LockFileOwned
  BY DEF LockInv
<1> QED BY <1>1, <1>2, LockInvNext, PTL DEF Spec

----------------------------------------------------------------------------
(***************************************************************************)
(* Multiple I/O                                                            *)
(***************************************************************************)
MioFlags == {"TERMINATE", "POLL", "ERROR", "TRANSIENT", "SOURCECLOSE", "SINKCLOSE"}

MioProg ==
  [at : {"dispatch", "queue", "verify", "open", "sink", "process", "afterproc", "link",
         "unlink", "unlock", "return", "stopped", "killed"},
   context : BOOLEAN, queue : Seq(MFiles), name : MFiles \cup {NOFILE},
   opened : BOOLEAN, active : BOOLEAN, sink : BOOLEAN, flags : SUBSET MioFlags]

MioType ==
  /\ disk \in [in : SUBSET MFiles, next : SUBSET MFiles, fail : SUBSET MFiles,
               out : SUBSET MFiles, lock : SUBSET MFiles, outlock : SUBSET MFiles]
  /\ prog \in [MProcs -> MioProg]
  /\ mlog \in [done : [MFiles -> Nat], lost : SUBSET MFiles, unsure : SUBSET MFiles]

(* What is open at each step of a program: a sink only with a source, a    *)
(* source only with a file, and what refused to be opened is on its way to *)
(* be closed.                                                              *)
MioOpen(s) ==
  /\ s.sink => s.active
  /\ s.active => s.opened
  /\ s.opened => s.name \in MFiles
  /\ s.opened /\ ~s.active =>
       \/ s.at \in {"link", "unlink", "unlock", "killed"}
       \/ s.at = "afterproc" /\ "SOURCECLOSE" \in s.flags
  /\ s.at \in {"queue", "verify", "open"} => ~s.opened
  /\ s.at \in {"verify", "open", "link", "unlink", "unlock"} => s.name \in MFiles
  /\ s.at \in {"sink", "process"} => s.active
  /\ s.at = "process" => s.sink
  /\ s.at \in {"link", "unlink", "unlock"} => ~s.sink

(* The owner of a file holds its lock from before it looks whether the     *)
(* file is there until after it has removed it.                            *)
Owner(s) == s.name # NOFILE /\ s.at \notin {"killed", "stopped"}

MioOwners ==
  /\ \A p, q \in MProcs : Owner(prog[p]) /\ Owner(prog[q]) /\ prog[p].name = prog[q].name => p = q
  /\ \A p \in MProcs : Owner(prog[p]) => prog[p].name \in disk.lock
  /\ \A p \in MProcs : Owner(prog[p]) /\ prog[p].at \notin {"verify", "unlock"}
                         => prog[p].name \in disk.in

Placed(f) == \/ f \in disk.next \cup disk.fail \cup mlog.lost
             \/ "delete" \in {mcfg.next, mcfg.fail}

MioDone ==
  /\ \A f \in MFiles : mlog.done[f] <= 1 /\ (mlog.done[f] = 1 => f \notin disk.in)
  /\ \A f \in MFiles : f \notin disk.in => Placed(f)
  /\ \A p \in MProcs : prog[p].at = "unlink" => Placed(prog[p].name)

MioOutputs ==
  \A f \in MFiles : f \in disk.out \cap disk.outlock =>
    f \in mlog.unsure \/ \E p \in MProcs : prog[p].name = f /\ prog[p].sink

MioInv == MioType /\ (\A p \in MProcs : MioOpen(prog[p])) /\ MioOwners /\ MioDone /\ MioOutputs

LEMMA MioInvInit == MioInit => MioInv
<1> SUFFICES ASSUME MioInit
             PROVE  MioInv
  OBVIOUS
<1>1. MioType
  BY DEF MioInit, MioType, MioProg
<1>2. \A p \in MProcs : prog[p].at = "dispatch" /\ prog[p].name = NOFILE /\ ~prog[p].sink
                          /\ ~prog[p].active /\ ~prog[p].opened
  BY DEF MioInit
<1>3. \A p \in MProcs : MioOpen(prog[p])
  BY <1>2 DEF MioOpen
<1>4. MioOwners
  BY <1>2 DEF MioOwners, Owner
<1>5. MioDone /\ MioOutputs
  BY <1>2 DEF MioDone, MioOutputs, MioInit
<1> QED BY <1>1, <1>3, <1>4, <1>5 DEF MioInv

(* A step of one program.                                                  *)
LEMMA StepType ==
  ASSUME MioType, NEW p \in MProcs, NEW s \in MioProg, Becomes(p, s)
  PROVE  /\ prog' \in [MProcs -> MioProg]
         /\ prog'[p] = s
         /\ \A q \in MProcs : q # p => prog'[q] = prog[q]
BY DEF MioType, Becomes

(* A step that changes neither the name nor the files on disk keeps        *)
(* everything that is known of other programs.                             *)
LEMMA LocalStep ==
  ASSUME MioInv, NEW p \in MProcs, NEW s \in MioProg, Becomes(p, s), MioOpen(s),
         s.name = prog[p].name, s.sink = prog[p].sink, UNCHANGED <<mcfg, disk, mlog>>,
         prog[p].at \notin {"killed", "stopped"},
         prog[p].at \in {"verify", "unlock"} => s.at = prog[p].at \/ s.name \in disk.in,
         s.at = "unlink" => Placed(s.name)
  PROVE  MioInv'
<1> USE DEF MioInv
<1>1. prog' \in [MProcs -> MioProg] /\ prog'[p] = s
        /\ \A q \in MProcs : q # p => prog'[q] = prog[q]
  BY StepType
<1>2. MioType'
  BY <1>1 DEF MioType
<1>3. \A q \in MProcs : MioOpen(prog[q])'
  BY <1>1 DEF MioOpen
<1>4. MioOwners'
  BY <1>1 DEF MioOwners, Owner
<1>5. MioDone'
  BY <1>1 DEF MioDone, Placed
<1>6. MioOutputs'
  BY <1>1 DEF MioOutputs
<1> QED BY <1>2, <1>3, <1>4, <1>5, <1>6

(* What a queue may be filled with.                                        *)
LEMMA GlobQueues ==
  ASSUME MioType, NEW queue \in Seq(MFiles), NEW q \in mio_source_next_file_glob(queue)
  PROVE  q \in Seq(MFiles)
<1> DEFINE S == mio_source_file_entry_new
<1>1. S \in SUBSET MFiles
  BY DEF mio_source_file_entry_new, MioType
<1>2. Cardinality(S) \in Nat
  BY <1>1, MioAssumption, FS_Subset, FS_CardinalityType
<1>3. CASE queue = <<>>
  <2>1. q \in [1..Cardinality(S) -> S]
    BY <1>3 DEF mio_source_next_file_glob, SetToSeqs
  <2> QED BY <2>1, <1>1, <1>2
<1>4. CASE queue # <<>>
  BY <1>4 DEF mio_source_next_file_glob
<1> QED BY <1>3, <1>4

LEMMA DispatchMio ==
  ASSUME MioInv, NEW p \in MProcs, NEW quit \in BOOLEAN, mio_dispatch(p, quit)
  PROVE  MioInv'
<1> USE DEF MioInv
<1> DEFINE s == [prog[p] EXCEPT !.flags = {}]
<1>1. /\ prog[p] \in MioProg /\ MioOpen(prog[p]) /\ prog[p].at = "dispatch"
      /\ UNCHANGED <<mcfg, disk, mlog>>
  BY DEF MioType, mio_dispatch
<1>2. CASE quit
  <2>1. Becomes(p, [s EXCEPT !.at = "afterproc", !.flags = {"TERMINATE"}])
    BY <1>2 DEF mio_dispatch
  <2>2. [s EXCEPT !.at = "afterproc", !.flags = {"TERMINATE"}] \in MioProg
    BY <1>1 DEF MioProg, MioFlags
  <2>3. MioOpen([s EXCEPT !.at = "afterproc", !.flags = {"TERMINATE"}])
    BY <1>1 DEF MioOpen, MioProg
  <2> QED BY <1>1, <2>1, <2>2, <2>3, LocalStep DEF MioProg
<1>3. CASE ~quit /\ prog[p].active
  <2>1. Becomes(p, [s EXCEPT !.at = "sink"])
    BY <1>3, <1>1 DEF mio_dispatch, MioProg
  <2>2. [s EXCEPT !.at = "sink"] \in MioProg
    BY <1>1 DEF MioProg, MioFlags
  <2>3. MioOpen([s EXCEPT !.at = "sink"])
    BY <1>1, <1>3 DEF MioOpen, MioProg
  <2> QED BY <1>1, <2>1, <2>2, <2>3, LocalStep DEF MioProg
<1>4. CASE ~quit /\ ~prog[p].active /\ ~mio_source_file_context(s)
  <2> DEFINE t == Fails(s, {"TERMINATE"})
  <2>1. Becomes(p, t)
    BY <1>4, <1>1 DEF mio_dispatch, MioProg
  <2>2. t \in MioProg
    BY <1>1 DEF MioProg, MioFlags, Fails
  <2>3. MioOpen(t)
    BY <1>1, <1>4 DEF MioOpen, MioProg, Fails
  <2>4. t.name = prog[p].name /\ t.sink = prog[p].sink /\ t.at = "afterproc"
    BY <1>1 DEF Fails, MioProg
  <2> HIDE DEF t
  <2> QED BY <1>1, <2>1, <2>2, <2>3, <2>4, LocalStep
<1>5. CASE ~quit /\ ~prog[p].active /\ mio_source_file_context(s)
  <2>1. PICK q \in mio_source_next_file_glob(s.queue) :
          Becomes(p, [s EXCEPT !.at = "queue", !.context = TRUE, !.queue = q])
    BY <1>5, <1>1 DEF mio_dispatch, MioProg
  <2> DEFINE t == [s EXCEPT !.at = "queue", !.context = TRUE, !.queue = q]
  <2>2. q \in Seq(MFiles)
    BY <2>1, <1>1, GlobQueues DEF MioProg
  <2>3. t \in MioProg
    BY <1>1, <2>2 DEF MioProg, MioFlags
  <2>4. MioOpen(t)
    BY <1>1, <1>5 DEF MioOpen, MioProg
  <2>5. t.name = prog[p].name /\ t.sink = prog[p].sink /\ t.at = "queue"
    BY <1>1 DEF MioProg
  <2>6. Becomes(p, t)
    BY <2>1
  <2> HIDE DEF t
  <2> QED BY <1>1, <2>3, <2>4, <2>5, <2>6, LocalStep
<1> QED BY <1>2, <1>3, <1>4, <1>5

LEMMA LockSourceMio ==
  ASSUME MioInv, NEW p \in MProcs, LockSource(p)
  PROVE  MioInv'
<1> USE DEF MioInv
<1> DEFINE s == prog[p]  f == Last(s.queue)
<1>1. s \in MioProg /\ MioOpen(s) /\ s.at = "queue" /\ UNCHANGED <<mcfg, mlog>>
  BY DEF MioType, LockSource
<1>2. s.queue # <<>> => f \in MFiles /\ Front(s.queue) \in Seq(MFiles)
  BY <1>1 DEF MioProg, Last, Front
<1>3. CASE s.queue = <<>>
  <2> DEFINE t == Fails(s, {"POLL"})
  <2>1. Becomes(p, t) /\ UNCHANGED disk
    BY <1>3 DEF LockSource
  <2>2. t \in MioProg
    BY <1>1 DEF MioProg, MioFlags, Fails
  <2>3. MioOpen(t)
    BY <1>1 DEF MioOpen, MioProg, Fails
  <2>4. t.name = s.name /\ t.sink = s.sink /\ t.at = "afterproc"
    BY <1>1 DEF Fails, MioProg
  <2> HIDE DEF t
  <2> QED BY <1>1, <2>1, <2>2, <2>3, <2>4, LocalStep
<1>4. CASE s.queue # <<>> /\ f \in disk.lock
  <2> DEFINE t == [s EXCEPT !.queue = Front(@)]
  <2>1. Becomes(p, t) /\ UNCHANGED disk
    BY <1>4 DEF LockSource
  <2>2. t \in MioProg
    BY <1>1, <1>2, <1>4 DEF MioProg
  <2>3. MioOpen(t)
    BY <1>1 DEF MioOpen, MioProg
  <2>4. t.name = s.name /\ t.sink = s.sink /\ t.at = "queue"
    BY <1>1 DEF MioProg
  <2> HIDE DEF t
  <2> QED BY <1>1, <2>1, <2>2, <2>3, <2>4, LocalStep
<1>5. CASE s.queue # <<>> /\ f \notin disk.lock
  <2> DEFINE t == [s EXCEPT !.queue = Front(@), !.name = f, !.at = "verify"]
  <2>1. Becomes(p, t) /\ disk' = [disk EXCEPT !.lock = @ \cup {f}]
    BY <1>5 DEF LockSource
  <2>2. t \in MioProg
    BY <1>1, <1>2, <1>5 DEF MioProg
  <2>3. MioOpen(t)
    BY <1>1, <1>2, <1>5 DEF MioOpen, MioProg
  <2>4. t.name = f /\ ~t.sink /\ t.at = "verify" /\ ~s.sink
    BY <1>1 DEF MioOpen, MioProg
  <2> HIDE DEF t
  <2>5. prog' \in [MProcs -> MioProg] /\ prog'[p] = t
          /\ \A q \in MProcs : q # p => prog'[q] = prog[q]
    BY <2>1, <2>2, StepType
  <2>6. MioType'
    BY <2>1, <2>5, <1>1, <1>2, <1>5 DEF MioType
  <2>7. \A q \in MProcs : MioOpen(prog[q])'
    BY <2>3, <2>5 DEF MioOpen
  <2> HIDE DEF f
  <2>8. MioOwners'
    BY <2>1, <2>4, <2>5, <1>5 DEF MioOwners, Owner, MioType
  <2>9. MioDone'
    BY <2>1, <2>4, <2>5, <1>1 DEF MioDone, Placed, MioType
  <2>10. MioOutputs'
    BY <2>1, <2>4, <2>5, <1>1 DEF MioOutputs, MioType
  <2> QED BY <2>6, <2>7, <2>8, <2>9, <2>10
<1> QED BY <1>3, <1>4, <1>5

(* A program gives up its file: only its own lock is released.             *)
LEMMA ReleaseStep ==
  ASSUME MioInv, NEW p \in MProcs, NEW s \in MioProg, Becomes(p, s), MioOpen(s),
         Owner(prog[p]), ~prog[p].sink, s.name = NOFILE, s.at # "unlink",
         disk' = [disk EXCEPT !.lock = @ \ {prog[p].name}], UNCHANGED <<mcfg, mlog>>
  PROVE  MioInv'
<1> USE DEF MioInv
<1>1. prog' \in [MProcs -> MioProg] /\ prog'[p] = s
        /\ \A q \in MProcs : q # p => prog'[q] = prog[q]
  BY StepType
<1>2. MioType'
  BY <1>1 DEF MioType
<1>3. \A q \in MProcs : MioOpen(prog[q])'
  BY <1>1 DEF MioOpen
<1>4. MioOwners'
  BY <1>1 DEF MioOwners, Owner, MioType
<1>5. MioDone'
  BY <1>1 DEF MioDone, Placed, MioType
<1>6. MioOutputs'
  BY <1>1 DEF MioOutputs, MioType
<1> QED BY <1>2, <1>3, <1>4, <1>5, <1>6

LEMMA VerifySourceMio ==
  ASSUME MioInv, NEW p \in MProcs, VerifySource(p)
  PROVE  MioInv'
<1> USE DEF MioInv
<1> DEFINE s == prog[p]
<1>1. s \in MioProg /\ MioOpen(s) /\ s.at = "verify" /\ UNCHANGED <<mcfg, mlog>>
  BY DEF MioType, VerifySource
<1>2. CASE s.name \in disk.in
  <2> DEFINE t == [s EXCEPT !.at = "open"]
  <2>1. Becomes(p, t) /\ UNCHANGED disk
    BY <1>2 DEF VerifySource, GoesTo
  <2>2. t \in MioProg
    BY <1>1 DEF MioProg
  <2>3. MioOpen(t)
    BY <1>1 DEF MioOpen, MioProg
  <2>4. t.name = s.name /\ t.sink = s.sink /\ t.at = "open"
    BY <1>1 DEF MioProg
  <2> HIDE DEF t
  <2> QED BY <1>1, <1>2, <2>1, <2>2, <2>3, <2>4, LocalStep
<1>3. CASE s.name \notin disk.in
  <2> DEFINE t == [s EXCEPT !.at = "queue", !.name = NOFILE]
  <2>1. Becomes(p, t) /\ disk' = [disk EXCEPT !.lock = @ \ {s.name}]
    BY <1>3 DEF VerifySource
  <2>2. t \in MioProg
    BY <1>1 DEF MioProg
  <2>3. MioOpen(t)
    BY <1>1 DEF MioOpen, MioProg
  <2>4. t.name = NOFILE /\ t.at = "queue" /\ ~s.sink /\ Owner(s)
    BY <1>1, MioAssumption DEF MioOpen, MioProg, Owner
  <2> HIDE DEF t
  <2> QED BY <1>1, <2>1, <2>2, <2>3, <2>4, ReleaseStep
<1> QED BY <1>2, <1>3

LEMMA OpenSourceMio ==
  ASSUME MioInv, NEW p \in MProcs, OpenSource(p)
  PROVE  MioInv'
<1> USE DEF MioInv
<1> DEFINE s == prog[p]  on == [s EXCEPT !.opened = TRUE]
<1>1. s \in MioProg /\ MioOpen(s) /\ s.at = "open" /\ UNCHANGED <<mcfg, mlog>>
  BY DEF MioType, OpenSource
<1>2. CASE /\ Becomes(p, Fails([s EXCEPT !.name = NOFILE], {"ERROR"}))
           /\ disk' = [disk EXCEPT !.lock = @ \ {s.name}]
  <2> DEFINE t == Fails([s EXCEPT !.name = NOFILE], {"ERROR"})
  <2>1. Becomes(p, t)
    BY <1>2
  <2>2. t \in MioProg
    BY <1>1 DEF MioProg, MioFlags, Fails
  <2>3. MioOpen(t)
    BY <1>1 DEF MioOpen, MioProg, Fails
  <2>4. t.name = NOFILE /\ t.at = "afterproc" /\ ~s.sink /\ Owner(s)
    BY <1>1, MioAssumption DEF MioOpen, MioProg, Owner, Fails
  <2> HIDE DEF t
  <2> QED BY <1>1, <1>2, <2>1, <2>2, <2>3, <2>4, ReleaseStep
<1>3. CASE Becomes(p, [on EXCEPT !.active = TRUE, !.at = "sink"]) /\ UNCHANGED disk
  <2> DEFINE t == [on EXCEPT !.active = TRUE, !.at = "sink"]
  <2>1. Becomes(p, t)
    BY <1>3
  <2>2. t \in MioProg
    BY <1>1 DEF MioProg
  <2>3. MioOpen(t)
    BY <1>1 DEF MioOpen, MioProg
  <2>4. t.name = s.name /\ t.sink = s.sink /\ t.at = "sink"
    BY <1>1 DEF MioProg
  <2> HIDE DEF t
  <2> QED BY <1>1, <1>3, <2>1, <2>2, <2>3, <2>4, LocalStep
<1>4. CASE Becomes(p, Fails(on, {"ERROR", "SOURCECLOSE"})) /\ UNCHANGED disk
  <2> DEFINE t == Fails(on, {"ERROR", "SOURCECLOSE"})
  <2>1. Becomes(p, t)
    BY <1>4
  <2>2. t \in MioProg
    BY <1>1 DEF MioProg, MioFlags, Fails
  <2>3. MioOpen(t)
    BY <1>1 DEF MioOpen, MioProg, Fails
  <2>4. t.name = s.name /\ t.sink = s.sink /\ t.at = "afterproc"
    BY <1>1 DEF MioProg, Fails
  <2> HIDE DEF t
  <2> QED BY <1>1, <1>4, <2>1, <2>2, <2>3, <2>4, LocalStep
<1> QED BY <1>2, <1>3, <1>4 DEF OpenSource

LEMMA SinkOpenMio ==
  ASSUME MioInv, NEW p \in MProcs, mio_sink_open_file(p)
  PROVE  MioInv'
<1> USE DEF MioInv
<1> DEFINE s == prog[p]
<1>1. s \in MioProg /\ MioOpen(s) /\ s.at = "sink" /\ UNCHANGED <<mcfg, mlog>>
  BY DEF MioType, mio_sink_open_file
<1>2. CASE s.sink /\ GoesTo(p, "process") /\ UNCHANGED disk
  <2> DEFINE t == [s EXCEPT !.at = "process"]
  <2>1. Becomes(p, t)
    BY <1>2 DEF GoesTo
  <2>2. t \in MioProg
    BY <1>1 DEF MioProg
  <2>3. MioOpen(t)
    BY <1>1, <1>2 DEF MioOpen, MioProg
  <2>4. t.name = s.name /\ t.sink = s.sink /\ t.at = "process"
    BY <1>1 DEF MioProg
  <2> HIDE DEF t
  <2> QED BY <1>1, <1>2, <2>1, <2>2, <2>3, <2>4, LocalStep
<1>3. CASE ~s.sink /\ Becomes(p, Fails(s, {"ERROR"})) /\ UNCHANGED disk
  <2> DEFINE t == Fails(s, {"ERROR"})
  <2>1. Becomes(p, t)
    BY <1>3
  <2>2. t \in MioProg
    BY <1>1 DEF MioProg, MioFlags, Fails
  <2>3. MioOpen(t)
    BY <1>1 DEF MioOpen, MioProg, Fails
  <2>4. t.name = s.name /\ t.sink = s.sink /\ t.at = "afterproc"
    BY <1>1 DEF MioProg, Fails
  <2> HIDE DEF t
  <2> QED BY <1>1, <1>3, <2>1, <2>2, <2>3, <2>4, LocalStep
<1>4. CASE /\ ~s.sink
           /\ Becomes(p, [s EXCEPT !.sink = TRUE, !.at = "process"])
           /\ disk' = [disk EXCEPT !.outlock = @ \cup {s.name}, !.out = @ \cup {s.name}]
  <2> DEFINE t == [s EXCEPT !.sink = TRUE, !.at = "process"]
  <2>1. Becomes(p, t)
    BY <1>4
  <2>2. t \in MioProg
    BY <1>1 DEF MioProg
  <2>3. MioOpen(t)
    BY <1>1 DEF MioOpen, MioProg
  <2>4. t.name = s.name /\ t.name \in MFiles /\ t.sink /\ t.at = "process"
    BY <1>1 DEF MioProg, MioOpen
  <2> HIDE DEF t
  <2>5. prog' \in [MProcs -> MioProg] /\ prog'[p] = t
          /\ \A q \in MProcs : q # p => prog'[q] = prog[q]
    BY <2>1, <2>2, StepType
  <2>6. MioType'
    BY <1>4, <2>4, <2>5, <1>1 DEF MioType
  <2>7. \A q \in MProcs : MioOpen(prog[q])'
    BY <2>3, <2>5 DEF MioOpen
  <2>8. MioOwners'
    BY <1>4, <2>4, <2>5, <1>1 DEF MioOwners, Owner, MioType
  <2>9. MioDone'
    BY <1>4, <2>4, <2>5, <1>1 DEF MioDone, Placed, MioType
  <2>10. MioOutputs'
    BY <1>4, <2>4, <2>5, <1>1 DEF MioOutputs, MioType
  <2> QED BY <2>6, <2>7, <2>8, <2>9, <2>10
<1> QED BY <1>2, <1>3, <1>4 DEF mio_sink_open_file

LEMMA ProcessMio ==
  ASSUME MioInv, NEW p \in MProcs, app_process(p)
  PROVE  MioInv'
<1> USE DEF MioInv
<1> DEFINE s == prog[p]
<1>1. /\ s \in MioProg /\ MioOpen(s) /\ s.at = "process" /\ UNCHANGED <<mcfg, disk>>
      /\ mlog' = [mlog EXCEPT !.unsure = @ \ {s.name}]
  BY DEF MioType, app_process
<1>2. \E flags \in SUBSET MioFlags : Becomes(p, [s EXCEPT !.at = "afterproc", !.flags = flags])
  <2>1. CASE Becomes(p, [s EXCEPT !.at = "afterproc"])
    <3>1. [s EXCEPT !.at = "afterproc"] = [s EXCEPT !.at = "afterproc", !.flags = s.flags]
            /\ s.flags \in SUBSET MioFlags
      BY <1>1 DEF MioProg
    <3> QED BY <2>1, <3>1
  <2>2. CASE Becomes(p, [s EXCEPT !.at = "afterproc", !.flags = @ \cup {"SOURCECLOSE"}])
    <3>1. s.flags \cup {"SOURCECLOSE"} \in SUBSET MioFlags
      BY <1>1 DEF MioProg, MioFlags
    <3> QED BY <2>2, <3>1
  <2>3. ASSUME NEW e \in {"ERROR", "TRANSIENT"}, Becomes(p, Fails(s, {e, "SOURCECLOSE"}))
        PROVE  \E flags \in SUBSET MioFlags :
                 Becomes(p, [s EXCEPT !.at = "afterproc", !.flags = flags])
    <3>1. s.flags \cup {e, "SOURCECLOSE"} \in SUBSET MioFlags
      BY <1>1 DEF MioProg, MioFlags
    <3> QED BY <2>3, <3>1 DEF Fails
  <2> QED BY <2>1, <2>2, <2>3 DEF app_process
<1>3. PICK flags \in SUBSET MioFlags : Becomes(p, [s EXCEPT !.at = "afterproc", !.flags = flags])
  BY <1>2
<1> DEFINE t == [s EXCEPT !.at = "afterproc", !.flags = flags]
<1>4. Becomes(p, t)
  BY <1>3
<1>5. t \in MioProg
  BY <1>1 DEF MioProg
<1>6. MioOpen(t)
  BY <1>1 DEF MioOpen, MioProg
<1>7. t.name = s.name /\ t.sink /\ t.at = "afterproc"
  BY <1>1 DEF MioProg, MioOpen
<1> HIDE DEF t
<1>8. prog' \in [MProcs -> MioProg] /\ prog'[p] = t
        /\ \A q \in MProcs : q # p => prog'[q] = prog[q]
  BY <1>4, <1>5, StepType
<1>9. MioType'
  BY <1>1, <1>8 DEF MioType
<1>10. \A q \in MProcs : MioOpen(prog[q])'
  BY <1>6, <1>8 DEF MioOpen
<1>11. MioOwners'
  BY <1>1, <1>7, <1>8 DEF MioOwners, Owner
<1>12. MioDone'
  BY <1>1, <1>7, <1>8 DEF MioDone, Placed, MioType
<1>13. MioOutputs'
  BY <1>1, <1>7, <1>8 DEF MioOutputs, MioType
<1> QED BY <1>9, <1>10, <1>11, <1>12, <1>13

(* When a source is to be closed its sink is closed first.                 *)
LEMMA PromotedFlags ==
  ASSUME NEW flags \in SUBSET MioFlags
  PROVE  /\ Promoted(flags) \in SUBSET MioFlags
         /\ "SOURCECLOSE" \in Promoted(flags) => "SINKCLOSE" \in Promoted(flags)
         /\ "SOURCECLOSE" \in flags => "SOURCECLOSE" \in Promoted(flags)
BY DEF Promoted, MioFlags

LEMMA SinkCloseMio ==
  ASSUME MioInv, NEW p \in MProcs, mio_sink_close_file(p)
  PROVE  MioInv'
<1> USE DEF MioInv
<1> DEFINE s == prog[p]  flags == Promoted(s.flags)
           bad == flags \cap {"ERROR", "TRANSIENT"} # {}
           at == IF "SOURCECLOSE" \in flags /\ s.opened THEN "link" ELSE "return"
<1>1. s \in MioProg /\ MioOpen(s) /\ s.at = "afterproc" /\ UNCHANGED mcfg
  BY DEF MioType, mio_sink_close_file
<1>2. /\ flags \in SUBSET MioFlags
      /\ "SOURCECLOSE" \in flags => "SINKCLOSE" \in flags
      /\ "SOURCECLOSE" \in s.flags => "SOURCECLOSE" \in flags
  BY <1>1, PromotedFlags DEF MioProg
<1>3. CASE "SINKCLOSE" \in flags /\ s.sink
  <2>a. PICK failed \in BOOLEAN :
          /\ Becomes(p, [s EXCEPT !.sink = FALSE, !.at = at,
                !.flags = flags \cup (IF failed THEN {"ERROR"} ELSE {})])
          /\ mlog' = [mlog EXCEPT !.unsure = IF failed THEN @ \cup {s.name} ELSE @]
    BY <1>3 DEF mio_sink_close_file
  <2>b. disk' = [disk EXCEPT !.outlock = @ \ {s.name}, !.out = IF bad THEN @ \ {s.name} ELSE @]
    BY <1>3 DEF mio_sink_close_file
  <2> DEFINE now == flags \cup (IF failed THEN {"ERROR"} ELSE {})
             t == [s EXCEPT !.sink = FALSE, !.at = at, !.flags = now]
  <2>c. now \in SUBSET MioFlags /\ at \in {"link", "return"} /\ (at = "link" => s.opened)
    BY <1>2 DEF MioFlags
  <2>1. Becomes(p, t)
    BY <2>a
  <2> HIDE DEF now, at, flags
  <2>2. t \in MioProg
    BY <1>1, <2>c DEF MioProg
  <2>3. MioOpen(t)
    BY <1>1, <1>3, <2>c DEF MioOpen, MioProg
  <2>4. t.name = s.name /\ s.name \in MFiles /\ ~t.sink /\ t.at \in {"link", "return"}
    BY <1>1, <1>3, <2>c DEF MioProg, MioOpen
  <2> HIDE DEF t, bad
  <2>5. prog' \in [MProcs -> MioProg] /\ prog'[p] = t
          /\ \A q \in MProcs : q # p => prog'[q] = prog[q]
    BY <2>1, <2>2, StepType
  <2>6. /\ disk'.in = disk.in /\ disk'.lock = disk.lock /\ disk'.next = disk.next
        /\ disk'.fail = disk.fail
        /\ disk' \in [in : SUBSET MFiles, next : SUBSET MFiles, fail : SUBSET MFiles,
                      out : SUBSET MFiles, lock : SUBSET MFiles, outlock : SUBSET MFiles]
        /\ disk'.out \subseteq disk.out /\ disk'.outlock = disk.outlock \ {s.name}
    BY <2>b DEF MioType
  <2>7. mlog'.done = mlog.done /\ mlog'.lost = mlog.lost /\ mlog.unsure \subseteq mlog'.unsure
        /\ mlog' \in [done : [MFiles -> Nat], lost : SUBSET MFiles, unsure : SUBSET MFiles]
    BY <2>a, <2>4 DEF MioType
  <2>8. MioType'
    BY <2>5, <2>6, <2>7 DEF MioType
  <2>9. \A q \in MProcs : MioOpen(prog[q])'
    BY <2>3, <2>5 DEF MioOpen
  <2>10. MioOwners'
    BY <1>1, <2>4, <2>5, <2>6 DEF MioOwners, Owner
  <2>11. MioDone'
    BY <1>1, <2>4, <2>5, <2>6, <2>7 DEF MioDone, Placed
  <2>12. MioOutputs'
    BY <2>4, <2>5, <2>6, <2>7 DEF MioOutputs
  <2> QED BY <2>8, <2>9, <2>10, <2>11, <2>12
<1>4. CASE ~("SINKCLOSE" \in flags /\ s.sink)
  <2> DEFINE t == [s EXCEPT !.at = at, !.flags = flags]
  <2>1. Becomes(p, t) /\ UNCHANGED <<disk, mlog>>
    BY <1>4 DEF mio_sink_close_file
  <2>c. at \in {"link", "return"} /\ (at = "link" <=> "SOURCECLOSE" \in flags /\ s.opened)
    OBVIOUS
  <2> HIDE DEF at, flags
  <2>2. t \in MioProg
    BY <1>1, <1>2, <2>c DEF MioProg
  <2>3. MioOpen(t)
    BY <1>1, <1>2, <1>4, <2>c DEF MioOpen, MioProg
  <2>4. t.name = s.name /\ t.sink = s.sink /\ t.at \in {"link", "return"}
    BY <1>1, <2>c DEF MioProg
  <2> HIDE DEF t
  <2> QED BY <1>1, <2>1, <2>2, <2>3, <2>4, LocalStep
<1> QED BY <1>3, <1>4

LEMMA LinkSourceMio ==
  ASSUME MioInv, NEW p \in MProcs, LinkSource(p)
  PROVE  MioInv'
<1> USE DEF MioInv
<1> DEFINE s == prog[p]  to == Destination(s.flags)
<1>1. s \in MioProg /\ MioOpen(s) /\ s.at = "link" /\ s.name \in MFiles /\ UNCHANGED mcfg
  BY DEF MioType, MioOpen, LinkSource
<1>2. CASE /\ disk' = [disk EXCEPT ![Side(s.flags)] = @ \cup {s.name}]
           /\ GoesTo(p, "unlink") /\ UNCHANGED mlog
  <2> DEFINE t == [s EXCEPT !.at = "unlink"]
  <2>1. Becomes(p, t)
    BY <1>2 DEF GoesTo
  <2>2. t \in MioProg
    BY <1>1 DEF MioProg
  <2>3. MioOpen(t)
    BY <1>1 DEF MioOpen, MioProg
  <2>4. t.name = s.name /\ t.sink = s.sink /\ t.at = "unlink"
    BY <1>1 DEF MioProg
  <2> HIDE DEF t
  <2>5. prog' \in [MProcs -> MioProg] /\ prog'[p] = t
          /\ \A q \in MProcs : q # p => prog'[q] = prog[q]
    BY <2>1, <2>2, StepType
  <2>6. /\ disk'.in = disk.in /\ disk'.lock = disk.lock /\ disk'.out = disk.out
        /\ disk'.outlock = disk.outlock
        /\ disk.next \subseteq disk'.next /\ disk.fail \subseteq disk'.fail
        /\ s.name \in disk'.next \cup disk'.fail
        /\ disk' \in [in : SUBSET MFiles, next : SUBSET MFiles, fail : SUBSET MFiles,
                      out : SUBSET MFiles, lock : SUBSET MFiles, outlock : SUBSET MFiles]
    <3>1. CASE "ERROR" \in s.flags
      BY <1>1, <1>2, <3>1 DEF MioType, Side
    <3>2. CASE "ERROR" \notin s.flags
      BY <1>1, <1>2, <3>2 DEF MioType, Side
    <3> QED BY <3>1, <3>2
  <2>8. MioType'
    BY <1>2, <2>5, <2>6 DEF MioType
  <2>9. \A q \in MProcs : MioOpen(prog[q])'
    BY <2>3, <2>5 DEF MioOpen
  <2>10. MioOwners'
    BY <1>1, <2>4, <2>5, <2>6 DEF MioOwners, Owner
  <2>11. MioDone'
    BY <1>1, <1>2, <2>4, <2>5, <2>6, ZenonT(30) DEF MioDone, Placed
  <2>12. MioOutputs'
    BY <1>2, <2>4, <2>5, <2>6 DEF MioOutputs
  <2> QED BY <2>8, <2>9, <2>10, <2>11, <2>12
<1>3. CASE /\ Becomes(p, [s EXCEPT !.at = "unlink", !.flags = @ \cup {"ERROR"}])
           /\ mlog' = [mlog EXCEPT !.lost = @ \cup {s.name}] /\ UNCHANGED disk
  <2> DEFINE t == [s EXCEPT !.at = "unlink", !.flags = @ \cup {"ERROR"}]
  <2>1. Becomes(p, t)
    BY <1>3
  <2>2. t \in MioProg
    BY <1>1 DEF MioProg, MioFlags
  <2>3. MioOpen(t)
    BY <1>1 DEF MioOpen, MioProg
  <2>4. t.name = s.name /\ t.sink = s.sink /\ t.at = "unlink"
    BY <1>1 DEF MioProg
  <2> HIDE DEF t
  <2>5. prog' \in [MProcs -> MioProg] /\ prog'[p] = t
          /\ \A q \in MProcs : q # p => prog'[q] = prog[q]
    BY <2>1, <2>2, StepType
  <2>8. MioType'
    BY <1>1, <1>3, <2>5 DEF MioType
  <2>9. \A q \in MProcs : MioOpen(prog[q])'
    BY <2>3, <2>5 DEF MioOpen
  <2>10. MioOwners'
    BY <1>1, <1>3, <2>4, <2>5 DEF MioOwners, Owner
  <2>11. MioDone'
    BY <1>1, <1>3, <2>4, <2>5 DEF MioDone, Placed, MioType
  <2>12. MioOutputs'
    BY <1>3, <2>4, <2>5 DEF MioOutputs, MioType
  <2> QED BY <2>8, <2>9, <2>10, <2>11, <2>12
<1>4. CASE to = "delete" /\ GoesTo(p, "unlink") /\ UNCHANGED <<disk, mlog>>
  <2> DEFINE t == [s EXCEPT !.at = "unlink"]
  <2>1. Becomes(p, t)
    BY <1>4 DEF GoesTo
  <2>2. t \in MioProg
    BY <1>1 DEF MioProg
  <2>3. MioOpen(t)
    BY <1>1 DEF MioOpen, MioProg
  <2>4. t.name = s.name /\ t.sink = s.sink /\ t.at = "unlink" /\ Placed(t.name)
    BY <1>1, <1>4 DEF MioProg, Placed, Destination
  <2> HIDE DEF t
  <2> QED BY <1>1, <1>4, <2>1, <2>2, <2>3, <2>4, LocalStep
<1>5. CASE to = "keep" /\ GoesTo(p, "unlock") /\ UNCHANGED <<disk, mlog>>
  <2> DEFINE t == [s EXCEPT !.at = "unlock"]
  <2>1. Becomes(p, t)
    BY <1>5 DEF GoesTo
  <2>2. t \in MioProg
    BY <1>1 DEF MioProg
  <2>3. MioOpen(t)
    BY <1>1 DEF MioOpen, MioProg
  <2>4. t.name = s.name /\ t.sink = s.sink /\ t.at = "unlock"
    BY <1>1 DEF MioProg
  <2> HIDE DEF t
  <2> QED BY <1>1, <1>5, <2>1, <2>2, <2>3, <2>4, LocalStep
<1> QED BY <1>2, <1>3, <1>4, <1>5 DEF LinkSource

LEMMA UnlinkSourceMio ==
  ASSUME MioInv, NEW p \in MProcs, UnlinkSource(p)
  PROVE  MioInv'
<1> USE DEF MioInv
<1> DEFINE s == prog[p]  t == [s EXCEPT !.at = "unlock"]
<1>1. /\ s \in MioProg /\ MioOpen(s) /\ s.at = "unlink" /\ s.name \in MFiles
      /\ UNCHANGED mcfg /\ disk' = [disk EXCEPT !.in = @ \ {s.name}]
      /\ mlog' = [mlog EXCEPT !.done[s.name] = @ + 1]
  BY DEF MioType, MioOpen, UnlinkSource
<1>2. Becomes(p, t)
  BY DEF UnlinkSource, GoesTo
<1>3. t \in MioProg
  BY <1>1 DEF MioProg
<1>4. MioOpen(t) /\ t.name = s.name /\ t.sink = s.sink /\ t.at = "unlock"
  BY <1>1 DEF MioOpen, MioProg
<1> HIDE DEF t
<1>5. prog' \in [MProcs -> MioProg] /\ prog'[p] = t
        /\ \A q \in MProcs : q # p => prog'[q] = prog[q]
  BY <1>2, <1>3, StepType
<1>6. Owner(s) /\ s.name \in disk.in /\ mlog.done[s.name] = 0 /\ Placed(s.name)
  BY <1>1, MioAssumption DEF Owner, MioOwners, MioDone, MioType
<1>7. MioType'
  BY <1>1, <1>5 DEF MioType
<1>8. \A q \in MProcs : MioOpen(prog[q])'
  BY <1>4, <1>5 DEF MioOpen
<1>9. MioOwners'
  BY <1>1, <1>4, <1>5, <1>6 DEF MioOwners, Owner, MioType
<1>10. MioDone'
  BY <1>1, <1>4, <1>5, <1>6 DEF MioDone, Placed, MioType
<1>11. MioOutputs'
  BY <1>1, <1>4, <1>5 DEF MioOutputs, MioType
<1> QED BY <1>7, <1>8, <1>9, <1>10, <1>11

LEMMA UnlockSourceMio ==
  ASSUME MioInv, NEW p \in MProcs, UnlockSource(p)
  PROVE  MioInv'
<1> USE DEF MioInv
<1> DEFINE s == prog[p]
           t == [s EXCEPT !.at = "return", !.name = NOFILE, !.opened = FALSE, !.active = FALSE]
<1>1. /\ s \in MioProg /\ MioOpen(s) /\ s.at = "unlock" /\ UNCHANGED <<mcfg, mlog>>
      /\ disk' = [disk EXCEPT !.lock = @ \ {s.name}] /\ Becomes(p, t)
  BY DEF MioType, UnlockSource
<1>2. t \in MioProg
  BY <1>1 DEF MioProg
<1>3. MioOpen(t) /\ t.name = NOFILE /\ t.at = "return" /\ ~s.sink /\ Owner(s)
  BY <1>1, MioAssumption DEF MioOpen, MioProg, Owner
<1> HIDE DEF t
<1> QED BY <1>1, <1>2, <1>3, ReleaseStep

LEMMA LoopMio ==
  ASSUME MioInv, NEW p \in MProcs, mio_dispatch_loop(p)
  PROVE  MioInv'
<1> USE DEF MioInv
<1> DEFINE s == prog[p]  at == IF "TERMINATE" \in s.flags THEN "stopped" ELSE "dispatch"
           t == [s EXCEPT !.at = at, !.flags = {}]
<1>1. s \in MioProg /\ MioOpen(s) /\ s.at = "return" /\ UNCHANGED <<mcfg, disk, mlog>> /\ Becomes(p, t)
  BY DEF MioType, mio_dispatch_loop
<1>2. at \in {"stopped", "dispatch"}
  OBVIOUS
<1> HIDE DEF at
<1>3. t \in MioProg
  BY <1>1, <1>2 DEF MioProg
<1>4. MioOpen(t) /\ t.name = s.name /\ t.sink = s.sink /\ t.at \in {"stopped", "dispatch"}
  BY <1>1, <1>2 DEF MioOpen, MioProg
<1> HIDE DEF t
<1> QED BY <1>1, <1>3, <1>4, LocalStep

LEMMA KilledMio ==
  ASSUME MioInv, NEW p \in MProcs, KilledProgram(p)
  PROVE  MioInv'
<1> USE DEF MioInv
<1> DEFINE s == prog[p]  t == [s EXCEPT !.at = "killed", !.queue = <<>>]
<1>1. /\ s \in MioProg /\ MioOpen(s) /\ UNCHANGED <<mcfg, disk>>
      /\ mlog' = [mlog EXCEPT !.unsure = IF s.sink THEN @ \cup {s.name} ELSE @]
  BY DEF MioType, KilledProgram
<1>2. Becomes(p, t)
  BY DEF KilledProgram
<1>3. t \in MioProg
  <2>1. <<>> \in Seq(MFiles)
    OBVIOUS
  <2> QED BY <1>1, <2>1 DEF MioProg
<1>4. MioOpen(t) /\ t.name = s.name /\ t.sink = s.sink /\ t.at = "killed"
  BY <1>1 DEF MioOpen, MioProg
<1> HIDE DEF t
<1>5. prog' \in [MProcs -> MioProg] /\ prog'[p] = t
        /\ \A q \in MProcs : q # p => prog'[q] = prog[q]
  BY <1>2, <1>3, StepType
<1>6. mlog'.done = mlog.done /\ mlog'.lost = mlog.lost /\ mlog.unsure \subseteq mlog'.unsure
      /\ mlog' \in [done : [MFiles -> Nat], lost : SUBSET MFiles, unsure : SUBSET MFiles]
  BY <1>1 DEF MioType, MioOpen
<1>7. MioType'
  BY <1>1, <1>5, <1>6 DEF MioType
<1>8. \A q \in MProcs : MioOpen(prog[q])'
  BY <1>4, <1>5 DEF MioOpen
<1>9. MioOwners'
  BY <1>1, <1>4, <1>5 DEF MioOwners, Owner
<1>10. MioDone'
  BY <1>1, <1>4, <1>5, <1>6 DEF MioDone, Placed
<1>11. MioOutputs'
  BY <1>1, <1>4, <1>5, <1>6 DEF MioOutputs
<1> QED BY <1>7, <1>8, <1>9, <1>10, <1>11

LEMMA MioInvNext == MioInv /\ [MioNext]_mioVars => MioInv'
<1> SUFFICES ASSUME MioInv, [MioNext]_mioVars
             PROVE  MioInv'
  OBVIOUS
<1>1. CASE UNCHANGED mioVars
  BY <1>1 DEF mioVars, MioInv, MioType, MioOpen, MioOwners, Owner, MioDone, Placed, MioOutputs
<1>2. CASE MioNext
  BY <1>2, DispatchMio, LockSourceMio, VerifySourceMio, OpenSourceMio, SinkOpenMio, ProcessMio,
     SinkCloseMio, LinkSourceMio, UnlinkSourceMio, UnlockSourceMio, LoopMio, KilledMio
  DEF MioNext
<1> QED BY <1>1, <1>2

(* However many programs share an input directory and however they are     *)
(* interleaved and killed: a file has one owner, which holds its lock and  *)
(* finds it in the input; it is moved on once and is then at its           *)
(* destination, deleted as configured or known to be lost; an output that  *)
(* is still locked is being written, or its program was killed or failed   *)
(* to close it (mio_source_next_file_queue, mio_source_close_file,         *)
(* mio_sink_open_file, mio_sink_close_file).                               *)
THEOREM SourcesOwned == MioSpec => []SourceOwned
<1>1. MioInv => SourceOwned
  BY DEF MioInv, MioOwners, MioDone, MioOutputs, Owner, Placed, Holds, SourceOwned
<1> QED BY <1>1, MioInvInit, MioInvNext, PTL DEF MioSpec

----------------------------------------------------------------------------
(***************************************************************************)
(* airdaemon                                                               *)
(***************************************************************************)
(* A set of numbers has a least one: what is true of zero and of the       *)
(* successor of each number it is true of is true of all.                  *)
LEMMA LessThanRelation ==
  \E R : IsWellFoundedOn(R, Nat) /\ \A x, y \in Nat : <<y, x>> \in R <=> y < x
<1>1. \A x, y \in Nat : <<y, x>> \in OpToRel(<, Nat) <=> y < x
  BY Zenon DEF OpToRel
<1> QED BY <1>1, NatLessThanWellFounded, Zenon

LEMMA LeastNumber ==
  ASSUME NEW S \in SUBSET Nat, S # {}
  PROVE  \E x \in S : \A y \in S : x <= y
<1>1. PICK R : IsWellFoundedOn(R, Nat) /\ \A x, y \in Nat : <<y, x>> \in R <=> y < x
  BY LessThanRelation
<1>2. \E x \in S : \A y \in S : ~(<<y, x>> \in R)
  BY <1>1, WFMin, Zenon
<1>3. PICK x \in S : \A y \in S : ~(<<y, x>> \in R)
  BY <1>2
<1>4. \A y \in S : ~(y < x)
  BY <1>1, <1>3
<1> QED BY <1>3, <1>4

(* The recursive function Doubled exists: each of its beginnings does, and *)
(* they agree.                                                             *)
Beginning(m, g) == /\ g \in [0..m -> Nat] /\ g[0] = 1
                   /\ \A i \in 1..m : g[i] = 2 * g[i - 1]

LEMMA BeginningsExist == \A m \in Nat : \E g : Beginning(m, g)
<1> DEFINE S == {m \in Nat : ~\E g : Beginning(m, g)}
<1> SUFFICES S = {}
  OBVIOUS
<1>1. SUFFICES ASSUME S # {}
               PROVE  FALSE
  OBVIOUS
<1>2. PICK m \in S : \A k \in S : m <= k
  BY <1>1, LeastNumber
<1>3. CASE m = 0
  <2> DEFINE g == [i \in 0..0 |-> 1]
  <2>1. Beginning(0, g)
    BY DEF Beginning
  <2> QED BY <2>1, <1>3, <1>2
<1>4. CASE m # 0
  <2>1. m - 1 \in Nat /\ m - 1 \notin S
    BY <1>2, <1>4
  <2>2. PICK g : Beginning(m - 1, g)
    BY <2>1
  <2> DEFINE h == [i \in 0..m |-> IF i = m THEN 2 * g[m - 1] ELSE g[i]]
  <2>3. Beginning(m, h)
    <3>1. m \in Nat /\ h \in [0..m -> Nat] /\ h[0] = 1 /\ h[m] = 2 * h[m - 1]
      BY <2>1, <2>2, <1>2, <1>4 DEF Beginning
    <3>2. ASSUME NEW i \in 1..m - 1
          PROVE  h[i] = 2 * h[i - 1]
      BY <2>1, <2>2, <1>2, <1>4 DEF Beginning
    <3>3. \A i \in 1..m : h[i] = 2 * h[i - 1]
      <4> HIDE DEF h
      <4>1. \A i \in 1..m : i = m \/ i \in 1..m - 1
        BY <3>1
      <4> QED BY <3>1, <3>2, <4>1
    <3> QED BY <3>1, <3>3 DEF Beginning
  <2> QED BY <2>3, <1>2
<1> QED BY <1>3, <1>4

LEMMA BeginningsAgree ==
  ASSUME NEW m \in Nat, NEW k \in Nat, m <= k, NEW g, NEW h, Beginning(m, g), Beginning(k, h)
  PROVE  \A i \in 0..m : g[i] = h[i]
<1> DEFINE S == {i \in 0..m : g[i] # h[i]}
<1>1. SUFFICES ASSUME S # {}
               PROVE  FALSE
  OBVIOUS
<1>2. PICK i \in S : \A j \in S : i <= j
  <2>1. S \in SUBSET Nat
    OBVIOUS
  <2> QED BY <1>1, <2>1, LeastNumber
<1>3. i # 0
  BY <1>2 DEF Beginning
<1>4. i - 1 \in 0..m /\ i \in 1..m /\ i \in 1..k /\ i - 1 \notin S
  BY <1>2, <1>3
<1>5. g[i] = 2 * g[i - 1] /\ h[i] = 2 * h[i - 1]
  BY <1>4 DEF Beginning
<1> QED BY <1>2, <1>4, <1>5

LEMMA DoubledValues ==
  /\ Doubled \in [Nat -> Nat \ {0}] /\ Doubled[0] = 1
  /\ \A k \in Nat : Doubled[k + 1] = 2 * Doubled[k]
<1> DEFINE B(m) == CHOOSE g : Beginning(m, g)
           d == [k \in Nat |-> B(k)[k]]
           F(f) == [k \in Nat |-> IF k = 0 THEN 1 ELSE 2 * f[k - 1]]
<1>1. \A m \in Nat : Beginning(m, B(m))
  BY BeginningsExist
<1> HIDE DEF B
<1>2. d \in [Nat -> Nat] /\ d[0] = 1
  BY <1>1 DEF Beginning
<1>3. \A k \in Nat : d[k + 1] = 2 * d[k]
  <2> TAKE k \in Nat
  <2>1. B(k + 1)[k + 1] = 2 * B(k + 1)[k]
    BY <1>1 DEF Beginning
  <2>2. B(k)[k] = B(k + 1)[k]
    BY <1>1, BeginningsAgree
  <2> QED BY <2>1, <2>2
<1>4. d = F(d)
  <2>1. \A k \in Nat : d[k] = F(d)[k]
    <3> TAKE k \in Nat
    <3>1. CASE k = 0
      BY <3>1, <1>2
    <3>2. CASE k # 0
      BY <3>2, <1>3
    <3> QED BY <3>1, <3>2
  <2> QED BY <2>1
<1>5. Doubled = F(Doubled)
  <2>1. Doubled = CHOOSE f : f = F(f)
    BY DEF Doubled
  <2> HIDE DEF d, F
  <2> QED BY <2>1, <1>4
<1>6. Doubled[0] = 1 /\ \A k \in Nat : Doubled[k + 1] = 2 * Doubled[k]
  BY <1>5
<1>7. Doubled \in [Nat -> Nat \ {0}]
  <2> DEFINE S == {k \in Nat : Doubled[k] \notin Nat \ {0}}
  <2>1. SUFFICES S = {}
    BY <1>5
  <2>2. SUFFICES ASSUME S # {}
                 PROVE  FALSE
    OBVIOUS
  <2>3. PICK k \in S : \A j \in S : k <= j
    BY <2>2, LeastNumber
  <2>4. k # 0
    BY <2>3, <1>6
  <2>5. k - 1 \in Nat /\ Doubled[k - 1] \in Nat \ {0} /\ Doubled[k] = 2 * Doubled[k - 1]
    BY <2>3, <2>4, <1>5, SMTT(30)
  <2> QED BY <2>3, <2>5
<1> QED BY <1>6, <1>7

(* The backoff after n restarted children in a row that failed early.      *)
Trunc(n) == IF retry.max = 0 THEN retry.min
            ELSE IF retry.min * Doubled[n] <= retry.max THEN retry.min * Doubled[n] ELSE retry.max

(* Where the delay stands: while the program runs it is already the next   *)
(* one, and when it has failed it is the one to sleep unless it is reset.  *)
DaemonInv ==
  /\ retry \in [min : Nat, max : Nat] /\ delay \in Nat /\ elapsed \in Nat
  /\ adlog \in [slept : Nat, early : Nat]
  /\ adstate \in {"refused", "start", "child", "aborted", "unwatched", "failed", "done"}
  /\ adstate # "refused" /\ retry.max # 0 => retry.min <= retry.max
  /\ adstate \in {"start", "child"} =>
       IF adlog.slept = 0 THEN delay = retry.min
       ELSE adlog.slept = Trunc(adlog.early) /\ delay = Trunc(adlog.early + 1)
  /\ adstate = "failed" =>
       /\ elapsed >= retry.min => adlog.early = 0
       /\ elapsed < retry.min \/ retry.max = 0 => delay = Trunc(adlog.early)

LEMMA TruncValues ==
  ASSUME retry \in [min : Nat, max : Nat], retry.max # 0 => retry.min <= retry.max
  PROVE  /\ Trunc(0) = retry.min
         /\ \A k \in Nat :
              /\ Trunc(k) \in Nat /\ (Trunc(k) = 0 => retry.min = 0)
              /\ Trunc(k + 1) = IF retry.max = 0 THEN Trunc(k)
                                ELSE IF 2 * Trunc(k) <= retry.max THEN 2 * Trunc(k) ELSE retry.max
<1>1. Trunc(0) = retry.min
  BY DoubledValues DEF Trunc
<1>2. ASSUME NEW k \in Nat
      PROVE  /\ Trunc(k) \in Nat /\ (Trunc(k) = 0 => retry.min = 0)
             /\ Trunc(k + 1) = IF retry.max = 0 THEN Trunc(k)
                               ELSE IF 2 * Trunc(k) <= retry.max THEN 2 * Trunc(k) ELSE retry.max
  <2> DEFINE full == retry.min * Doubled[k]
  <2>1. full \in Nat /\ (full = 0 => retry.min = 0) /\ retry.min * Doubled[k + 1] = 2 * full
    <3>1. Doubled[k] \in Nat \ {0} /\ Doubled[k + 1] = 2 * Doubled[k] /\ retry.min \in Nat
      BY DoubledValues
    <3>2. \A a, b \in Nat : a * b \in Nat /\ a * (2 * b) = 2 * (a * b)
      OBVIOUS
    <3>3. \A a \in Nat, b \in Nat \ {0} : a * b = 0 => a = 0
      OBVIOUS
    <3> QED BY <3>1, <3>2, <3>3
  <2> HIDE DEF full
  <2>2. Trunc(k) = IF retry.max = 0 THEN retry.min
                   ELSE IF full <= retry.max THEN full ELSE retry.max
    BY DEF Trunc, full
  <2>3. Trunc(k + 1) = IF retry.max = 0 THEN retry.min
                       ELSE IF 2 * full <= retry.max THEN 2 * full ELSE retry.max
    BY <2>1 DEF Trunc
  <2> QED BY <2>1, <2>2, <2>3
<1> QED BY <1>1, <1>2

LEMMA DaemonInvInit == AirDaemonInit => DaemonInv
<1> SUFFICES ASSUME AirDaemonInit
             PROVE  DaemonInv
  OBVIOUS
<1>1. retry \in [min : Nat, max : Nat]
  BY AirDaemonAssumption DEF AirDaemonInit
<1> QED BY <1>1 DEF AirDaemonInit, DaemonInv

LEMMA DaemonInvNext == DaemonInv /\ [AirDaemonNext]_daemonVars => DaemonInv'
<1> SUFFICES ASSUME DaemonInv, [AirDaemonNext]_daemonVars
             PROVE  DaemonInv'
  OBVIOUS
<1>1. CASE UNCHANGED daemonVars
  BY <1>1 DEF daemonVars, DaemonInv, Trunc
<1>2. CASE SpawnChild
  BY <1>2 DEF SpawnChild, DaemonInv, Trunc
<1>3. CASE Sleep
  <2> DEFINE now == IF retry.max # 0 /\ elapsed >= retry.min THEN retry.min ELSE delay
             n == adlog.early
  <2>1. /\ adstate = "failed" /\ adstate' = "start" /\ UNCHANGED <<retry, elapsed>>
        /\ adlog' = [adlog EXCEPT !.slept = now]
        /\ delay' = IF retry.max = 0 THEN now
                    ELSE IF 2 * now <= retry.max THEN 2 * now ELSE retry.max
    BY <1>3 DEF Sleep
  <2>2. /\ retry \in [min : Nat, max : Nat] /\ (retry.max # 0 => retry.min <= retry.max)
        /\ n \in Nat /\ elapsed \in Nat
    BY <2>1 DEF DaemonInv
  <2>3. /\ Trunc(0) = retry.min /\ Trunc(n) \in Nat /\ (Trunc(n) = 0 => retry.min = 0)
        /\ Trunc(n + 1) = IF retry.max = 0 THEN Trunc(n)
                          ELSE IF 2 * Trunc(n) <= retry.max THEN 2 * Trunc(n) ELSE retry.max
    BY <2>2, TruncValues
  <2>4. now = Trunc(n)
    BY <2>1, <2>2, <2>3 DEF DaemonInv
  <2>5. adlog' = [slept |-> Trunc(n), early |-> n] /\ delay' = Trunc(n + 1) /\ delay' \in Nat
    BY <2>1, <2>2, <2>3, <2>4 DEF DaemonInv
  <2>6. Trunc(n)' = Trunc(n) /\ Trunc(n + 1)' = Trunc(n + 1)
    BY <2>1, <2>5 DEF Trunc
  <2>7. adlog'.slept = Trunc(n) /\ adlog'.early = n
    BY <2>5
  <2>8. Trunc(adlog.early)' = Trunc(n) /\ Trunc(adlog.early + 1)' = Trunc(n + 1)
    BY <2>1, <2>7 DEF Trunc
  <2> QED BY <2>1, <2>2, <2>3, <2>5, <2>7, <2>8 DEF DaemonInv
<1>4. ASSUME NEW uptime \in 0..MaxUptime, NEW success \in BOOLEAN, ChildExits(uptime, success)
      PROVE  DaemonInv'
  <2>1. /\ adstate = "child" /\ adstate' \in {"done", "failed"} /\ elapsed' = uptime
        /\ adlog' = [adlog EXCEPT !.early = IF uptime >= retry.min \/ adlog.slept = 0
                                            THEN 0 ELSE @ + 1]
        /\ UNCHANGED <<retry, delay>> /\ uptime \in Nat
    BY <1>4, AirDaemonAssumption DEF ChildExits
  <2>2. /\ retry \in [min : Nat, max : Nat] /\ (retry.max # 0 => retry.min <= retry.max)
        /\ adlog \in [slept : Nat, early : Nat]
    BY <2>1 DEF DaemonInv
  <2>3. Trunc(0) = retry.min
    BY <2>2, TruncValues
  <2>4. CASE uptime >= retry.min \/ adlog.slept = 0
    <3>1. adlog' = [slept |-> adlog.slept, early |-> 0] /\ adlog'.early = 0
      BY <2>1, <2>2, <2>4
    <3>2. Trunc(adlog.early)' = Trunc(0)
      BY <2>1, <3>1 DEF Trunc
    <3>3. retry.max = 0 => delay = retry.min
      BY <2>1 DEF DaemonInv, Trunc
    <3> QED BY <2>1, <2>2, <2>3, <2>4, <3>1, <3>2, <3>3 DEF DaemonInv
  <2>5. CASE ~(uptime >= retry.min \/ adlog.slept = 0)
    <3>1. /\ adlog' = [slept |-> adlog.slept, early |-> adlog.early + 1]
          /\ adlog'.early = adlog.early + 1
      BY <2>1, <2>2, <2>5
    <3>2. Trunc(adlog.early)' = Trunc(adlog.early + 1)
      BY <2>1, <3>1 DEF Trunc
    <3> QED BY <2>1, <2>2, <2>5, <3>1, <3>2 DEF DaemonInv
  <2> QED BY <2>4, <2>5
<1> QED BY <1>1, <1>2, <1>3, <1>4 DEF AirDaemonNext

(* Whatever the retry delay and its maximum, the delay slept before a      *)
(* restart is the truncated exponential backoff that airdaemon.pod         *)
(* promises, computed by doubling or resetting at each failure (the end of *)
(* the loop of airdaemon's main).                                          *)
THEOREM BackoffIsTruncated == AirDaemonSpec => []BackoffTruncated
<1>1. DaemonInv => BackoffTruncated
  BY DEF DaemonInv, BackoffTruncated, Trunc
<1> QED BY <1>1, DaemonInvInit, DaemonInvNext, PTL DEF AirDaemonSpec

----------------------------------------------------------------------------
(***************************************************************************)
(* filedaemon                                                              *)
(***************************************************************************)
Blocks == FFiles \X Nat

FdKid ==
  [file : FFiles, got : Seq(Blocks), feed : {"open", "end"}, wrote : Nat, pipe : Nat,
   saved : Nat, out : {"open", "closed", "end"}, exit : {"running", "success", "failure"},
   watch : BOOLEAN]

FdType ==
  /\ fdstate \in {"glob", "files", "loop", "after"}
  /\ todo \in Seq(FFiles) /\ fdlocks \in SUBSET FFiles
  /\ place \in [FFiles -> SUBSET {"in", "next", "fail"}]
  /\ kids \in Seq(FdKid) /\ infile \in Seq(Blocks)
  /\ fdlog \in [early : BOOLEAN, lost : SUBSET FFiles]
  /\ fdstate \in {"loop", "after"} => K > 0

(* What a child writes is in the pipe or saved, and nothing is in the pipe *)
(* when its end was read.                                                  *)
FdOutput ==
  /\ \A k \in 1..K : /\ kids[k].saved + kids[k].pipe = kids[k].wrote
                     /\ kids[k].out = "end" => kids[k].pipe = 0
  /\ fdstate = "after" => kids[K].out = "end"

(* As long as each child has read its input to the end, at most the        *)
(* present one is still being fed, so that the shared file is its own.     *)
FdInput ==
  ~fdlog.early =>
    /\ \A k \in 1..K : kids[k].feed = "open" => fdstate = "loop" /\ k = K
    /\ \A k \in 1..K : kids[k].exit = "running" =>
         IF kids[k].feed = "end" THEN kids[k].got = Content(kids[k].file)
         ELSE kids[k].got \o infile = Content(kids[k].file)

(* A file is moved at most once, by the exit of a child that was given it. *)
Exited(f, e) == \E k \in 1..K : kids[k].file = f /\ ~kids[k].watch /\ kids[k].exit = e

FdPlaces ==
  /\ \A k \in 1..K : ~kids[k].watch => kids[k].exit # "running"
  /\ \A f \in FFiles :
       IF "in" \in place[f] THEN place[f] = {"in"}
       ELSE /\ Exited(f, "success") \/ Exited(f, "failure")
            /\ "next" \in place[f] => Exited(f, "success")
            /\ "fail" \in place[f] => Exited(f, "failure")
            /\ place[f] = {} => f \in fdlog.lost \/ Deletes # {}

FdInv == FdType /\ FdOutput /\ FdInput /\ FdPlaces

LEMMA FdInvInit == FileDaemonInit => FdInv
<1> SUFFICES ASSUME FileDaemonInit
             PROVE  FdInv
  OBVIOUS
<1>1. K = 0 /\ kids \in Seq(FdKid) /\ todo \in Seq(FFiles) /\ infile \in Seq(Blocks)
  BY DEF FileDaemonInit, K
<1>2. FdType
  BY <1>1 DEF FileDaemonInit, FdType
<1>3. FdOutput /\ FdInput
  BY <1>1 DEF FdOutput, FdInput, FileDaemonInit
<1>4. FdPlaces
  BY <1>1 DEF FdPlaces, FileDaemonInit
<1> QED BY <1>2, <1>3, <1>4 DEF FdInv

LEMMA GlobFd ==
  ASSUME FdInv, Glob
  PROVE  FdInv'
<1> DEFINE S == {f \in FFiles : "in" \in place[f]}
<1>1. S \in SUBSET FFiles /\ Cardinality(S) \in Nat
  BY FileDaemonAssumption, FS_Subset, FS_CardinalityType
<1>2. todo' \in [1..Cardinality(S) -> S]
  BY DEF Glob, SetToSeqs
<1>3. todo' \in Seq(FFiles)
  <2> HIDE DEF S
  <2> QED BY <1>1, <1>2
<1> QED BY <1>3 DEF Glob, FdInv, FdType, FdOutput, FdInput, FdPlaces, Exited, K

LEMMA ContentType ==
  ASSUME NEW f \in FFiles
  PROVE  Content(f) \in Seq(Blocks)
<1>1. Length[f] \in Nat /\ Content(f) \in [1..Length[f] -> Blocks]
  BY FileDaemonAssumption DEF Content, Blocks
<1> QED BY <1>1

LEMMA NextFileFd ==
  ASSUME FdInv, NextFile
  PROVE  FdInv'
<1> USE DEF FdInv
<1>1. CASE todo = <<>>
  BY <1>1 DEF NextFile, FdType, FdOutput, FdInput, FdPlaces, Exited, K
<1>2. CASE todo # <<>> /\ ("in" \notin place[Head(todo)] \/ Head(todo) \in fdlocks)
  <2>1. Tail(todo) \in Seq(FFiles)
    BY <1>2 DEF FdType
  <2>2. todo' = Tail(todo) /\ UNCHANGED <<fdstate, fdlocks, kids, infile, place, fdlog>>
    BY <1>2 DEF NextFile
  <2> QED BY <2>1, <2>2 DEF FdType, FdOutput, FdInput, FdPlaces, Exited, K
<1>3. CASE todo # <<>> /\ ~("in" \notin place[Head(todo)] \/ Head(todo) \in fdlocks)
  <2> DEFINE f == Head(todo)
             new == [file |-> f, got |-> <<>>, feed |-> "open", wrote |-> 0, pipe |-> 0,
                     saved |-> 0, out |-> "open", exit |-> "running", watch |-> TRUE]
  <2>1. Tail(todo) \in Seq(FFiles) /\ f \in FFiles
    BY <1>3 DEF FdType
  <2>2. /\ fdstate = "files" /\ fdstate' = "loop" /\ UNCHANGED <<place, fdlog>>
        /\ todo' = Tail(todo) /\ kids' = Append(kids, new) /\ infile' = Content(f)
        /\ fdlocks' = fdlocks \cup {f}
    BY <1>3 DEF NextFile, fd_lock_file
  <2>3. new \in FdKid
    <3>1. <<>> \in Seq(Blocks) /\ TRUE \in BOOLEAN
      OBVIOUS
    <3> QED BY <2>1, <3>1 DEF FdKid
  <2>4. Content(f) \in Seq(Blocks) /\ <<>> \o Content(f) = Content(f)
    BY <2>1, ContentType
  <2>5. /\ new.file = f /\ new.got = <<>> /\ new.feed = "open" /\ new.wrote = 0 /\ new.pipe = 0
        /\ new.saved = 0 /\ new.out = "open" /\ new.watch
    OBVIOUS
  <2> HIDE DEF new, f
  <2>6. /\ kids' \in Seq(FdKid) /\ K \in Nat /\ K' = K + 1 /\ kids'[K + 1] = new
        /\ \A k \in 1..K : kids'[k] = kids[k]
    BY <2>2, <2>3 DEF FdType, K
  <2>7. FdType'
    BY <2>1, <2>2, <2>4, <2>6 DEF FdType
  <2>8. FdOutput'
    <3>1. \A k \in 1..K' : k = K + 1 \/ k \in 1..K
      BY <2>6
    <3>2. fdstate' # "after"
      BY <2>2
    <3> QED BY <2>5, <2>6, <3>1, <3>2 DEF FdOutput
  <2>9. FdInput'
    <3>1. ASSUME ~fdlog.early', NEW k \in 1..K'
          PROVE  /\ kids'[k].feed = "open" => k = K'
                 /\ kids'[k].exit = "running" =>
                      IF kids'[k].feed = "end" THEN kids'[k].got = Content(kids'[k].file)
                      ELSE kids'[k].got \o infile' = Content(kids'[k].file)
      <4>1. CASE k = K'
        BY <4>1, <2>2, <2>4, <2>5, <2>6
      <4>2. CASE k \in 1..K
        <5>1. kids[k].feed # "open" /\ kids[k].feed = "end"
          <6>1. kids[k] \in FdKid
            BY <4>2 DEF FdType, K
          <6>2. kids[k].feed \in {"open", "end"}
            BY <6>1 DEF FdKid
          <6> QED BY <4>2, <2>2, <3>1, <6>2 DEF FdInput
        <5> QED BY <4>2, <5>1, <2>2, <2>6, <3>1 DEF FdInput
      <4> QED BY <4>1, <4>2, <2>6
    <3> QED BY <3>1, <2>2 DEF FdInput, Content
  <2>10. FdPlaces'
    <3>1. \A g \in FFiles : \A e \in {"success", "failure"} : Exited(g, e) => Exited(g, e)'
      BY <2>6 DEF Exited
    <3>2. \A k \in 1..K' : ~kids'[k].watch => kids'[k].exit # "running"
      BY <2>5, <2>6 DEF FdPlaces
    <3> QED BY <3>1, <3>2, <2>2 DEF FdPlaces
  <2> QED BY <2>7, <2>8, <2>9, <2>10
<1> QED BY <1>1, <1>2, <1>3

(* A step of one child.                                                    *)
LEMMA KidStep ==
  ASSUME FdType, NEW k \in 1..K, NEW s \in FdKid, Kid(k, s)
  PROVE  /\ kids' \in Seq(FdKid) /\ K \in Nat /\ K' = K /\ kids'[k] = s
         /\ \A j \in 1..K : j # k => kids'[j] = kids[j]
BY DEF FdType, Kid, K

(* One that changes neither the input nor the places.                      *)
LEMMA QuietKid ==
  ASSUME FdInv, NEW k \in 1..K, NEW s \in FdKid, Kid(k, s),
         UNCHANGED <<place, infile, fdlocks, todo>>, fdlog' \in [early : BOOLEAN, lost : SUBSET FFiles],
         fdlog'.lost = fdlog.lost, fdlog.early => fdlog'.early,
         s.file = kids[k].file, s.watch = kids[k].watch, s.got = kids[k].got,
         s.feed = kids[k].feed, s.exit # "running" \/ kids[k].exit = "running",
         kids[k].exit # "running" => s.exit = kids[k].exit,
         s.saved + s.pipe = s.wrote, s.out = "end" => s.pipe = 0,
         \/ fdstate' = fdstate /\ (kids[k].out = "end" => s.out = "end")
         \/ fdstate' = "after" /\ k = K /\ s.out = "end" /\ (s.feed = "open" => fdlog'.early)
              /\ fdstate = "loop"
  PROVE  FdInv'
<1> USE DEF FdInv
<1>1. /\ kids' \in Seq(FdKid) /\ K \in Nat /\ K' = K /\ kids'[k] = s
      /\ \A j \in 1..K : j # k => kids'[j] = kids[j]
  BY KidStep
<1>2. FdType'
  BY <1>1 DEF FdType
<1>3. FdOutput'
  BY <1>1 DEF FdOutput
<1>4. FdInput'
  <2> SUFFICES ASSUME ~fdlog'.early, NEW j \in 1..K'
               PROVE  /\ kids'[j].feed = "open" => fdstate' = "loop" /\ j = K'
                      /\ kids'[j].exit = "running" =>
                           IF kids'[j].feed = "end" THEN kids'[j].got = Content(kids'[j].file)
                           ELSE kids'[j].got \o infile' = Content(kids'[j].file)
    BY DEF FdInput, Content
  <2>1. /\ kids[j].feed = "open" => fdstate = "loop" /\ j = K
        /\ kids[j].exit = "running" =>
             IF kids[j].feed = "end" THEN kids[j].got = Content(kids[j].file)
             ELSE kids[j].got \o infile = Content(kids[j].file)
    BY <1>1 DEF FdInput
  <2>2. /\ kids'[j].feed = kids[j].feed /\ kids'[j].got = kids[j].got
        /\ kids'[j].file = kids[j].file
        /\ kids'[j].exit = "running" => kids[j].exit = "running"
    BY <1>1
  <2>3. kids[j].feed = "open" => fdstate' = fdstate
    BY <1>1, <2>1
  <2> QED BY <1>1, <2>1, <2>2, <2>3
<1>5. FdPlaces'
  <2>1. \A j \in 1..K' : ~kids'[j].watch => kids'[j].exit # "running"
    BY <1>1 DEF FdPlaces
  <2>2. \A g \in FFiles : \A e \in {"success", "failure"} : Exited(g, e) => Exited(g, e)'
    <3> SUFFICES ASSUME NEW g \in FFiles, NEW e \in {"success", "failure"}, Exited(g, e)
                 PROVE  Exited(g, e)'
      OBVIOUS
    <3>1. PICK j \in 1..K : kids[j].file = g /\ ~kids[j].watch /\ kids[j].exit = e
      BY DEF Exited
    <3>2. kids'[j].file = g /\ ~kids'[j].watch /\ kids'[j].exit = e
      BY <1>1, <3>1
    <3> QED BY <1>1, <3>2 DEF Exited
  <2> QED BY <2>1, <2>2 DEF FdPlaces
<1> QED BY <1>2, <1>3, <1>4, <1>5

LEMMA ReadFd ==
  ASSUME FdInv, K > 0, read_from_child
  PROVE  FdInv'
<1> USE DEF FdInv
<1> DEFINE kid == kids[K]
<1>1. K \in 1..K /\ kid \in FdKid
  BY DEF FdType, K
<1>2. fdstate = "loop" /\ UNCHANGED <<todo, place, fdlocks, infile>>
  BY DEF read_from_child
<1>3. kid.saved + kid.pipe = kid.wrote /\ (kid.out = "end" => kid.pipe = 0)
  BY <1>1 DEF FdOutput
<1>4. CASE /\ kid.pipe > 0 /\ Kid(K, [kid EXCEPT !.pipe = @ - 1, !.saved = @ + 1])
           /\ UNCHANGED <<fdstate, fdlog>>
  <2> DEFINE s == [kid EXCEPT !.pipe = @ - 1, !.saved = @ + 1]
  <2>1. s \in FdKid
    <3>1. kid.pipe - 1 \in Nat /\ kid.saved + 1 \in Nat
      BY <1>1, <1>4 DEF FdKid
    <3> QED BY <1>1, <3>1 DEF FdKid
  <2>2. /\ s.file = kid.file /\ s.watch = kid.watch /\ s.got = kid.got /\ s.feed = kid.feed
        /\ s.exit = kid.exit /\ s.out = kid.out /\ s.saved + s.pipe = s.wrote
        /\ kid.out # "end"
    BY <1>1, <1>3, <1>4 DEF FdKid
  <2>3. Kid(K, s)
    BY <1>4
  <2> HIDE DEF s
  <2>4. fdlog' \in [early : BOOLEAN, lost : SUBSET FFiles] /\ fdlog' = fdlog
    BY <1>4 DEF FdType
  <2> QED BY <1>1, <1>2, <1>4, <2>1, <2>2, <2>3, <2>4, QuietKid
<1>5. CASE /\ kid.pipe = 0 /\ kid.out = "closed" /\ Kid(K, [kid EXCEPT !.out = "end"])
           /\ fdstate' = "after" /\ fdlog' = [fdlog EXCEPT !.early = @ \/ kid.feed = "open"]
  <2> DEFINE s == [kid EXCEPT !.out = "end"]
  <2>1. s \in FdKid
    BY <1>1, <1>5 DEF FdKid
  <2>2. /\ s.file = kid.file /\ s.watch = kid.watch /\ s.got = kid.got /\ s.feed = kid.feed
        /\ s.exit = kid.exit /\ s.out = "end" /\ s.saved + s.pipe = s.wrote /\ s.pipe = 0
    BY <1>1, <1>3, <1>5 DEF FdKid
  <2>3. Kid(K, s)
    BY <1>5
  <2> HIDE DEF s
  <2>4. /\ fdlog' \in [early : BOOLEAN, lost : SUBSET FFiles] /\ fdlog'.lost = fdlog.lost
        /\ (fdlog.early => fdlog'.early) /\ (kid.feed = "open" => fdlog'.early)
    <3>1. (fdlog.early \/ kid.feed = "open") \in BOOLEAN
      OBVIOUS
    <3> QED BY <1>5, <3>1 DEF FdType
  <2> QED BY <1>1, <1>2, <1>5, <2>1, <2>2, <2>3, <2>4, QuietKid
<1> QED BY <1>4, <1>5 DEF read_from_child

LEMMA ChildRunsFd ==
  ASSUME FdInv, NEW k \in 1..K, ChildRuns(k)
  PROVE  FdInv'
<1> USE DEF FdInv
<1> DEFINE kid == kids[k]
<1>1. kid \in FdKid
  BY DEF FdType, K
<1>2. kid.exit = "running" /\ UNCHANGED <<fdstate, todo, place, fdlocks, infile, fdlog>>
  BY DEF ChildRuns
<1>3. kid.saved + kid.pipe = kid.wrote /\ (kid.out = "end" => kid.pipe = 0)
  BY DEF FdOutput
<1>4. fdlog' \in [early : BOOLEAN, lost : SUBSET FFiles] /\ fdlog' = fdlog
  BY <1>2 DEF FdType
<1>5. CASE kid.out = "open" /\ Kid(k, [kid EXCEPT !.wrote = @ + 1, !.pipe = @ + 1])
  <2> DEFINE s == [kid EXCEPT !.wrote = @ + 1, !.pipe = @ + 1]
  <2>1. s \in FdKid
    <3>1. kid.wrote + 1 \in Nat /\ kid.pipe + 1 \in Nat
      BY <1>1 DEF FdKid
    <3> QED BY <1>1, <3>1 DEF FdKid
  <2>2. /\ s.file = kid.file /\ s.watch = kid.watch /\ s.got = kid.got /\ s.feed = kid.feed
        /\ s.exit = kid.exit /\ s.out = kid.out /\ s.saved + s.pipe = s.wrote
    BY <1>1, <1>3 DEF FdKid
  <2>3. Kid(k, s)
    BY <1>5
  <2> HIDE DEF s
  <2> QED BY <1>1, <1>2, <1>4, <1>5, <2>1, <2>2, <2>3, QuietKid
<1>6. CASE kid.out = "open" /\ Kid(k, [kid EXCEPT !.out = "closed"])
  <2> DEFINE s == [kid EXCEPT !.out = "closed"]
  <2>1. s \in FdKid
    BY <1>1 DEF FdKid
  <2>2. /\ s.file = kid.file /\ s.watch = kid.watch /\ s.got = kid.got /\ s.feed = kid.feed
        /\ s.exit = kid.exit /\ s.out = "closed" /\ s.saved + s.pipe = s.wrote
    BY <1>1, <1>3 DEF FdKid
  <2>3. Kid(k, s)
    BY <1>6
  <2> HIDE DEF s
  <2> QED BY <1>1, <1>2, <1>4, <1>6, <2>1, <2>2, <2>3, QuietKid
<1>7. ASSUME NEW e \in {"success", "failure"},
             Kid(k, [kid EXCEPT !.exit = e, !.out = IF @ = "open" THEN "closed" ELSE @])
      PROVE  FdInv'
  <2> DEFINE s == [kid EXCEPT !.exit = e, !.out = IF @ = "open" THEN "closed" ELSE @]
  <2>1. s \in FdKid
    BY <1>1 DEF FdKid
  <2>2. /\ s.file = kid.file /\ s.watch = kid.watch /\ s.got = kid.got /\ s.feed = kid.feed
        /\ s.exit = e /\ (s.out = "end" <=> kid.out = "end") /\ s.pipe = kid.pipe
        /\ s.saved + s.pipe = s.wrote
    BY <1>1, <1>3 DEF FdKid
  <2>3. Kid(k, s)
    BY <1>7
  <2> HIDE DEF s
  <2> QED BY <1>1, <1>2, <1>3, <1>4, <2>1, <2>2, <2>3, QuietKid
<1> QED BY <1>5, <1>6, <1>7 DEF ChildRuns

LEMMA UnlockFd ==
  ASSUME FdInv, fd_unlock_file
  PROVE  FdInv'
<1>1. /\ fdstate = "after" /\ fdstate' = "files" /\ UNCHANGED <<todo, place, kids, infile, fdlog>>
      /\ fdlocks' \in SUBSET FFiles
  BY DEF fd_unlock_file, FdInv, FdType
<1>2. FdType' /\ FdOutput'
  BY <1>1 DEF FdInv, FdType, FdOutput, K
<1>3. FdInput'
  BY <1>1 DEF FdInv, FdInput, K, Content
<1>4. FdPlaces'
  BY <1>1 DEF FdInv, FdPlaces, Exited, K
<1> QED BY <1>2, <1>3, <1>4 DEF FdInv

(* The head of one sequence moved to the end of another.                   *)
LEMMA MoveHead ==
  ASSUME NEW S, NEW s \in Seq(S), NEW t \in Seq(S), t # <<>>
  PROVE  /\ Append(s, Head(t)) \in Seq(S) /\ Tail(t) \in Seq(S)
         /\ Append(s, Head(t)) \o Tail(t) = s \o t
OBVIOUS

LEMMA WriteFd ==
  ASSUME FdInv, NEW k \in 1..K, write_to_child(k)
  PROVE  FdInv'
<1> USE DEF FdInv
<1> DEFINE kid == kids[k]
<1>1. kid \in FdKid
  BY DEF FdType, K
<1>2. fdstate = "loop" /\ kid.feed = "open" /\ UNCHANGED <<fdstate, todo, place, fdlocks, fdlog>>
  BY DEF write_to_child
<1>3. \E s \in FdKid :
        /\ Kid(k, s) /\ infile' \in Seq(Blocks)
        /\ s.file = kid.file /\ s.watch = kid.watch /\ s.exit = kid.exit /\ s.out = kid.out
        /\ s.wrote = kid.wrote /\ s.pipe = kid.pipe /\ s.saved = kid.saved
        /\ kid.exit = "running" => IF s.feed = "end" THEN s.got = kid.got \o infile
                                   ELSE s.got \o infile' = kid.got \o infile
  <2>1. CASE infile = <<>>
    <3> DEFINE s == [kid EXCEPT !.feed = "end"]
    <3>1. s \in FdKid
      BY <1>1 DEF FdKid
    <3>2. Kid(k, s) /\ infile' = infile
      BY <2>1 DEF write_to_child
    <3>3. kid.got \o infile = kid.got
      BY <1>1, <2>1 DEF FdKid
    <3>4. /\ s.file = kid.file /\ s.watch = kid.watch /\ s.exit = kid.exit /\ s.out = kid.out
          /\ s.wrote = kid.wrote /\ s.pipe = kid.pipe /\ s.saved = kid.saved
          /\ s.feed = "end" /\ s.got = kid.got
      BY <1>1 DEF FdKid
    <3> HIDE DEF s
    <3> QED BY <3>1, <3>2, <3>3, <3>4 DEF FdType
  <2>2. CASE infile # <<>> /\ kid.exit = "running"
    <3> DEFINE got == Append(kid.got, Head(infile))
               s == [kid EXCEPT !.got = got]
    <3>1. got \in Seq(Blocks) /\ Tail(infile) \in Seq(Blocks)
          /\ got \o Tail(infile) = kid.got \o infile
      <4>1. kid.got \in Seq(Blocks) /\ infile \in Seq(Blocks)
        BY <1>1 DEF FdType, FdKid
      <4>2. PICK a, b \in Seq(Blocks) : a = kid.got /\ b = infile
        BY <4>1
      <4>3. /\ Append(a, Head(b)) \in Seq(Blocks) /\ Tail(b) \in Seq(Blocks)
            /\ Append(a, Head(b)) \o Tail(b) = a \o b
        <5>1. b # <<>>
          BY <2>2, <4>2
        <5> QED BY <5>1, MoveHead
      <4> HIDE DEF kid
      <4> QED BY <4>2, <4>3, Zenon
    <3> HIDE DEF got
    <3>2. s \in FdKid
      BY <1>1, <3>1 DEF FdKid
    <3>3. Kid(k, s) /\ infile' = Tail(infile)
      BY <2>2 DEF write_to_child, got
    <3>4. /\ s.file = kid.file /\ s.watch = kid.watch /\ s.exit = kid.exit /\ s.out = kid.out
          /\ s.wrote = kid.wrote /\ s.pipe = kid.pipe /\ s.saved = kid.saved
          /\ s.feed = "open" /\ s.got = got
      BY <1>1, <1>2 DEF FdKid
    <3> HIDE DEF s
    <3> QED BY <3>1, <3>2, <3>3, <3>4
  <2>3. CASE infile # <<>> /\ kid.exit # "running"
    <3>1. [kid EXCEPT !.got = IF kid.exit = "running" THEN Append(@, Head(infile)) ELSE @] = kid
      BY <1>1, <2>3 DEF FdKid
    <3>2. Kid(k, kid) /\ infile' = Tail(infile) /\ Tail(infile) \in Seq(Blocks)
      BY <2>3, <3>1 DEF write_to_child, FdType
    <3> QED BY <1>1, <2>3, <3>2
  <2> QED BY <2>1, <2>2, <2>3
<1>4. PICK s \in FdKid :
        /\ Kid(k, s) /\ infile' \in Seq(Blocks)
        /\ s.file = kid.file /\ s.watch = kid.watch /\ s.exit = kid.exit /\ s.out = kid.out
        /\ s.wrote = kid.wrote /\ s.pipe = kid.pipe /\ s.saved = kid.saved
        /\ kid.exit = "running" => IF s.feed = "end" THEN s.got = kid.got \o infile
                                   ELSE s.got \o infile' = kid.got \o infile
  BY <1>3
<1>5. /\ kids' \in Seq(FdKid) /\ K \in Nat /\ K' = K /\ kids'[k] = s
      /\ \A j \in 1..K : j # k => kids'[j] = kids[j]
  BY <1>4, KidStep
<1>6. FdType'
  BY <1>2, <1>4, <1>5 DEF FdType
<1>7. FdOutput'
  BY <1>2, <1>4, <1>5 DEF FdOutput
<1>8. FdInput'
  <2> SUFFICES ASSUME ~fdlog'.early, NEW j \in 1..K'
               PROVE  /\ kids'[j].feed = "open" => fdstate' = "loop" /\ j = K'
                      /\ kids'[j].exit = "running" =>
                           IF kids'[j].feed = "end" THEN kids'[j].got = Content(kids'[j].file)
                           ELSE kids'[j].got \o infile' = Content(kids'[j].file)
    BY DEF FdInput, Content
  <2>1. ~fdlog.early
    BY <1>2
  <2>2. k = K /\ (kid.exit = "running" => kid.got \o infile = Content(kid.file))
    BY <1>2, <2>1 DEF FdInput
  <2>3. CASE j = k
    BY <1>2, <1>4, <1>5, <2>2, <2>3
  <2>4. CASE j # k
    <3>1. kids[j].feed # "open" /\ kids[j].feed = "end"
      <4>1. kids[j] \in FdKid
        BY <1>5 DEF FdType, K
      <4>2. kids[j].feed \in {"open", "end"}
        BY <4>1 DEF FdKid
      <4> QED BY <1>5, <2>1, <2>2, <2>4, <4>2 DEF FdInput
    <3> QED BY <1>5, <2>1, <2>4, <3>1 DEF FdInput
  <2> QED BY <2>3, <2>4
<1>9. FdPlaces'
  <2>1. \A j \in 1..K' : ~kids'[j].watch => kids'[j].exit # "running"
    BY <1>4, <1>5 DEF FdPlaces
  <2>2. \A g \in FFiles : \A e \in {"success", "failure"} : Exited(g, e) => Exited(g, e)'
    BY <1>4, <1>5 DEF Exited
  <2> QED BY <1>2, <2>1, <2>2 DEF FdPlaces
<1> QED BY <1>6, <1>7, <1>8, <1>9

LEMMA ExitFd ==
  ASSUME FdInv, NEW k \in 1..K, NEW linked \in BOOLEAN, on_child_exit(k, linked)
  PROVE  FdInv'
<1> USE DEF FdInv
<1> DEFINE kid == kids[k]  f == kid.file
           side == IF kid.exit = "success" THEN "next" ELSE "fail"
           s == [kid EXCEPT !.watch = FALSE]
<1>1. kid \in FdKid /\ f \in FFiles /\ kid.exit \in {"running", "success", "failure"}
  <2>1. kid \in FdKid
    BY DEF FdType, K
  <2> QED BY <2>1 DEF FdKid
<1>2. /\ fdstate = "loop" /\ kid.exit # "running" /\ Kid(k, s)
      /\ place' = [place EXCEPT ![f] = Moved(f, side, linked)]
      /\ fdlog' = [fdlog EXCEPT !.lost = IF linked THEN @ ELSE @ \cup {f}]
      /\ UNCHANGED <<fdstate, todo, fdlocks, infile>>
  BY DEF on_child_exit
<1>3. s \in FdKid
  BY <1>1 DEF FdKid
<1>4. /\ s.file = f /\ ~s.watch /\ s.exit = kid.exit /\ s.out = kid.out /\ s.got = kid.got
      /\ s.wrote = kid.wrote /\ s.pipe = kid.pipe /\ s.saved = kid.saved /\ s.feed = kid.feed
  BY <1>1 DEF FdKid
<1> HIDE DEF s
<1>5. /\ kids' \in Seq(FdKid) /\ K \in Nat /\ K' = K /\ kids'[k] = s
      /\ \A j \in 1..K : j # k => kids'[j] = kids[j]
  BY <1>2, <1>3, KidStep
<1>6. /\ fdlog' \in [early : BOOLEAN, lost : SUBSET FFiles] /\ fdlog'.early = fdlog.early
      /\ fdlog.lost \subseteq fdlog'.lost /\ (~linked => f \in fdlog'.lost)
  BY <1>1, <1>2 DEF FdType
<1>7. /\ place' \in [FFiles -> SUBSET {"in", "next", "fail"}]
      /\ place'[f] = Moved(f, side, linked) /\ \A g \in FFiles : g # f => place'[g] = place[g]
  <2>1. Moved(f, side, linked) \in SUBSET {"in", "next", "fail"}
    BY <1>1 DEF FdType, Moved
  <2> QED BY <1>1, <1>2, <2>1 DEF FdType
<1>8. FdType'
  BY <1>2, <1>5, <1>6, <1>7 DEF FdType
<1>9. FdOutput'
  BY <1>2, <1>4, <1>5 DEF FdOutput
<1>10. FdInput'
  <2> SUFFICES ASSUME ~fdlog'.early, NEW j \in 1..K'
               PROVE  /\ kids'[j].feed = "open" => fdstate' = "loop" /\ j = K'
                      /\ kids'[j].exit = "running" =>
                           IF kids'[j].feed = "end" THEN kids'[j].got = Content(kids'[j].file)
                           ELSE kids'[j].got \o infile' = Content(kids'[j].file)
    BY DEF FdInput, Content
  <2>1. /\ kids[j].feed = "open" => fdstate = "loop" /\ j = K
        /\ kids[j].exit = "running" =>
             IF kids[j].feed = "end" THEN kids[j].got = Content(kids[j].file)
             ELSE kids[j].got \o infile = Content(kids[j].file)
    BY <1>5, <1>6 DEF FdInput
  <2>2. /\ kids'[j].feed = kids[j].feed /\ kids'[j].got = kids[j].got
        /\ kids'[j].file = kids[j].file /\ kids'[j].exit = kids[j].exit
    BY <1>4, <1>5
  <2> QED BY <1>2, <1>5, <2>1, <2>2
<1>11. FdPlaces'
  <2>1. \A j \in 1..K' : ~kids'[j].watch => kids'[j].exit # "running"
    BY <1>2, <1>4, <1>5 DEF FdPlaces
  <2>2. \A g \in FFiles : \A e \in {"success", "failure"} : Exited(g, e) => Exited(g, e)'
    BY <1>4, <1>5 DEF Exited
  <2>3. \A g \in FFiles : \A e \in {"success", "failure"} : g = f /\ kid.exit = e => Exited(g, e)'
    BY <1>4, <1>5 DEF Exited
  <2>4. \A g \in FFiles :
          IF "in" \in place'[g] THEN place'[g] = {"in"}
          ELSE /\ Exited(g, "success")' \/ Exited(g, "failure")'
               /\ "next" \in place'[g] => Exited(g, "success")'
               /\ "fail" \in place'[g] => Exited(g, "failure")'
               /\ place'[g] = {} => g \in fdlog'.lost \/ Deletes # {}
    <3> TAKE g \in FFiles
    <3>1. CASE g # f \/ "in" \notin place[g]
      <4>1. place'[g] = place[g]
        BY <1>7, <3>1 DEF Moved
      <4> QED BY <4>1, <2>2, <1>6 DEF FdPlaces
    <3>2. CASE g = f /\ "in" \in place[g]
      <4>1. place[f] = {"in"}
        BY <1>1, <3>2 DEF FdPlaces
      <4>2. place'[f] = IF linked /\ side \notin Deletes THEN {side} ELSE {}
        BY <1>7, <4>1 DEF Moved
      <4>3. kid.exit = "success" \/ kid.exit = "failure"
        BY <1>1, <1>2
      <4>4. "in" \notin place'[f] /\ ("next" \in place'[f] => kid.exit = "success")
              /\ ("fail" \in place'[f] => kid.exit = "failure")
              /\ (place'[f] = {} => ~linked \/ Deletes # {})
        BY <4>2, <4>3
      <4> HIDE DEF f, kid
      <4>5. \A e \in {"success", "failure"} : kid.exit = e => Exited(g, e)'
        BY <3>2, <2>3
      <4>6. Exited(g, "success")' \/ Exited(g, "failure")'
        BY <4>3, <4>5
      <4>7. kid.exit = "success" => Exited(g, "success")'
        BY <4>5
      <4>8. kid.exit = "failure" => Exited(g, "failure")'
        BY <4>5
      <4> QED BY <3>2, <4>4, <4>6, <4>7, <4>8, <1>6
    <3> QED BY <3>1, <3>2
  <2> QED BY <2>1, <2>4 DEF FdPlaces
<1> QED BY <1>8, <1>9, <1>10, <1>11

LEMMA FdInvNext == FdInv /\ [FileDaemonNext]_fdVars => FdInv'
<1> SUFFICES ASSUME FdInv, [FileDaemonNext]_fdVars
             PROVE  FdInv'
  OBVIOUS
<1>1. CASE UNCHANGED fdVars
  <2>1. FdType' /\ FdOutput'
    BY <1>1 DEF fdVars, FdInv, FdType, FdOutput, K
  <2>2. FdInput'
    BY <1>1 DEF fdVars, FdInv, FdInput, Content, K
  <2>3. FdPlaces'
    BY <1>1 DEF fdVars, FdInv, FdPlaces, Exited, K
  <2> QED BY <2>1, <2>2, <2>3 DEF FdInv
<1>2. CASE FileDaemonNext
  BY <1>2, GlobFd, NextFileFd, UnlockFd, ReadFd, ChildRunsFd, WriteFd, ExitFd DEF FileDaemonNext
<1> QED BY <1>1, <1>2

(* For any files, children and order of callbacks: all that a child wrote  *)
(* before its output ended is saved, a child that runs was given its own   *)
(* file whole and in order as long as all before it read theirs to the     *)
(* end, and a file leaves the input only to the place for how a child it   *)
(* was given to exited (write_to_child, read_from_child, on_child_exit).   *)
THEOREM FilesProcessedWhole == FileDaemonSpec => []ProcessedWhole
<1>1. FdInv => ProcessedWhole
  <2> SUFFICES ASSUME FdInv
               PROVE  ProcessedWhole
    OBVIOUS
  <2> USE DEF FdInv
  <2>1. fdstate = "after" => kids[K].saved = kids[K].wrote /\ kids[K].out = "end"
    <3> SUFFICES ASSUME fdstate = "after"
                 PROVE  kids[K].saved = kids[K].wrote /\ kids[K].out = "end"
      OBVIOUS
    <3>1. K \in 1..K /\ kids[K] \in FdKid
      BY DEF FdType, K
    <3>2. kids[K].saved \in Nat /\ kids[K].wrote \in Nat
      BY <3>1 DEF FdKid
    <3> QED BY <3>1, <3>2 DEF FdOutput
  <2>2. ~fdlog.early => \A k \in 1..K :
          IF kids[k].feed = "end"
          THEN kids[k].exit = "running" => kids[k].got = Content(kids[k].file)
          ELSE kids[k].exit = "running" => kids[k].got \o infile = Content(kids[k].file)
    BY DEF FdInput
  <2>3. ASSUME NEW f \in FFiles, "in" \notin place[f]
        PROVE  LET exits == {kids[k].exit : k \in {j \in 1..K : kids[j].file = f /\ ~kids[j].watch}}
               IN  /\ exits # {}
                   /\ "next" \in place[f] => "success" \in exits
                   /\ "fail" \in place[f] => "failure" \in exits
                   /\ place[f] = {} => f \in fdlog.lost \/ Deletes # {}
    <3> DEFINE exits == {kids[k].exit : k \in {j \in 1..K : kids[j].file = f /\ ~kids[j].watch}}
    <3>1. \A e \in {"success", "failure"} : Exited(f, e) => e \in exits
      BY DEF Exited
    <3> HIDE DEF exits
    <3>2. /\ exits # {}
          /\ "next" \in place[f] => "success" \in exits
          /\ "fail" \in place[f] => "failure" \in exits
          /\ place[f] = {} => f \in fdlog.lost \/ Deletes # {}
      BY <2>3, <3>1 DEF FdPlaces
    <3> QED BY <3>2 DEF exits
  <2> QED BY <2>1, <2>2, <2>3 DEF ProcessedWhole
<1> QED BY <1>1, FdInvInit, FdInvNext, PTL DEF FileDaemonSpec

=============================================================================
