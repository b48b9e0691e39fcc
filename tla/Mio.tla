-------------------------------- MODULE Mio ---------------------------------
(***************************************************************************)
(* Multiple I/O of the airframe (src/airframe/src/mio.c, mio_source_file.c *)
(* and mio_sink_file.c): programs that take the files of one directory, in *)
(* glob mode and with lock files, process each into an output of its own   *)
(* and move it on.  System calls are the atomic steps, except that the     *)
(* files of a directory are listed at once and an output is opened or      *)
(* closed at once under its lock.                                          *)
(*                                                                         *)
(* The application, not part of these files, keeps to mio.h: whoever fails *)
(* says with the flags what is to be closed.  A program may be killed.     *)
(* Whoever can create a lock file next to a file can also unlink the file. *)
(***************************************************************************)
EXTENDS Integers, Sequences, FiniteSets, SequencesExt

CONSTANTS
  MFiles,      \* input files
  MProcs,      \* programs
  MConfigs,    \* [next, fail, daemon]; next and fail are "keep", "delete" or "dir"
  NOFILE

ASSUME MioAssumption == NOFILE \notin MFiles /\ IsFiniteSet(MFiles)

VARIABLES
  mcfg,    \* the configuration of every program
  disk,    \* files in the input, in the destinations, outputs, lock files
  prog,    \* the state of each program
  mlog     \* history: times a file was done, moves that failed
mioVars == <<mcfg, disk, prog, mlog>>

MioInit ==
  /\ mcfg \in MConfigs
  /\ disk = [in |-> MFiles, next |-> {}, fail |-> {}, out |-> {}, lock |-> {}, outlock |-> {}]
  /\ prog = [p \in MProcs |->
       [at |-> "dispatch", context |-> FALSE, queue |-> <<>>, name |-> NOFILE,
        opened |-> FALSE, active |-> FALSE, sink |-> FALSE, flags |-> {}]]
  /\ mlog = [done |-> [f \in MFiles |-> 0], lost |-> {}, unsure |-> {}]

(* A step of program p; it fails with some flags, or goes on.              *)
Becomes(p, s) == prog' = [prog EXCEPT ![p] = s]
GoesTo(p, at) == Becomes(p, [prog[p] EXCEPT !.at = at])
Fails(s, flags) == [s EXCEPT !.at = "afterproc", !.flags = @ \cup flags]

----------------------------------------------------------------------------
(* mio_source_file_entry_new: files locked at this time are left out.      *)
mio_source_file_entry_new == {f \in disk.in : f \notin disk.lock}

(* mio_source_next_file_glob: the queues it may leave; an empty one is     *)
(* filled with the files of the directory in any order.                    *)
mio_source_next_file_glob(queue) ==
  IF queue = <<>> THEN SetToSeqs(mio_source_file_entry_new) ELSE {queue}

(* mio_source_file_context: at the end of the queue only a daemon goes on. *)
mio_source_file_context(s) == ~s.context \/ mcfg.daemon \/ s.queue # <<>>

(* mio_dispatch begins: flags cleared, termination, the next source.       *)
mio_dispatch(p, quit) ==
  LET s == [prog[p] EXCEPT !.flags = {}]
  IN  /\ prog[p].at = "dispatch"
      /\ IF quit THEN Becomes(p, [s EXCEPT !.at = "afterproc", !.flags = {"TERMINATE"}])
         ELSE IF s.active THEN Becomes(p, [s EXCEPT !.at = "sink"])
         ELSE IF ~mio_source_file_context(s) THEN Becomes(p, Fails(s, {"TERMINATE"}))
         ELSE \E q \in mio_source_next_file_glob(s.queue) :
                Becomes(p, [s EXCEPT !.at = "queue", !.context = TRUE, !.queue = q])
      /\ UNCHANGED <<mcfg, disk, mlog>>

(* mio_source_next_file_queue: pop and lock, or pass on to the next ...    *)
LockSource(p) ==
  LET s == prog[p]  f == Last(s.queue)
  IN  /\ s.at = "queue"
      /\ IF s.queue = <<>> THEN Becomes(p, Fails(s, {"POLL"})) /\ UNCHANGED disk
         ELSE IF f \in disk.lock THEN Becomes(p, [s EXCEPT !.queue = Front(@)]) /\ UNCHANGED disk
         ELSE /\ Becomes(p, [s EXCEPT !.queue = Front(@), !.name = f, !.at = "verify"])
              /\ disk' = [disk EXCEPT !.lock = @ \cup {f}]
      /\ UNCHANGED <<mcfg, mlog>>

(* ... verify that it is still there, else unlock it ...                   *)
VerifySource(p) ==
  LET s == prog[p]
  IN  /\ s.at = "verify"
      /\ IF s.name \in disk.in THEN GoesTo(p, "open") /\ UNCHANGED disk
         ELSE /\ Becomes(p, [s EXCEPT !.at = "queue", !.name = NOFILE])
              /\ disk' = [disk EXCEPT !.lock = @ \ {s.name}]
      /\ UNCHANGED <<mcfg, mlog>>

(* ... and open it.  Then the application opens it, or refuses.            *)
OpenSource(p) ==
  LET s == prog[p]  on == [s EXCEPT !.opened = TRUE]
  IN  /\ s.at = "open"
      /\ \/ /\ Becomes(p, Fails([s EXCEPT !.name = NOFILE], {"ERROR"}))
            /\ disk' = [disk EXCEPT !.lock = @ \ {s.name}]
         \/ /\ Becomes(p, [on EXCEPT !.active = TRUE, !.at = "sink"]) /\ UNCHANGED disk
         \/ /\ Becomes(p, Fails(on, {"ERROR", "SOURCECLOSE"})) /\ UNCHANGED disk
      /\ UNCHANGED <<mcfg, mlog>>

(* mio_sink_open_file: an output named after the source.  If its lock file *)
(* exists this is an error, but the source stays open.                     *)
mio_sink_open_file(p) ==
  LET s == prog[p]
  IN  /\ s.at = "sink"
      /\ \/ s.sink /\ GoesTo(p, "process") /\ UNCHANGED disk
         \/ ~s.sink /\ s.name \in disk.outlock /\ Becomes(p, Fails(s, {"ERROR"})) /\ UNCHANGED disk
         \/ /\ ~s.sink /\ s.name \notin disk.outlock
            /\ \/ /\ Becomes(p, [s EXCEPT !.sink = TRUE, !.at = "process"])
                  /\ disk' = [disk EXCEPT !.outlock = @ \cup {s.name}, !.out = @ \cup {s.name}]
               \/ Becomes(p, Fails(s, {"ERROR"})) /\ UNCHANGED disk
      /\ UNCHANGED <<mcfg, mlog>>

(* The application processes an item: more to come, the end of the source, *)
(* or an error.                                                            *)
app_process(p) ==
  LET s == prog[p]
  IN  /\ s.at = "process"
      /\ \/ Becomes(p, [s EXCEPT !.at = "afterproc"])
         \/ Becomes(p, [s EXCEPT !.at = "afterproc", !.flags = @ \cup {"SOURCECLOSE"}])
         \/ \E e \in {"ERROR", "TRANSIENT"} : Becomes(p, Fails(s, {e, "SOURCECLOSE"}))
      /\ mlog' = [mlog EXCEPT !.unsure = @ \ {s.name}]
      /\ UNCHANGED <<mcfg, disk>>

(* What the flags say when the item is done; source and sink are linked.   *)
Promoted(flags) ==
  LET end == IF "POLL" \in flags /\ ~mcfg.daemon THEN (flags \ {"POLL"}) \cup {"TERMINATE"}
             ELSE flags
  IN  end \cup (IF end \cap {"SOURCECLOSE", "TERMINATE"} # {} THEN {"SINKCLOSE"} ELSE {})
          \cup (IF "TERMINATE" \in end THEN {"SOURCECLOSE"} ELSE {})

(* mio_sink_close_file: an output with an error is deleted.  A failure of  *)
(* the close itself comes after that.                                      *)
mio_sink_close_file(p) ==
  LET s == prog[p]  flags == Promoted(s.flags)
      bad == flags \cap {"ERROR", "TRANSIENT"} # {}
      at == IF "SOURCECLOSE" \in flags /\ s.opened THEN "link" ELSE "return"
  IN  /\ s.at = "afterproc"
      /\ IF "SINKCLOSE" \in flags /\ s.sink
         THEN /\ \E failed \in BOOLEAN :
                   /\ Becomes(p, [s EXCEPT !.sink = FALSE, !.at = at,
                        !.flags = flags \cup (IF failed THEN {"ERROR"} ELSE {})])
                   /\ mlog' = [mlog EXCEPT !.unsure = IF failed THEN @ \cup {s.name} ELSE @]
              /\ disk' = [disk EXCEPT !.outlock = @ \ {s.name},
                                      !.out = IF bad THEN @ \ {s.name} ELSE @]
         ELSE Becomes(p, [s EXCEPT !.at = at, !.flags = flags]) /\ UNCHANGED <<disk, mlog>>
      /\ UNCHANGED mcfg

----------------------------------------------------------------------------
(* mio_source_close_file: where the file goes by the flags.                *)
Destination(flags) ==
  IF "ERROR" \in flags THEN mcfg.fail ELSE IF "TRANSIENT" \in flags THEN "keep" ELSE mcfg.next
Side(flags) == IF "ERROR" \in flags THEN "fail" ELSE "next"

(* Linked to its destination.  If that fails the file is deleted anyway.   *)
LinkSource(p) ==
  LET s == prog[p]  to == Destination(s.flags)
  IN  /\ s.at = "link"
      /\ \/ /\ to = "dir"
            /\ disk' = [disk EXCEPT ![Side(s.flags)] = @ \cup {s.name}]
            /\ GoesTo(p, "unlink") /\ UNCHANGED mlog
         \/ /\ to = "dir"
            /\ Becomes(p, [s EXCEPT !.at = "unlink", !.flags = @ \cup {"ERROR"}])
            /\ mlog' = [mlog EXCEPT !.lost = @ \cup {s.name}] /\ UNCHANGED disk
         \/ to = "delete" /\ GoesTo(p, "unlink") /\ UNCHANGED <<disk, mlog>>
         \/ to = "keep" /\ GoesTo(p, "unlock") /\ UNCHANGED <<disk, mlog>>
      /\ UNCHANGED mcfg

(* Fault: the file stays after it was linked.                              *)
UnlinkSourceForgotten(p) ==
  /\ prog[p].at = "unlink"
  /\ GoesTo(p, "unlock")
  /\ mlog' = [mlog EXCEPT !.done[prog[p].name] = @ + 1]
  /\ UNCHANGED <<mcfg, disk>>

UnlinkSource(p) ==
  /\ prog[p].at = "unlink"
  /\ disk' = [disk EXCEPT !.in = @ \ {prog[p].name}]
  /\ GoesTo(p, "unlock")
  /\ mlog' = [mlog EXCEPT !.done[prog[p].name] = @ + 1]
  /\ UNCHANGED mcfg

UnlockSource(p) ==
  LET s == prog[p]
  IN  /\ s.at = "unlock"
      /\ disk' = [disk EXCEPT !.lock = @ \ {s.name}]
      /\ Becomes(p, [s EXCEPT !.at = "return", !.name = NOFILE, !.opened = FALSE,
                              !.active = FALSE])
      /\ UNCHANGED <<mcfg, mlog>>

(* mio_dispatch_loop: on to the next item, after the delay that a          *)
(* transient error or an empty input calls for, unless told to terminate.  *)
mio_dispatch_loop(p) ==
  /\ prog[p].at = "return"
  /\ Becomes(p, [prog[p] EXCEPT
       !.at = IF "TERMINATE" \in prog[p].flags THEN "stopped" ELSE "dispatch", !.flags = {}])
  /\ UNCHANGED <<mcfg, disk, mlog>>

(* A program is killed: its lock files and its output stay.                *)
KilledProgram(p) ==
  /\ prog[p].at \notin {"stopped", "killed"}
  /\ Becomes(p, [prog[p] EXCEPT !.at = "killed", !.queue = <<>>])
  /\ mlog' = [mlog EXCEPT !.unsure = IF prog[p].sink THEN @ \cup {prog[p].name} ELSE @]
  /\ UNCHANGED <<mcfg, disk>>

MioNext ==
  \E p \in MProcs :
    \/ \E quit \in BOOLEAN : mio_dispatch(p, quit)
    \/ LockSource(p) \/ VerifySource(p) \/ OpenSource(p) \/ mio_sink_open_file(p)
    \/ app_process(p) \/ mio_sink_close_file(p)
    \/ LinkSource(p) \/ UnlinkSource(p) \/ UnlockSource(p) \/ mio_dispatch_loop(p)
    \/ KilledProgram(p)

MioSpec == MioInit /\ [][MioNext]_mioVars

----------------------------------------------------------------------------
(* Program p works on its file, from the check that it is still there      *)
(* until it is moved.                                                      *)
Holds(p) == prog[p].name # NOFILE /\ prog[p].at \notin {"verify", "unlock", "killed", "stopped"}

(* However the programs interleave and are killed, no two work on one      *)
(* file, the file and the lock are there as long as one does, and a file   *)
(* that was moved on is never processed again: it is at its destination,   *)
(* or was to be deleted, or could not be linked (the lock is taken before  *)
(* and released after the file is looked for and removed).  An output that *)
(* no program writes has been closed, or its program was killed.           *)
SourceOwned ==
  /\ \A p, q \in MProcs : Holds(p) /\ Holds(q) /\ prog[p].name = prog[q].name => p = q
  /\ \A p \in MProcs : Holds(p) => prog[p].name \in disk.in \cap disk.lock
  /\ \A f \in MFiles :
       /\ mlog.done[f] <= 1
       /\ mlog.done[f] = 1 => f \notin disk.in
       /\ f \notin disk.in => \/ f \in disk.next \cup disk.fail \cup mlog.lost
                              \/ "delete" \in {mcfg.next, mcfg.fail}
       /\ f \in disk.out \cap disk.outlock =>
            f \in mlog.unsure \/ \E p \in MProcs : prog[p].name = f /\ prog[p].sink

=============================================================================
