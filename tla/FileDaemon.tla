----------------------------- MODULE FileDaemon -----------------------------
(***************************************************************************)
(* filedaemon (src/airframe/src/filedaemon.c): every file that matches the *)
(* input is fed to a child of its own, whose output is collected, and is   *)
(* moved when the child exits.  One daemon; the lock files of other        *)
(* programs are not modelled.                                              *)
(*                                                                         *)
(* The loop waits for the end of the child's output, not for its exit: the *)
(* exit may be noticed in the loop of a later file.  The data of the       *)
(* callbacks is on the stack: a callback on the input of an earlier child  *)
(* that is still there reads the file of the present one.                  *)
(***************************************************************************)
EXTENDS Integers, Sequences, SequencesExt, FiniteSets

CONSTANTS
  FFiles,     \* input files
  Length,     \* blocks of a file
  MaxOut,     \* bound: blocks a child writes
  MaxKids,    \* bound: children started
  Deletes     \* sides ("next", "fail") that are "delete"

ASSUME FileDaemonAssumption ==
  /\ IsFiniteSet(FFiles)
  /\ Length \in [FFiles -> Nat] /\ MaxOut \in Nat /\ MaxKids \in Nat
  /\ Deletes \subseteq {"next", "fail"}

VARIABLES
  fdstate,    \* "glob", "files", "loop" or "after"
  todo,       \* files of the glob that are left
  place,      \* where each file is: subset of {"in", "next", "fail"}
  fdlocks,    \* files with a lock file of the daemon
  kids,       \* children, the last one is the present one
  infile,     \* write_data: blocks of the present file that are left
  fdlog       \* history: inputs not read to their end, moves that failed
fdVars == <<fdstate, todo, place, fdlocks, kids, infile, fdlog>>

FileDaemonInit ==
  /\ fdstate = "glob" /\ todo = <<>> /\ fdlocks = {} /\ kids = <<>> /\ infile = <<>>
  /\ place = [f \in FFiles |-> {"in"}]
  /\ fdlog = [early |-> FALSE, lost |-> {}]

Content(f) == [i \in 1..Length[f] |-> <<f, i>>]
K == Len(kids)

Glob ==
  /\ fdstate = "glob"
  /\ \E s \in SetToSeqs({f \in FFiles : "in" \in place[f]}) : todo' = s
  /\ fdstate' = "files"
  /\ UNCHANGED <<place, fdlocks, kids, infile, fdlog>>

(* The lock file is made if the file is still there.                       *)
fd_lock_file(f) == IF "in" \in place[f] THEN fdlocks \cup {f} ELSE fdlocks

(* A file of the list: skipped if it is gone or locked; else it is locked, *)
(* and a child is started with callbacks on its input, output and exit.    *)
NextFile ==
  /\ fdstate = "files"
  /\ IF todo = <<>> THEN fdstate' = "glob" /\ UNCHANGED <<todo, fdlocks, kids, infile>>
     ELSE LET f == Head(todo)
          IN  /\ todo' = Tail(todo)
              /\ IF "in" \notin place[f] \/ f \in fdlocks
                 THEN UNCHANGED <<fdstate, fdlocks, kids, infile>>
                 ELSE /\ K < MaxKids
                      /\ fdlocks' = fd_lock_file(f)
                      /\ kids' = Append(kids,
                           [file |-> f, got |-> <<>>, feed |-> "open", wrote |-> 0, pipe |-> 0,
                            saved |-> 0, out |-> "open", exit |-> "running", watch |-> TRUE])
                      /\ infile' = Content(f)
                      /\ fdstate' = "loop"
  /\ UNCHANGED <<place, fdlog>>

Kid(k, s) == kids' = [kids EXCEPT ![k] = s]

(* write_to_child: a block of the present file to the child of the         *)
(* callback, also if that one no longer reads; at the end its input is     *)
(* closed and the callback removed.                                        *)
write_to_child(k) ==
  LET kid == kids[k]
  IN  /\ fdstate = "loop" /\ kid.feed = "open"
      /\ IF infile = <<>> THEN Kid(k, [kid EXCEPT !.feed = "end"]) /\ UNCHANGED infile
         ELSE /\ Kid(k, [kid EXCEPT !.got = IF kid.exit = "running" THEN Append(@, Head(infile)) ELSE @])
              /\ infile' = Tail(infile)
      /\ UNCHANGED <<fdstate, todo, place, fdlocks, fdlog>>

(* read_from_child: a block to the output file, or the end, which leaves   *)
(* the loop.                                                               *)
read_from_child ==
  LET kid == kids[K]
  IN  /\ fdstate = "loop"
      /\ \/ /\ kid.pipe > 0
            /\ Kid(K, [kid EXCEPT !.pipe = @ - 1, !.saved = @ + 1])
            /\ UNCHANGED <<fdstate, fdlog>>
         \/ /\ kid.pipe = 0 /\ kid.out = "closed"
            /\ Kid(K, [kid EXCEPT !.out = "end"])
            /\ fdstate' = "after"
            /\ fdlog' = [fdlog EXCEPT !.early = @ \/ kid.feed = "open"]
      /\ UNCHANGED <<todo, place, fdlocks, infile>>

(* Where the file goes; it is removed even if it could not be linked, and  *)
(* if it is gone already only a message says so.                           *)
Moved(f, side, linked) ==
  IF "in" \notin place[f] THEN place[f]
  ELSE (place[f] \ {"in"}) \cup IF linked /\ side \notin Deletes THEN {side} ELSE {}

(* Fault: the exit of a child leaves the loop.                             *)
ChildExitQuits(k, linked) ==
  LET kid == kids[k]  f == kid.file
      side == IF kid.exit = "success" THEN "next" ELSE "fail"
  IN  /\ fdstate = "loop" /\ kid.watch /\ kid.exit # "running"
      /\ Kid(k, [kid EXCEPT !.watch = FALSE])
      /\ place' = [place EXCEPT ![f] = Moved(f, side, linked)]
      /\ fdstate' = IF k = K THEN "after" ELSE "loop"
      /\ fdlog' = [fdlog EXCEPT !.lost = IF linked THEN @ ELSE @ \cup {f}]
      /\ UNCHANGED <<todo, fdlocks, infile>>

on_child_exit(k, linked) ==
  LET kid == kids[k]  f == kid.file
      side == IF kid.exit = "success" THEN "next" ELSE "fail"
  IN  /\ fdstate = "loop" /\ kid.watch /\ kid.exit # "running"
      /\ Kid(k, [kid EXCEPT !.watch = FALSE])
      /\ place' = [place EXCEPT ![f] = Moved(f, side, linked)]
      /\ fdlog' = [fdlog EXCEPT !.lost = IF linked THEN @ ELSE @ \cup {f}]
      /\ UNCHANGED <<fdstate, todo, fdlocks, infile>>

(* After the loop the file is unlocked, moved or not.                      *)
fd_unlock_file ==
  /\ fdstate = "after"
  /\ fdlocks' = fdlocks \ {kids[K].file}
  /\ fdstate' = "files"
  /\ UNCHANGED <<todo, place, kids, infile, fdlog>>

(* The child: it writes, closes its output, and exits.                     *)
ChildRuns(k) ==
  LET kid == kids[k]
  IN  /\ kid.exit = "running"
      /\ \/ kid.out = "open" /\ kid.wrote < MaxOut /\ Kid(k, [kid EXCEPT !.wrote = @ + 1, !.pipe = @ + 1])
         \/ kid.out = "open" /\ Kid(k, [kid EXCEPT !.out = "closed"])
         \/ \E e \in {"success", "failure"} :
              Kid(k, [kid EXCEPT !.exit = e, !.out = IF @ = "open" THEN "closed" ELSE @])
      /\ UNCHANGED <<fdstate, todo, place, fdlocks, infile, fdlog>>

FileDaemonNext ==
  \/ Glob \/ NextFile \/ fd_unlock_file
  \/ K > 0 /\ read_from_child
  \/ \E k \in 1..K : ChildRuns(k) \/ write_to_child(k) \/ \E l \in BOOLEAN : on_child_exit(k, l)

FileDaemonSpec == FileDaemonInit /\ [][FileDaemonNext]_fdVars

----------------------------------------------------------------------------
(* When the loop for a file ends, all its child wrote is in the output,    *)
(* and as long as every child so far has read its input to the end each    *)
(* was given its own file, whole and in order (write_to_child and          *)
(* read_from_child share their data between children).  A file leaves the  *)
(* input only when a child it was given to has exited, to the place for    *)
(* how one of these exited, and is gone only if deleted or not linked.     *)
ProcessedWhole ==
  /\ fdstate = "after" => kids[K].saved = kids[K].wrote /\ kids[K].out = "end"
  /\ ~fdlog.early => \A k \in 1..K :
       IF kids[k].feed = "end" THEN kids[k].exit = "running" => kids[k].got = Content(kids[k].file)
       ELSE kids[k].exit = "running" => kids[k].got \o infile = Content(kids[k].file)
  /\ \A f \in FFiles : "in" \notin place[f] =>
       LET exits == {kids[k].exit : k \in {j \in 1..K : kids[j].file = f /\ ~kids[j].watch}}
       IN  /\ exits # {}
           /\ "next" \in place[f] => "success" \in exits
           /\ "fail" \in place[f] => "failure" \in exits
           /\ place[f] = {} => f \in fdlog.lost \/ Deletes # {}

=============================================================================
