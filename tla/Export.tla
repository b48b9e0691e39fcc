------------------------------- MODULE Export -------------------------------
(***************************************************************************)
(* IPFIX export (src/src/yafcore.c): the session of each output, templates *)
(* made on demand, flow and statistics records, closing and rotation, with *)
(* the order of calls of yfProcessPBufRing, qfTracePeriodicExport and      *)
(* yfFinalFlush.                                                           *)
(*                                                                         *)
(* libfixbuf is not part of src/: its message buffer, template tables and  *)
(* emission are modelled from how they are used.  Emission may fail; a     *)
(* message that could not be emitted stays in the buffer.                  *)
(*                                                                         *)
(* Fields with the same flags in the internal template are one field here. *)
(* The contents of a field are abstracted to where they come from.         *)
(***************************************************************************)
EXTENDS Integers, Sequences, SequencesExt, FiniteSets

CONSTANTS
  Flows,       \* flows to write: [tcp, version, out, rtt, big, fwd, rev]
  Specs,       \* configured templates, sets of elements
  MsgCap,      \* items in a message
  MaxEmits,    \* messages that can be emitted in one call
  MaxCalls,    \* bound: calls that write or rotate
  MaxOutputs   \* bound: outputs opened

ASSUME ExportAssumption ==
  /\ MsgCap \in Nat \ {0} /\ MaxEmits \in Nat /\ MaxCalls \in Nat /\ MaxOutputs \in Nat
  /\ \A f \in Flows :
       {f.tcp, f.out, f.rtt, f.big} \subseteq BOOLEAN /\ f.version \in {4, 6}

VARIABLES
  xcfg,     \* template, forced biflows, IPv4 as IPv6, transport over the network
  fb,       \* the buffer, its session and exporter
  last,     \* the flow, template and record just written
  xstate,   \* "closed", "open", "failed" or "done"
  books     \* history: records written and kept, outputs, failures
exportVars == <<xcfg, fb, last, xstate, books>>

(* The internal template qof_internal_spec: name, direction, flags.  "mss" *)
(* stands for the elements of a TCP structure that the table of features   *)
(* (cfg_ie_features) lacks, as it lacks all reverse elements.              *)
Field(name, dir, flags) == [name |-> name, dir |-> dir, flags |-> flags]
BothWays(name, flags) ==
  {Field(name, "fwd", flags), Field(name, "rev", flags \cup {"BIF"})}
Sized(fs) == UNION {{[f EXCEPT !.flags = @ \cup {s}] : s \in {"FLE", "RLE"}} : f \in fs}
qof_internal_spec ==
  {Field("times", "flow", {}), Field("delta", "flow", {"BIF"}), Field("ports", "key", {}),
   Field("ip4", "key", {"IP4"}), Field("ip6", "key", {"IP6"}),
   Field("rtt", "flow", {"RTT"}), Field("mac", "flow", {}),
   Field("netIf", "fwd", {}), Field("netIf", "rev", {})}
  \cup Sized(BothWays("counts", {})) \cup Sized(BothWays("tcpcounts", {"TCP"}))
  \cup Sized({Field("acks", d, {"TCP", "BIF"}) : d \in {"fwd", "rev"}})
  \cup BothWays("ttl", {}) \cup BothWays("flags", {"TCP"})
  \cup BothWays("tcp", {"TCP"}) \cup BothWays("mss", {"TCP"})
  \cup BothWays("chirp", {"TCP", "TSV"})
IE(f) == <<f.name, f.dir>>

(* The elements that enable a tracker of segments, acknowledgments,        *)
(* windows, options, timestamps or arrivals.  Without any of them          *)
(* yfFlowPktTCP makes no TCP structure for a direction.                    *)
Tracking == {<<"rtt", "flow">>} \cup ({"tcpcounts", "acks", "tcp", "chirp"} \X {"fwd"})
Tracked == xcfg.spec \cap Tracking # {}
HasTcp(flow, dir) == flow.tcp /\ flow[dir].pkt /\ Tracked

(* A template identifier is the set of the flags it stands for.            *)
Options == {"YAF_OPTIONS_TID"}
Full == {"YAF_FLOW_FULL_TID"}

(* yfAllocExportTemplate: the fields configured whose flags the template   *)
(* has.                                                                    *)
yfAllocExportTemplate(tid) ==
  {f \in qof_internal_spec : IE(f) \in xcfg.spec /\ f.flags \subseteq tid}

----------------------------------------------------------------------------
(* libfixbuf.  A call after one that failed does nothing: its caller has   *)
(* returned.                                                               *)
fBufEmit(b) ==
  IF ~b.ok \/ b.msg = <<>> THEN b
  ELSE IF b.io = 0 THEN [b EXCEPT !.ok = FALSE, !.fault = TRUE]
  ELSE [b EXCEPT !.io = @ - 1, !.file = @ \o b.msg, !.msg = <<>>]

fBufPut(b, item) ==
  LET room == IF Len(b.msg) < MsgCap THEN b ELSE fBufEmit(b)
  IN  IF room.ok THEN [room EXCEPT !.msg = Append(@, item)] ELSE room

fBufAppend(b, kind) ==
  fBufPut(b, [kind |-> kind, tid |-> b.etid, itid |-> b.itid])

fBufAppendTemplate(b, tid) == fBufPut(b, [kind |-> "template", tid |-> tid, itid |-> tid])

fbSessionAddTemplate(b, internal, tid) ==
  IF ~b.ok THEN b
  ELSE IF internal THEN [b EXCEPT !.int = @ \cup {tid}]
  ELSE fBufAppendTemplate([b EXCEPT !.ext = @ \cup {tid}], tid)

fbSessionExportTemplates(b) == FoldSet(LAMBDA tid, c : fBufAppendTemplate(c, tid), b, b.ext)

fBufSetInternalTemplate(b, tid) ==
  IF b.ok /\ tid \in b.int THEN [b EXCEPT !.itid = tid] ELSE [b EXCEPT !.ok = FALSE]

(* A call that may emit io messages starts, and has returned.              *)
Call(io) == [fb EXCEPT !.io = io]
Returned(b) == [b EXCEPT !.ok = TRUE, !.io = 0, !.fault = FALSE]

----------------------------------------------------------------------------
(* Templates of a new session.                                             *)
yfInitExporterSession == [int |-> {Full, Options}, ext |-> {Options}]

(* A new output, with the templates written and the internal one set.      *)
yfWriterForFile(b) ==
  LET s == yfInitExporterSession
      new == [b EXCEPT !.int = s.int, !.ext = s.ext, !.msg = <<>>, !.file = <<>>]
  IN  fBufSetInternalTemplate(fbSessionExportTemplates(new), Full)
yfWriterForSpec(b) == yfWriterForFile(b)

yfSetExportTemplate(b, tid) ==
  LET has == IF tid \in b.ext THEN b ELSE fbSessionAddTemplate(b, FALSE, tid)
  IN  IF has.ok THEN [has EXCEPT !.etid = tid] ELSE has

(* stats_template_initialized outlives the session.                        *)
yfEnsureStatsTemplate(b) ==
  LET added == fbSessionAddTemplate(fbSessionAddTemplate(b, TRUE, Options), FALSE, Options)
      ready == IF b.stats_template_initialized THEN b
               ELSE [added EXCEPT !.stats_template_initialized = added.ok]
      set == fBufSetInternalTemplate(ready, Options)
  IN  IF set.ok THEN yfSetExportTemplate(set, Options) ELSE set

(* Fault: the internal template stays that of the statistics.              *)
WriteStatsRecKeeps(b) ==
  LET ready == yfEnsureStatsTemplate(b)
  IN  IF ready.ok THEN fBufAppend(ready, "stats") ELSE ready

yfWriteStatsRec(b) ==
  LET ready == yfEnsureStatsTemplate(b)
      put == IF ready.ok THEN fBufAppend(ready, "stats") ELSE ready
  IN  IF put.ok THEN fBufSetInternalTemplate(put, Full) ELSE put

----------------------------------------------------------------------------
Reversed(d) == IF d = "fwd" THEN "rev" ELSE "fwd"

(* Fault: only the key is reversed.                                        *)
DirectionsKeyOnly(flow) ==
  IF flow.out THEN [key |-> "rev", val |-> "fwd", rval |-> "rev"]
  ELSE [key |-> "fwd", val |-> "fwd", rval |-> "rev"]

(* Directions are assigned by the lists of sources: a flow from outside to *)
(* a source is turned round.                                               *)
Directions(flow) ==
  IF flow.out THEN [key |-> "rev", val |-> "rev", rval |-> "fwd"]
  ELSE [key |-> "fwd", val |-> "fwd", rval |-> "rev"]

(* The template: forced or not, with or without addresses mapped.          *)
Wtid(flow) ==
  LET d == Directions(flow)
      hz(dir) == HasTcp(flow, dir) /\ flow[dir].hz
  IN  {IF flow.version = 4 /\ ~xcfg.map6 THEN "IP4" ELSE "IP6"}
      \cup (IF flow.tcp THEN {"TCP"} ELSE {})
      \cup (IF hz("fwd") \/ hz("rev") THEN {"TSV"} ELSE {})
      \cup (IF flow.tcp /\ flow.rtt THEN {"RTT"} ELSE {})
      \cup (IF xcfg.force \/ flow[d.rval].pkt THEN {"BIF"} ELSE {})
      \cup {IF flow.big THEN "FLE" ELSE "RLE"}

(* The record: what each field is taken from; a field that is not assigned *)
(* has whatever is on the stack.  The interface map is asked for the key   *)
(* as it is in the flow.                                                   *)
Contents(flow) ==
  LET d == Directions(flow)
      of(dir) == IF dir = "fwd" THEN d.val ELSE d.rval
      from(f) ==
        CASE f.dir = "key" -> d.key
          [] f.dir = "flow" -> "flow"
          [] f.name = "netIf" -> f.dir
          [] f.name \in {"tcpcounts", "acks", "tcp", "mss"} ->
               IF HasTcp(flow, of(f.dir)) THEN of(f.dir) ELSE "unset"
          [] f.name = "chirp" ->
               IF HasTcp(flow, of(f.dir)) /\ flow[of(f.dir)].hz THEN of(f.dir) ELSE "unset"
          [] OTHER -> of(f.dir)
  IN  [f \in qof_internal_spec |-> from(f)]

yfWriteFlow(b, flow) ==
  LET set == yfSetExportTemplate(b, Wtid(flow))
  IN  IF set.ok THEN fBufAppend(set, "flow") ELSE set

(* Fault: closing does not emit what is in the buffer.                     *)
WriterCloseDiscards(b, flush) == b

yfWriterClose(b, flush) == IF flush THEN fBufEmit(b) ELSE b

----------------------------------------------------------------------------
NewBuffer ==
  [msg |-> <<>>, file |-> <<>>, int |-> {}, ext |-> {}, itid |-> Full, etid |-> Options,
   stats_template_initialized |-> FALSE, ok |-> TRUE, io |-> 0, fault |-> FALSE]
NoRecord == [flow |-> "none"]

ExportInit ==
  /\ xcfg \in [spec : Specs, force : BOOLEAN, map6 : BOOLEAN, transport : BOOLEAN]
  /\ fb = NewBuffer /\ last = NoRecord /\ xstate = "closed"
  /\ books = [calls |-> 0, records |-> 0, kept |-> 0, outputs |-> 0,
              fault |-> FALSE, error |-> FALSE, stats |-> FALSE]

Data(s) == Cardinality({i \in 1..Len(s) : s[i].kind # "template"})

(* The books after a call that left the buffer b.                          *)
Entered(b) ==
  [books EXCEPT !.calls = @ + 1,
                !.records = @ + Data(b.file \o b.msg) - Data(fb.file \o fb.msg),
                !.fault = @ \/ b.fault, !.error = @ \/ ~b.ok]

yfOutputOpen ==
  /\ xstate = "closed"
  /\ fb' = Returned(IF xcfg.transport THEN yfWriterForSpec(Call(MaxEmits))
                    ELSE yfWriterForFile(Call(MaxEmits)))
  /\ xstate' = "open"
  /\ books' = [books EXCEPT !.outputs = @ + 1]
  /\ last' = NoRecord
  /\ UNCHANGED xcfg

(* A flow of the flow table; a failure ends the program.                   *)
WriteFlow(flow, io) ==
  /\ xstate = "open" /\ books.calls < MaxCalls
  /\ LET b == yfWriteFlow(Call(io), flow)
     IN  /\ fb' = Returned(b)
         /\ xstate' = IF b.ok THEN "open" ELSE "failed"
         /\ books' = Entered(b)
  /\ last' = [flow |-> flow, tid |-> Wtid(flow), rec |-> Contents(flow)]
  /\ UNCHANGED xcfg

(* qfTracePeriodicExport: a failure is not noticed by its caller, and      *)
(* leaves out the templates.                                               *)
PeriodicExport(stats, templates, io) ==
  /\ xstate = "open" /\ books.calls < MaxCalls
  /\ LET sent == IF stats THEN yfWriteStatsRec(Call(io)) ELSE Call(io)
         b == IF templates /\ sent.ok THEN fbSessionExportTemplates(sent) ELSE sent
     IN  /\ fb' = Returned(b)
         /\ books' = [Entered(b) EXCEPT !.stats = @ \/ ~sent.ok]
  /\ last' = NoRecord
  /\ UNCHANGED <<xcfg, xstate>>

(* yfOutputClose: the error is only logged.                                *)
Closed(b, flush) ==
  LET c == yfWriterClose(b, flush)
  IN  /\ books' = [Entered(c) EXCEPT !.kept = @ + Data(c.file), !.stats = FALSE]
      /\ fb' = [NewBuffer EXCEPT !.stats_template_initialized = fb.stats_template_initialized]

Rotate(io) ==
  /\ xstate = "open" /\ ~xcfg.transport /\ books.outputs < MaxOutputs
  /\ Closed(Call(io), TRUE)
  /\ xstate' = "closed"
  /\ last' = NoRecord
  /\ UNCHANGED xcfg

(* The end of yfFinalFlush.                                                *)
FinalClose(io) ==
  /\ xstate \in {"open", "failed"}
  /\ Closed(Call(io), xstate = "open")
  /\ xstate' = "done"
  /\ last' = NoRecord
  /\ UNCHANGED xcfg

ExportNext ==
  \/ yfOutputOpen
  \/ \E io \in 0..MaxEmits :
       \/ \E flow \in Flows : WriteFlow(flow, io)
       \/ \E stats, templates \in BOOLEAN : PeriodicExport(stats, templates, io)
       \/ Rotate(io) \/ FinalClose(io)

ExportSpec == ExportInit /\ [][ExportNext]_exportVars

----------------------------------------------------------------------------
(* Whoever reads an output from its start can decode every record: its     *)
(* template comes before it (yfSetExportTemplate, in every session anew),  *)
(* and it was encoded from the structure of its kind, as long as no        *)
(* statistics record failed half way (yfWriteStatsRec sets the internal    *)
(* template for its record and back).                                      *)
RecordsDecodable ==
  LET s == fb.file \o fb.msg
  IN  \A i \in 1..Len(s) : s[i].kind # "template" =>
        /\ \E j \in 1..i - 1 : s[j].kind = "template" /\ s[j].tid = s[i].tid
        /\ ~books.stats => s[i].itid = IF s[i].kind = "stats" THEN Options ELSE Full

(* Every record that was written is in the buffer or in an output, also    *)
(* after rotation, and is lost only after an error that was reported;      *)
(* errors come from emission alone, so no output lacks a template          *)
(* (yfWriterClose, yfEnsureStatsTemplate with its static flag).            *)
RecordsReachOutput ==
  /\ ~books.error => books.records = books.kept + Data(fb.file \o fb.msg)
  /\ books.error => books.fault

(* In a record every field of the template is of the direction that its    *)
(* key has, for flows turned round as well, but for the interfaces, which  *)
(* keep the flow's.  A field is not set only if it is one of TCP, and its  *)
(* direction had no packets or, for timestamps, no known frequency, or no  *)
(* element of the template enables a tracker (yfWriteFlow).                *)
RecordFieldsSet ==
  last # NoRecord =>
    LET key == last.rec[Field("ports", "key", {})]
        wanted(dir) == IF key = "fwd" THEN dir ELSE Reversed(dir)
    IN  \A f \in yfAllocExportTemplate(last.tid) :
          CASE f.dir = "key" -> last.rec[f] = key
            [] f.name = "netIf" -> last.rec[f] = f.dir
            [] f.dir = "flow" -> last.rec[f] = "flow"
            [] OTHER ->
                 \/ last.rec[f] = wanted(f.dir)
                 \/ /\ last.rec[f] = "unset" /\ "TCP" \in f.flags
                    /\ \/ ~last.flow[wanted(f.dir)].pkt
                       \/ f.name = "chirp" /\ ~last.flow[wanted(f.dir)].hz
                       \/ xcfg.spec \cap Tracking = {}

(* Not true: an element of the template enables what it needs, as the      *)
(* manual page says of observedTcpMss, so the elements of a direction that *)
(* had packets are not left as they are on the stack.                      *)
TcpFieldsMeasured ==
  last # NoRecord =>
    \A f \in yfAllocExportTemplate(last.tid) :
      f.name \in {"tcpcounts", "acks", "tcp", "mss"} /\ last.rec[f] = "unset" =>
        \E d \in {"fwd", "rev"} : ~last.flow[d].pkt

=============================================================================
