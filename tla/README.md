# QoF in TLA+

QoF is an IPFIX flow meter derived from YAF: it reads packets from a trace or an
interface, assembles them into bidirectional flows, measures TCP performance per
flow and exports one record (or two) per flow. This directory holds a
specification of it: TLA+ modules translated from the C sources under `src/`, TLC
configurations that check them on small instances, and proofs checked by TLAPS for
every value of the constants.

`PROJECT.json` lists the components, the runs, the theorems, the source lines each
definition stands for, the hazards the properties are aimed at and the places where
the code and its documentation disagree.

## 1. The system

QoF is one process, one thread, and two signal handlers. Packets flow through it as
follows:

    libtrace --> decoder --> detuner --> fragment table --> ring of packet buffers
                                                                   |
       output, lock <-- IPFIX export <-- flush <-- flow table + TCP trackers

The airframe under `src/airframe/` is the library of YAF's authors: QoF uses its lock
files, privileges, logging and options; its other part takes files of a directory one
by one (`mio`), and two daemons run other programs (`filedaemon`, `airdaemon`).

| component | source | state | operations | what is hard about it | what makes it correct |
|---|---|---|---|---|---|
| main loop | `qofltrace.c`, `yaflush.c` | group counter, quit flag, timers | read a group of 32 packets, empty the ring, flush, rotate, export statistics, final flush | signals at any point, partial groups, a failing step among several | it ends, it loses nothing silently, it leaves no output open |
| output | `yafout.c` | buffer, lock, serial number | open, close, rotate | fails between closing one file and opening the next | a lock is held exactly while a file is open |
| flow table | `yaftab.c` | hash table, active and close queue, counters, statistics | look up, count, split, close, flush | timeouts racing packets, out of order times, write errors | every packet is in one flow and every flow in the output once |
| fragment table | `yafrag.c`, `decode.c` | hash table, queue, record arrays, timers | add a fragment, check completeness, prune | fragments lost, repeated, reordered; reused packet buffers | what is passed on is whole, and is passed on as soon as it is |
| sequence tracker | `qofseq.c` | next expected number, stack of 8 gaps, loss counters | first segment, segment, count | wrap at 2^32, reordering, a full stack | gaps are what was not seen |
| round trip, acknowledgement, window and option trackers | `qofrtt.c`, `qofack.c`, `qofrwin.c`, `qofopt.c`, `streamstat.c` | waits and samples per direction | segment, acknowledgement | a late answer matched to the wrong question, wrap | a sample is the time between a segment and its answer |
| decoder | `decode.c` | counters, the packet buffer | Ethernet to layer 4, TCP options, GRE | fields left from an earlier packet, packets cut anywhere | every field is of this packet or cleared |
| detuner | `qofdetune.c` | bucket, delay | delay or drop a packet | order of times, drops, overflow | a leaky bucket, times in order |
| statistics dump | `yafstat.c` | request counter, packet total | request (handler), dump | a counter changed by handler and loop | no request is forgotten |
| interface map, networks, MAC list | `qofifmap.c`, `qofmaclist.c` | sorted arrays | insert, search | order of insertion, overlapping copies | every address finds its prefix |
| IPFIX export | `yafcore.c` | session, templates, message buffer | write a flow, statistics, templates, close | failures half way, new sessions, one-way flows | a collector can decode what it gets, and gets all |
| configuration, privileges | `qof.c`, `qofconfig.c`, `privconfig.c`, `logconfig.c` | options, YAML document, template | parse, derive, set up | repeated and bad keys, units, order of steps | each stage is started with what was asked for |
| pickable queue | `picq.c` | links in the nodes, head, tail | enqueue, pick, dequeue, shift, unshift | a node without links is in no queue or alone in one | links and ends describe one sequence per queue |
| packet ring | `ring.c` | array, head, tail, count, peak | next head, force head, next tail | full and empty are the same pointers | it is a bounded queue |
| lock files | `airlock.c` | the lock file, shared by processes | acquire, release, cleanup | other processes, crashes while holding | exclusion, no file left behind |
| multiple I/O | `mio.c`, `mio_source_file.c`, `mio_sink_file.c` | queue of names, lock files, source and sink | next source, next sink, process, close each | several programs on one directory, kills, failures with flags | a file has one program at a time and is done once |
| filedaemon | `filedaemon.c` | locks, child, pipes, callbacks | glob, start a child, feed, read, notice the exit | exit, end of output and callbacks in any order | each child gets its file, the file goes where the exit says |
| airdaemon | `airdaemon.c` | delay | start, wait, sleep | backoff and its truncation | the delay is the documented one |
| bitmap, the rest of the airframe, the Python tools | `bitmap.c`, `airframe/`, `pytools/` | | | | not modelled, see section 5 |

How they interact. At startup the command line and the YAML document are turned into
the arguments of every stage; the export template decides what is tracked. The main
loop hands a slot of the ring to the decoder, which fills it; the detuner drops or delays
the packet; a fragment goes through the fragment table, which either overwrites the
buffer with the reassembled packet or marks it invalid with time zero. When a group
is full, the loop empties the ring into the flow table, calls the flush, which
writes closed flows through the exporter, and rotates the output when its time is up. The
flow table calls the TCP trackers for each segment. The only asynchronous events are
signals, which set `yaf_quit` or ask for statistics. Processes share lock files.

## 2. The modules

Each C function that changes state is an operator from the old to the new structure,
or an action, and keeps its name. Operators whose comment begins with `Fault:` are
deliberately wrong variants of the definition that follows them; putting one in that
definition's place must break the property it is paired with in `PROJECT.json`. Variables
marked *history* are not in the code: properties relate the state to them.

### FlowTable (`yaftab.c`)

`ft` is `struct yfFlowTab_st`: `node` (every node ever allocated; a node is a position
in it), `table` (the hash table, 0 for no entry), `aq` and `cq` (the queues, oldest
first, as sequences of module `Picq`), `count`, `cq_count`, `next_fid`, `ctime`,
`flushtime` and the statistics. `log` is the history of accepted packets, `out` the
records written, `lost` the flows freed after a failed write, `phase` whether the
table is in use, finally flushed or failed.

| action or operator | code |
|---|---|
| `PBuf(p)` | `yfFlowPBuf`: refusal of older packets, lookup in both directions, active timeout and SiLK overflow, idle timeout, counting, TCP state, close or tick |
| `yfFlowGetNode`, `yfFlowTick`, `yfFlowClose`, `yfFlowPktTCP`, `yfFlowKeyReverse` | the functions of these names |
| `Flush` | `yfFlowTabFlush(FALSE)` when it is due |
| `FinalFlush` | `yfFlowTabFlush(TRUE)` |
| `IdleRun`, `LimitRun`, `CloseOldest` | the three loops that close flows from the tail, by how many they close |
| `Records`, `WriteAll`, `WriteFails` | `yfWriteFlow`, `yfUniflow`, `yfUniflowReverse` and the loop over the close queue |

Abstractions: a flow's packet counter is the set of packets counted, so that a
property can say *which* they are. TTLs, MAC addresses and payload counters are left
out, the trackers are modules of their own. IP version and VLAN are part of `proto`.

### Meter (`qofltrace.c`, `yaflush.c`, `yafout.c`), around FlowTable

`pc` is the place in `qfTraceMain`; `ring`, `i`, `trv`, `quit`, `ok`, `fbuf`,
`held`, `serial`, `rotate_last` and `stats_last` are the variables and context fields
of those names. One action per step between which a signal makes a difference:
`StartGroup`, `NextSlot`, `ReadPacket`, `DropPacket`, `ReadEnds`, `GroupEnd`,
`OpenOutput`, `ProcessBuffer`, `FlushTable`, `Rotate`, `PeriodicExport`,
`yfFinalFlush`, and `yfQuit` for the signal handler. `ProcessBuffer`, `FlushTable` and
`yfFinalFlush` take the steps `PBuf`, `Flush` and `FinalFlush` of the flow table. A
slot that was handed out and not filled is `Stale`: processing it means processing
any packet. `closes` is the history of outputs closed: with what they had buffered written
(`flushed`), with a failure to write it (`failed`), which `yfOutputClose` only logs, or without
trying (`dropped`).

### FragTable (`yafrag.c`, the fragment part of `decode.c`)

`fg` is the table: a node per datagram (its key is the identity of the datagram), the
queue `fraq`, counters and `prunetime`. `Defrag` and `DefragReject` are `yfDefragPBuf`
with everything it calls: decode, `yfFragGetNode`, `yfFragAdd`, sort, `yfFragComplete`,
`yfFragRemoveNode`, `yfFragQueuePrune`. `result` is what the caller gets, with the
records that led to it. The packet buffer is reused, so ports that the decoder does
not set are any ports; the history field `from_first` of a node says whether it was made by the
fragment that has the header.

### SeqTrack (`qofseq.c`)

`qs` is one direction's `qfSeq_t`; sequence numbers are modulo `SeqSpace` and compared
as in `qfWrapCompare`. `Segment` is `qfSeqSegment`. The history variables `seen`, `mixed`
and `top` number the octets of the stream without wrapping. The cell after the gap
array, where a split of the lowest of a full stack writes, is part of the array here.
`ShortStream` says that the stream is shorter than half the sequence space (2 GiB), within which
two sequence numbers can be compared at all.

### TcpTrack (`qofrtt.c`, `qofack.c`, `qofrwin.c`, `qofopt.c`, `streamstat.c`)

`rtt` is `qfRtt_t`: for each direction what it waits for (nothing, an acknowledgement,
a timestamp echo), since when, and the last observation; `dirs` has the other trackers of each
direction. `TcpSegment` calls them in the order of `yfFlowPktTCP`: `qfRttSegment`,
`qfAckSegment`, `qfRwinSegment`, `qfOptSegment`. Of the statistics it keeps count, minimum,
maximum, last value and the smoothed value, which is integer arithmetic in the code
as well; `hist` is the history of segments.

### Decode (`decode.c`)

One action per decoding function, as a walk over a frame; `dec` says where the walk is
(function, header, pointer, octets of the capture left). A frame is a sequence of headers
of a kind, a length and a next protocol, captured up to any octet that makes a difference
(`CapLens`). `IsFrame` says which sequences are frames: each header is of the kind that the one
before it announces, with the length of its kind. The contents of a field of `pbuf` are abstracted to where they come from: a header
of this frame, cleared, or `Stale`, left from the packet before. An IPv6 fragment whose offset has only
bits outside of the mask that the code tests is `high`: without a fragment table it is `Misread`, and
its data stand in the frame as the header that they are taken for. The value of a window scale option too short to
have one is `after` the option (`OptionRead`). `Reject` and
`RejectSilently` are the returns with and without a counter.

### Detune (`qofdetune.c`)

`TailDrop`, `RandomDrop` and `PassOn` are the three ways out of `qfDetunePacket`. The bucket
is an `int`, of `IntValues` values, and what drains between two packets is truncated to octets. The
die and the smoothed random delay, which are floating point, are choices.

### Stat (`yafstat.c`)

The SIGUSR1 handler against the main loop. `--yaf_do_stat` is a load and a store with a
place for the handler between them, or one step: the code leaves both to the compiler.

### AddrMaps (`qofifmap.c`, `qofmaclist.c`)

Insertion by linear search and shift, binary search, direction of a flow. The shift is a
`memcpy` between overlapping areas: it moves the entries, or repeats the first.

### Config (`qof.c`, `qofconfig.c`, and the privilege and log settings)

`stage` is the step of `main`: options, document, defaults, input, privilege, output, stages,
teardown; each may end the program. `ctx` is the context being filled, `args` what the
stages are started with. A document is a sequence of keys with nodes; a scalar is a number, the
name of an element, or a class of addresses that the parsers tell apart. `cfg_ie_features` is the
table of what an element enables.

### Export (`yafcore.c`; the buffer of libfixbuf is external)

`fb` is the buffer with its session: internal and external templates, the message being
built and what was emitted. `WriteFlow`, `PeriodicExport`, `Rotate`, `FinalClose` are the calls that
`Meter`'s steps make, in that order of use; emission may fail at any message (`io`). Fields with the
same flags in the internal template are one field, and the contents of a field are
abstracted to the direction they come from, or to `unset`, what was on the stack. The configured template
is a constant set of elements (`Specs`); a direction has TCP data only if one of them enables a tracker
(`Tracking`, `HasTcp`).

### Ring and Fifo (`ring.c`)

`Ring` has the array, `head`, `tail`, `count`, `peak`, and the calls `rgaNextHead`,
`rgaForceHead`, `rgaNextTail`. `Fifo` is the abstract specification: a queue of at most
`cap` entries. The refinement mapping is the sequence of `count` entries from the tail.
The threaded variants are never compiled.

### Picq and PicqNodes (`picq.c`)

`Picq` has the queues as sequences: what FlowTable and FragTable use. `PicqNodes` has
the links, with the sequences as history, and shows that the links always are those of
the sequences, so the use of sequences elsewhere is justified.

### AirLock (`airlock.c`), Mio (`mio.c`, `mio_source_file.c`, `mio_sink_file.c`)

`AirLock`: several processes opening one output. `open` with `O_EXCL`, `close` and `unlink` are the
atomic steps; a process may be killed between any two. `Mio`: several programs that take files
from one directory in glob mode, under lock files. `disk` is what is in the directories;
`prog[p].at` is the place of a program in `mio_dispatch`; system calls are the steps, and a
program may be killed at each.

### FileDaemon (`filedaemon.c`), AirDaemon (`airdaemon.c`)

`FileDaemon`: a child per file, with its exit noticed in whichever loop runs then, and the data of
the callbacks shared between children as on the daemon's stack. `AirDaemon`: the delay before each
start of a child of any life time.

Which module uses which: `Meter` extends `FlowTable`, which extends `Picq`; `FragTable`
and `PicqNodes` extend `Picq`; `Ring` instantiates `Fifo`. Proofs are in modules of their own:
`FlowTableProofs` extends `FlowTable`; `FlowHistoryProofs` and `MeterProofs` extend
`FlowTableProofs`, for its lemmas, and the latter `Meter`; `FragTableProofs` extends `FragTable`;
`ExportProofs` is about `Export` and `Config`, `StagesProofs` about `Stat`, `Detune`, `TcpTrack`,
`Decode` and `SeqTrack`, `FilesProofs` about `AirLock`, `Mio`, `FileDaemon` and `AirDaemon`,
`ContainersProofs` about `Ring`, `PicqNodes` and `AddrMaps`: modules that share no state.
`MCStages`, `MCFiles` and `MCSupport` check
modules that share (but for the writer's settings) no state in one run: the variable `part` chooses at the start which of
them a behaviour is about, and the others stand still. The other `MC...` modules give
constants that a configuration cannot.

## 3. What is checked

Runs that pass:

| run | instance | what it shows |
|---|---|---|
| `flow_timeouts` | a UDP and an ICMP conversation and a flow that is its own reversal, 4 packets, times 1 to 5, idle 2, active 3, limit 3, one flush and a final one | hash table, queues and counters agree; the active queue is in idle order, so that a flush misses no idle flow; the two directions of a conversation are one flow; every packet is in one flow, which has its key and times; the pieces of a flow are linked; a closed flow is frozen |
| `flow_tcp_silk` | a TCP connection, flags ACK, FIN+ACK or RST, 4 packets of one octet, times 1 to 3, uniflow export, SiLK counters of at most 2 octets, an early flush after one closed flow | records are written once, a clean final flush writes all, a write error (also between the two records of a flow) loses one flow, the reverse record starts with the first reverse packet; the end reason is the true one; flows are split before their counter overflows, and the pieces are marked and linked |
| `meter` | up to 5 packets in groups of 2, a ring of 3, rotation after 1, statistics after 2, lock files, signals and failures anywhere | the ring always has a slot and no unfilled slot is processed, output and lock go together and are gone at the end, rotation is in time, exit status 0 means that all accepted packets were handed to an output and that each output was closed with a flush (which may fail unnoticed), and after a signal, the end of input or an error the program ends |
| `frag` | a UDP datagram of three fragments, a TCP datagram of two and one of two of a protocol without ports; 5 fragments in any order, with repetitions, times 1 to 5, timeout and pruning delay 2, limit 3 | queue and table agree and a node is gone in timeout plus delay, pruning brings the table below its limit, datagrams are passed on whole, with their own ports (a protocol without ports has none if its first fragment came first), and exactly when they are complete |
| `stages` | sequence tracker: 5 segments of up to 3 octets at any place around a wrap, a stack of 2 gaps. Other trackers: 4 segments of 6 kinds in both directions at times 1 to 3, numbers modulo 8. Decoder: 49 frames of every link type, shims, both IP versions, fragments (also with an offset outside of the mask), options (also too short ones) and tunnels, cut at every length that matters, for all its modes. Detuner: 4 packets, times 1 to 5. Statistics: 3 signals, 3 packets | gaps stay ordered, losses are never missed, and gaps and counts are exact under the stated conditions; every round trip observation is the time between a segment and an answer to it, and the smoothed value is within the samples; the final acknowledgement is the latest; an accepted packet's fields are of one IP header of its own frame and the transport header after it, and its payload length is right, with two exceptions that are named below; the bucket is a leaky bucket; delayed packets stay in order; no statistics request is forgotten |
| `files` | 3 processes on one lock file; 2 programs on 2 files; filedaemon with 2 files of 2 and 1 blocks; airdaemon with 6 settings, life times up to 4 | release leaves no lock file, and one left by a killed process is removed; a file has one program at a time, is done once and is never lost; each child gets its file whole and all its output is kept; the backoff is the documented one |
| `support` | Export: 6 flows, templates with every element, with TCP elements that enable nothing, and with reverse elements, messages of 2 entries, 4 calls, 2 outputs, a failure at any message; 43 command lines and documents of 2 keys. A ring of 3 slots and 2 values; 2 pickable queues and 4 nodes; unbounded behaviours. 4 insertions of 6 prefixes in 3 bits and MAC addresses | every record can be decoded from what came before it; none is lost without an error; fields are of the direction of the key, and set but for TCP fields of a silent direction, an unknown frequency or a template without trackers; settings and template reach the stages; the ring's pointers agree and it implements `Fifo`; links and ends of the queues are those of the sequences; every address finds its own prefix |

### Bounds

Constants of the code are small in the instances, and their order is kept: a flow can
outlive the idle and the active timeout, a flush can be due by time and by the length of
the close queue, the limit on flows can be met before the end. `MaxPkts = 4` suffices
for two flows that alternate, for FIN, ACK, FIN, ACK, and for a flow that is cut twice;
`MaxTime` is larger than the sum of a timeout and one more step. `OctMax` is met by the
third packet of a direction. Two groups and a half fill the ring and empty it more than
once. Fragments: the largest datagram can be completed and two repetitions or fragments
of others interleave; two pruning passes fit in the time. Gaps: the stack overflows with
the third gap, and the numbers wrap in the middle. Four segments allow a wait in each
direction, its answer, and a wait that is replaced. The decoder decodes one frame per
behaviour: the buffer begins with every field `Stale`, as it is after any packet. Four packets fill the bucket, overflow it and
see it after a drop. Messages of two entries make every second entry an emission, so that a failure
falls before, between and after template and record; two outputs make a second session. Two keys
let a key be given twice and an error follow a good key. Ring, pickable queues, lock files and `Mio`
have no bound on the number of steps. Runs on bounded inputs stop when the input is used up, so
they do not check deadlock; `meter` does.

### Fairness

`MeterSpec` has weak fairness of the loop's own steps: the process is scheduled and a
read returns, with a packet, the end of the input or an error. `DecodableSpec` adds weak
fairness of a read that does not give yet another packet that the decoder drops; it is
used for `QuitEnds`, which does not hold without it: the inner loop does not look at the
quit flag. Signals, failures and the end of the input are under no fairness. In `AirLock`,
and so in `FilesSpec`, some process keeps trying to open the output (weak fairness of
`OpenLock`), and is not killed every time just before its `unlink` (strong fairness of
`GiveUp`); nothing forces a process to give up a lock or to be killed.

### Disagreements between the code and its documentation

Each of these is a run that ends with a counterexample; `PROJECT.json` quotes the lines.

| run | the code | what is said |
|---|---|---|
| `meter_end_of_input` | the packets of the last, incomplete group are dropped (`qofltrace.c:231`) | packets are read and flows exported |
| `frag_ipv6` | an IPv6 fragment is never the last (`decode.c:852`) | IPv4 and IPv6 are reassembled |
| `airlock_exclusion` | who is refused the lock removes the file of its holder (`airlock.c:85`) | concurrent access protection |
| `frag_ports` | a datagram of a protocol without ports whose first fragment comes late gets the ports of an earlier packet (`yafrag.c:243`, `yafrag.c:485`) | "No layer 4 header we understand. Zero ports." |
| `export_unset` | TCP fields of a template that enables no tracker are exported unset (`yafcore.c:1029`, `yaftab.c:757`) | "If present in the template, enables TCP options parsing." |

The models contain more, for which no run is kept. The passing runs of the same components are
restricted to behaviours without these cases (`Ordinary` datagrams, those that do not overlap and
have their transport header in the first fragment, `DecodableSpec`, the
premises of `GapsMatchStream`, `BucketIsLeaky`, `DelayedInOrder`, `LookupsFindAdded`, `RecordsDecodable`,
`TemplateReachesStages`), or state what still holds.

Packets and tables:

- without a fragment table, IPv6 fragments are told by the masks of IPv4, so that a last fragment with
  only the highest bits in its offset is decoded as a packet (`decode.c:856`), while `decode.h:279-281`
  says that all are dropped (`Misread` in `Decode`);
- a window scale option of two octets is given the octet after it, whatever that is (`decode.c:1003`,
  `OptionRead` in `Decode`);
- the loop over undecodable packets does not look at the quit flag (`qofltrace.c:215`),
  while the manual says that SIGINT and SIGTERM end input processing;
- standard output is locked and other names of one letter are not (`yafout.c:98`); the
  comment says "lock, but not stdout" (`Locks` in `Meter`);
- a TCP header that is not in the first fragment is never found, because nothing fills the
  node's payload (`yafrag.c:347`, `yfDefragTCP`); a fragment inside
  another one hides that a datagram is complete (`yafrag.c:337`, `Fit`);
- an output that cannot be closed loses what it had buffered, and the program still exits with status 0
  (`yafout.c:132`, `closes` in `Meter`);
- some packets are rejected without a counter that `yfDecodeUndecodedCount` adds up
  (`RejectSilently`); inside GRE the fragment information of the outer header is reset
  and the payload length may wrap, so `PayloadLength` is stated outside of tunnels.

Trackers and detuner:

- a segment fills at most one gap, and only from its own start (`qofseq.c:109`), while the
  comment at `qofseq.c:103` says "Segment might fill multiple gaps";
- each wrap of sequence numbers adds 2^32 too much to the count (`qofseq.c:274`);
- a retransmission makes the largest jump almost 2^32 (`qofseq.c:208`, `TrackJump`);
- splitting the lowest gap of a full stack counts all of it as lost (`qofseq.c:156`, `Filled`);
- interarrival and timestamp statistics are only updated by the sequence tracker
  (`yaftab.c:746`), which their elements do not enable;
- a packet that is not delayed, after one that is, goes back in time (`qofdetune.c:108`), and after
  a drop the same interval drains the bucket again (`qofdetune.c:60`); what drains is truncated to octets at
  each packet, so that a bucket may stay up to an octet per packet too full.

Configuration and addresses:

- the refresh of UDP templates is converted to milliseconds twice (`qofconfig.c:894`), and its
  default is 60 s where the help text says 600 s;
- the test for an interface map's keys is inverted (`qofconfig.c:518`), so documented maps are
  refused; IPv6 networks that begin with a decimal digit are read as IPv4, and those
  of address zero are passed over;
- `lastTcpRttMilliseconds`, `tcpRttSampleCount`, `tcpLossEventCount` and `reverseTcpSequenceCount` do
  not enable what the manual says (`qofconfig.c:63`, `NotInTable` in `Config`), nor does `observedTcpMss`,
  which is the run `export_unset`;
- a second `template` key keeps what the first enabled; beyond the limit of the export
  specification only full-length forms are copied;
- `active-timeout-octets`, `-packets` and `-rtts` are parsed and not used; `--become-group` alone is ignored;
- a second MAC address that differs from the first is put in front of it by code that
  does not work (`qofmaclist.c:42`, "crash" in `AddrMaps`).

Export:

- a statistics record that fails half way leaves the statistics structure as the internal
  template, and the failure is ignored (`qofltrace.c:240`): the next flow is encoded from the wrong structure;
- flows turned round by the source networks keep their interfaces, MAC addresses and times;
- one-way flows in forced biflows have fields nothing sets (`"unset"` in `Contents`); the form
  with reduced lengths is chosen by octets and packets alone.

Airframe:

- `filedaemon` processes a file twice when an exit is noticed after the unlock, goes on
  without the lock and then removes another's (`filedaemon.pod:95` says it skips the file), and may
  feed a file to the child of an earlier one;
- `mio`: a file left by a quit goes on as good, one that could not be linked is still deleted, a locked output is retried at
  once and for ever, and a sink that fails to close leaves its output;
- `airdaemon`: a pid file that cannot be written leaves the child running and unwatched.

## 4. What is proved

The theorems hold for every value of the constants that satisfies the `ASSUME`s of the
module: any set of keys closed under reversal, any timeouts, limits, packet lengths and
number of packets; any ring of at least one slot; any number of queues, nodes, programs,
files and signals. TLC evaluates the same assumptions on every run. Each theorem states
a property that a run also checks: section 3 has an instance of it, with a fault in the
code that breaks it, and every invariant and every safety action property of the runs has its theorem.
Almost none of the invariants is inductive as it stands; the
strengthening is named below, with the reason for it.

### FlowTableProofs

- `TypeCorrect`: `Spec => []TypeOK`;
- `TableAlwaysMatches`: `Spec => []TableMatchesQueues`;
- `IdleOrderHolds`: `Spec => []IdleOrder`;
- `OneFlowHolds`: `Spec => []OneFlowPerConversation`;
- `FlushClosesAllIdle`: `Spec => FlushLeavesNoIdle`, an action property.

That the tick keeps the queue in idle order
needs that the packet's time is not before `ctime` and that no last packet is later than
`ctime`; that closing takes the right node out of the queue needs that the table and the
queue hold the same nodes, each once; that a new node does not put a second direction in
the table needs that both keys were looked up; and counters agree only if each close
finds its node in the queue. The inductive invariant `IInv` is `TypeOK` with
`WellFormed(ft, 0, 0)`, which is the conjunction of all of them on a table. `WellFormed`
has two more parameters because a packet is a sequence of operations between which the
invariant does not hold: a node that was just made is in the hash table and counted but
not yet in the queue, and one whose packet was counted has a last time that is no longer
in order. The parameters name those nodes. Each operation of the table has a lemma that takes a
well-formed table to a well-formed table with other parameters, a packet is their
composition, and a flush is a lemma about closing the oldest `n` flows, used three times,
and one about taking `n` flows from the close queue. `FlushClosesAllIdle` uses idle
order: the loop stops at a flow that is not idle, and all behind it are later.

### FlowHistoryProofs

- `PacketsAlwaysInFlows`: `Spec => []PacketsInFlows`;
- `EndReasonsJustified`: `Spec => []EndReasonJustified`;
- `ExportsComplete`: `Spec => []ExportComplete`;
- `SilkFlowsHold`: `Spec => []SilkFlows`;
- `ClosedFlowsFrozen`: `Spec => ClosedFlowFrozen`, an action property.

These relate the table to the log of accepted packets and to the output. The inductive
invariant `HInv` adds to `IInv`:

- `History`: every packet is counted in one node (`Counts`); a node's key, times,
  counters and connection state are what its own packets make them (`NodeHistory`); the
  nodes of a conversation follow each other and have the IDs and continuation marks that
  the way the earlier one was closed gives them (`Links`); a closed node has a reason that was
  true at the packet or flush that closed it (`Ended`); and a node is in one of the two
  queues, written or lost (`Places`);
- `LostOne`: nothing is lost unless a write failed, and then one flow;
- after the final flush both queues are empty.

The state of the TCP teardown is the hard part. The property says which packets tear a
connection down; the code sets five bits as packets come. `NodeHistory` says of each bit which
packets of the log set it (a RST, a FIN of a direction, or a later ACK of the other one), so that
the equivalence of the two is a lemma about one log. That SiLK counters do not
overflow needs that a single packet fits: `iplen` has 16 bits, and `InputAssumption` says
that no length is above `OctMax`.

### MeterProofs

- `RingAlwaysHasSlots`: `MeterSpec => []SlotsFilled`;
- `OutputsArePaired`: `MeterSpec => []OutputPaired`;
- `CleanExitsAreComplete`: `MeterSpec => []CleanExitFlushed`.

`MeterInv` is `IInv` of the flow table, which `Meter` extends, with the type of the loop's
variables, `RingInv` (how many slots are in use at each place of the loop, and that those are
filled), `OutputInv` (which of buffer, lock and rotation there is at each place),
`ErrorInv` (as long as no error was noted, nothing was lost and the table is
open) and `CloseInv` (every output but the present one was closed, none of them without a flush). `CleanExitFlushed` needs all of them: an exit is clean only if every open and
write was, and then the final flush emptied both queues, which is the lemma about flushes
of `FlowTableProofs`.

### FragTableProofs

- `FragmentQueueMatches`: `Spec => []FraqMatches`;
- `PruningKeepsLimit`: `Spec => PruneKeepsLimit`, an action property;
- `ReassembledIsWhole`: `Spec => []AssembledWhole`;
- `CompleteIsReassembled`: `Spec => []CompleteIsAssembled`.

`FragInv` is `FragWF` (table, queue and count hold the same nodes, each once and in the order
of their last fragments) with `Timely` (what the last pruning pass left and when the next is due);
that a node is gone in time needs both. For reassembly `ReassemblyInv` adds that each node's records
are fragments of its own datagram, its flags say which of the first and the last it holds, and its ports
are those of the datagram once a transport header was seen. That sorted records without a hole add up
to the whole datagram is shown for each octet by the last record that does not begin after it.

The last two theorems have hypotheses on the datagrams, which are part of what they say.
`Pieces(d)`: the datagram was fragmented once, so that fragments are equal or disjoint and
make up the datagram; the code does not look for overlaps. That is all `ReassembledIsWhole` assumes: the
property itself says which ports a datagram of a protocol without ports may have. `HeaderCaptured(d)` and version 4: the first fragment holds the transport header;
for IPv6 the property fails, which run `frag_ipv6` shows. The datagrams of run `frag` satisfy
them (`OrdinaryAssumption` of `MCFragTable`).

### ExportProofs

- `RecordsAlwaysDecodable`: `ExportSpec => []RecordsDecodable`;
- `RecordsAlwaysReachOutput`: `ExportSpec => []RecordsReachOutput`;
- `RecordFieldsAlwaysSet`: `ExportSpec => []RecordFieldsSet`;
- `SettingsAlwaysReachStages`: `ConfigSpec => []SettingsReachStages`;
- `TemplateAlwaysReachesStages`: `ConfigSpec => []TemplateReachesStages`.

`ExportInv` is `StreamInv` with `LedgerInv`. `StreamInv`: what is in the file and the message
is decodable, every template that the session knows of is in the stream, an output that is
open runs a session whose internal template is that of flow records unless a statistics
record failed, and one that is closed has nothing left. `LedgerInv`: the counts are right, and
an error that was noted was a fault of emission. The templates of an output are a fold over a
set of template IDs; `ExportFolds` proves first that the library's `FoldSet` satisfies its own
recursion. `LastInv`, for the fields, says that the record was made from a flow and has
TCP fields only if the flow is of TCP. Nothing is assumed of the flows but the types of their
entries, and nothing of the templates: which TCP fields are unset follows from `HasTcp`.

`ConfigInv` relates the context to what was asked for so far: the numbers and switches are those of
the last occurrence of their key or the default (`AsAsked`), the options are those of the command line as far
as the stages of `main` have come (`AsCommanded`), lists and template enabled what they should
(`InUse`, `Templated`), and once stages run they were started with that (`StartedWith`). What
a list or a template does is a fold over its items; a fold is compared with the set of items by an
invariant of each prefix. `ConfigAssumption` says that list nodes are sequences, that times
on the command line are numbers, and that an export specification has room for more than one element.

### StagesProofs

- `StatRequestsServed`: `StatSpec => []StatRequestServed`. `StatInv` places the counter at each
  instruction of the loop: the value loaded is not above it, because signals only add.
- `DelayedPacketsInOrder`: `DetuneSpec => []DelayedInOrder`, with the delayed time of the last
  packet as the bound of all before it.
- `BucketAlwaysLeaky`: `DetuneSpec => []BucketIsLeaky`. `BucketInv` has both bounds of the level: some run of
  packets has a backlog that it does not exceed by more than an octet per packet, and as long as none was dropped no
  run has a larger one. One packet adds itself to every run, and what drains in two intervals is, but for the
  truncation, what drains in both. Backlogs are sums over sets of packets.
- `ObservationsAreRoundTrips`: `TcpSpec => []ObservationIsRoundTrip`. `RttInv` says of each wait
  which segment of the history began it, and of each observation its two segments; the smoothed
  value is a quotient between two bounds.
- `FinalAcksAreLatest`: `TcpSpec => [](AcksInWindow => FinalAckIsLatest)`. `AckInv`: the final acknowledgement is one
  of the segments', and none is later. Comparison modulo the space is not transitive, so three numbers
  are compared by their distance from one origin; `AcksInWindow` says that there is an origin from which all
  acknowledgements of a direction are less than half the space away. Without it, after 2 GiB, the property is false.
- `BuffersAlwaysValid` and `PayloadLengthsRight`: `DecodeSpec => []BufferValid` and
  `DecodeSpec => []PayloadLength`. `DecodeInv` says for each place of the walk which fields were read, from which header
  (`AddressRead`, `OptionsRead`, `TransportRead`), and that the pointer is the sum of the lengths of the
  headers passed (`PointerRight`); the octets left are then the sum over the headers that follow. What the
decoder reads where nothing is to be read is part of both: the header after a misread fragment and the octet `after` a
short option, and the theorems say that there is no other such read. That a
  transport header is the last one, and that options fill the header they are in, is `IsFrame`; a frame may still
  be cut at any octet.
- `GapsAlwaysMatchStream`: `Spec => []GapsMatchStream` of `SeqTrack`, under `ShortStream`. `SeqInv` says that
  there are numbers of the stream, `lo` and `hi`, that the cells of the gap array stand for: in order, apart from each other and
  below `top` (`Stack`), so that what is asked of sequence numbers modulo the space is asked of plain numbers
  (`SeqnosCompare`). A push and the four ways to fill a gap are lemmas about these (`StackPushed`,
  `StackShifted`, `StackTrimmed`, `StackSplit`). Each octet not seen is in one of them or among at most
  `seqlost` others (`Missed`), and while none was given up and no segment was seen in part, none in them was
  seen (`Exact`). The loss reported is then a sum of sizes that is the cardinality of a union of intervals (`GapsAddUp`).
  The hypothesis is needed for the comparisons, not for the wrap of sequence numbers: the initial number is any.
  It also leaves out segments that reach from before the first octet into the stream, which TCP does not send.

### FilesProofs

- `LockFilesOwned`: `Spec => []LockFileOwned`, which needs little more than its types;
- `SourcesOwned`: `MioSpec => []SourceOwned`. `MioInv` gives for each place of `mio_dispatch`
  what the program holds (`MioOpen`), one owner for each file (`MioOwners`), where files are that are done
  (`MioDone`) and whose the outputs are (`MioOutputs`); it is kept by a kill at each place.
- `BackoffIsTruncated`: `AirDaemonSpec => []BackoffTruncated`. `DaemonInv` has the delay as the
  truncated power of two of the early failures so far; the power is a recursive function.
- `FilesProcessedWhole`: `FileDaemonSpec => []ProcessedWhole`, with `FdInv`: what each child
  was given and wrote, block by block, and where each file is.

### ContainersProofs

- `PointersAlwaysAgree`: `Spec => []PointersAgree`, which is inductive as it stands;
- `RingImplementsFifo`: `Spec => RingIsFifo`, from `PointersAgree` and one lemma per call
  on what it does to the sequence `Entries(slot, tail, count)` (append, tail, and both);
- `QueuesKeepTheirPointers`: `PicqSpec => []PointersMatch`. `PicqInv` adds that a node is at one place of
  one queue, without which taking it out of one would cut another. It is what allows `FlowTable` and
  `FragTable` to use sequences for `picq.c`;
- `LookupsAlwaysFindAdded`: `AddrSpec => []LookupsFindAdded`. `AddrInv`: as long as no entry was shifted over another,
  each array holds what was added, in order. The binary search halves an interval outside of which no entry holds the
  address, and prefixes that do not overlap have at most one that does. The prover knows
  nothing of powers; that those of two are positive is `MaskAssumption`, which TLC evaluates.

### How recursion is dealt with

The induction theorems of the library take an operator as a parameter, which the provers
cannot instantiate. Where a proof needs induction over data it goes by the least
counterexample: a nonempty set of naturals has a least element (`WellFoundedInduction`), and a set is
first-order. That is how the power of two in `BackoffTruncated`, the folds in `Export` and
`Config`, the sums in `Detune` and `Decode` and the loop over expired fragments are handled. A
recursive function, such as the search in `AddrMaps` or the sum of the gaps in `SeqTrack`, is a `CHOOSE`: the
proof shows a function that satisfies the recursion and that two of them agree. A fold that takes an operator is
given a number (a tag) in the proof for each operator it is used with. Other loops are
modelled by the number of their rounds, never by a recursive operator.

### What is only model-checked

Liveness (`QuitEnds`, `OrphanRemoved`): fairness is out of the prover's reach.

## 5. What is not modelled

- The contents of records: values are abstracted to where they come from. In `Meter` a record is
  written at once; the message buffer, and failures when it is flushed, are in `Export`.
- Interarrival statistics, timestamp frequencies, means and variances (floating point).
- The C memory model: a node that is freed keeps its contents here, and is never used
  again by the operators, which is a property of the translation and not of the code.
- The tokens of command line and YAML, which libraries parse; the text of logs and of printed flows;
  the reader at the end of `yafcore.c`, which is not compiled; the threaded ring, likewise.
- `mio` on sockets, pcap and standard streams, in directory and single file mode, and its
  configuration; `filedaemon` without `--lock`. QoF uses none of these.
- `bitmap.c` (unused), the rest of the airframe (option tables, daemonizing, printing: straight
  calls of system functions) and the Python tools, which read QoF's output.

## 6. Plan

What is left is breadth. Of the parts not modelled, the interarrival statistics could be modelled with
fractions in the place of floating point; `mio` on directories has the same steps as its glob mode with other
names; and `Meter` and `Export` could be composed, to show that what `Meter` writes at once is what `Export`
has in its messages. Of the hypotheses of theorems, `ShortStream` could give way to segments that
stay within half the space of the top instead of a stream that does, which the gaps need as well.
