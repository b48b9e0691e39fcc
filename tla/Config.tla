------------------------------- MODULE Config -------------------------------
(***************************************************************************)
(* Startup (src/src/qof.c, src/src/qofconfig.c and the privilege and log   *)
(* settings of the airframe): from the command line and the YAML document  *)
(* to the arguments of the decoder, the flow table, the fragment table and *)
(* the output.  The export template selects what is tracked.               *)
(*                                                                         *)
(* The YAML parser is not part of src/.  A document is a sequence of keys  *)
(* with nodes, a node is [kind, items], and the text of a scalar is        *)
(* abstracted to a number, the name of an information element or a class   *)
(* of addresses.  Times are small enough for 32 bits.                      *)
(***************************************************************************)
EXTENDS Integers, Sequences, SequencesExt, FiniteSets

CONSTANTS
  CommandLines,   \* records of options; NONE for one that is not given
  DocNodes,          \* pairs of a key and its node
  SpecSize,       \* QOF_EXPORT_SPEC_SZ
  MaxKeys,        \* bound: keys of a document
  NONE

ASSUME ConfigAssumption ==
  /\ SpecSize \in Nat /\ SpecSize > 1 /\ MaxKeys \in Nat /\ NONE \notin Nat
  /\ \A o \in CommandLines : {o.rotate, o.stats, o.rtx} \subseteq Nat
  /\ \A kn \in DocNodes : kn[2].items \in Seq(ToSet(kn[2].items))

VARIABLES
  opts,     \* the command line
  stage,    \* what main does next, or "exit"
  ctx,      \* qfctx and the settings of the writer
  args,     \* what the stages were started with
  asked     \* history: keys read, with their values, and bad ones
configVars == <<opts, stage, ctx, args, asked>>

(* The tables of qofconfig.c.                                              *)
cfg_key_actions ==
  [U32 |-> {"active-timeout", "idle-timeout", "max-flows", "max-frags", "active-timeout-rtts"},
   U64 |-> {"active-timeout-octets", "active-timeout-packets"},
   BOOL |-> {"force-biflow", "gre-decap", "silk-compatible"}]

cfg_ie_features ==
  ({"sourceIPv4Address", "destinationIPv4Address"} \X {"ipv4"})
  \cup ({"sourceIPv6Address", "destinationIPv6Address"} \X {"ipv6"})
  \cup ({"sourceMacAddress", "destinationMacAddress", "vlanId"} \X {"mac"})
  \cup ({"tcpSequenceCount", "maxTcpSequenceJump", "tcpSequenceLossCount",
         "tcpRetransmitCount", "tcpSequenceJumpCount", "tcpLossEventCount"} \X {"seq"})
  \cup ({"tcpDupAckCount", "tcpSelAckCount"} \X {"ack"})
  \cup ({"minTcpRttMilliseconds", "tcpRttMilliseconds", "tcpLossEventCount"} \X {"rtt"})
  \cup ({"minTcpRwin", "meanTcpRwin", "maxTcpRwin"} \X {"rwin", "tcpopt"})
  \cup ({"tcpTimestampFrequency"} \X {"ts", "tcpopt"})
  \cup ({"minTcpChirpMilliseconds", "maxTcpChirpMilliseconds"} \X {"ts", "iat", "tcpopt"})
  \cup ({"meanTcpChirpMilliseconds"} \X {"iat", "tcpopt"})
  \cup ({"minTcpIOTMilliseconds", "maxTcpIOTMilliseconds"} \X {"iat"})
  \cup ({"minTcpRttMilliseconds", "tcpRttMilliseconds", "qofTcpCharacteristics",
         "declaredTcpMss", "tcpSelAckCount"} \X {"tcpopt"})

cfg_default_ies ==
  <<"flowStartMilliseconds", "flowEndMilliseconds", "octetDeltaCount",
    "reverseOctetDeltaCount", "packetDeltaCount", "reversePacketDeltaCount",
    "sourceIPv4Address", "destinationIPv4Address", "sourceIPv6Address",
    "destinationIPv6Address", "sourceTransportPort", "destinationTransportPort",
    "protocolIdentifier", "flowEndReason">>

(* Elements of the internal template: those above but one, those without a *)
(* feature, and the reverse ones.  Some have a full and a reduced length.  *)
ReverseIEs == {"reverseOctetDeltaCount", "reversePacketDeltaCount", "reverseTcpSequenceCount"}
Exportable ==
  (({p[1] : p \in cfg_ie_features} \cup ToSet(cfg_default_ies)) \ {"tcpRttMilliseconds"})
  \cup ReverseIEs \cup {"lastTcpRttMilliseconds", "tcpRttSampleCount", "observedTcpMss"}
Copies(ie) ==
  IF ie \in ReverseIEs \cup {"octetDeltaCount", "packetDeltaCount", "tcpSequenceCount",
                           "tcpSequenceLossCount", "tcpRetransmitCount", "tcpDupAckCount",
                           "tcpSequenceJumpCount", "tcpLossEventCount", "tcpSelAckCount"}
  THEN <<ie, ie>> ELSE <<ie>>

(* The entry that does not fit is left out without a word.                 *)
yfWriterExportIE(c, ie) ==
  LET room == SpecSize - 1 - Len(c.spec)
      n == IF Len(Copies(ie)) <= room THEN Len(Copies(ie)) ELSE room
  IN  IF room <= 0 \/ ie \notin Exportable THEN [c EXCEPT !.ok = FALSE]
      ELSE [c EXCEPT !.spec = @ \o SubSeq(Copies(ie), 1, n)]

(* Fault: the search of the table stops at the first entry.                *)
ConfigIEFirst(c, ie) ==
  LET new == yfWriterExportIE(c, ie)
      fs == {f \in {"ipv4", "ipv6", "mac", "seq"} : <<ie, f>> \in cfg_ie_features}
  IN  IF ~c.ok \/ ~new.ok THEN [c EXCEPT !.ok = FALSE]
      ELSE [new EXCEPT !.biflow = @ \/ ie \in ReverseIEs,
                       !.enable = @ \cup IF fs # {} THEN fs
                                         ELSE {p[2] : p \in {q \in cfg_ie_features : q[1] = ie}}]

qfConfigIE(c, ie) ==
  LET new == yfWriterExportIE(c, ie)
  IN  IF ~c.ok \/ ~new.ok THEN [c EXCEPT !.ok = FALSE]
      ELSE [new EXCEPT !.biflow = @ \/ ie \in ReverseIEs,
                       !.enable = @ \cup {p[2] : p \in {q \in cfg_ie_features : q[1] = ie}}]

----------------------------------------------------------------------------
(* The main program starts: everything zero, then the defaults.            *)
mebiflow == 1024 * 1024
kfrags == 256 * 1024
qfConfigDefaults ==
  [scalar |-> [k \in UNION {cfg_key_actions[t] : t \in {"U32", "U64", "BOOL"}} |->
                 CASE k = "active-timeout" -> 300 [] k = "idle-timeout" -> 30
                   [] k = "max-flows" -> mebiflow [] k = "max-frags" -> kfrags [] OTHER -> 0],
   enable |-> {}, biflow |-> FALSE, spec |-> <<>>, ifmap |-> <<>>, nets |-> {}, macs |-> {},
   uses |-> {}, rotate |-> 0, rtx |-> 0, stats |-> 0, detune |-> NONE, out |-> NONE,
   user |-> NONE, ok |-> TRUE]

ConfigInit ==
  /\ opts \in CommandLines
  /\ stage = "options"
  /\ ctx = qfConfigDefaults
  /\ args = NONE
  /\ asked = [scalar |-> <<>>, templates |-> 0, lists |-> {}, bad |-> FALSE, keys |-> 0]

Exit == stage' = "exit" /\ UNCHANGED <<opts, ctx, args, asked>>

(* Privileges: users and groups of the system and their numbers.           *)
Uid(name) == IF name = "root" THEN 0 ELSE 99
Exists(name) == name # "nosuch"
privc_setup ==
  IF opts.root THEN opts.user # NONE =>
                      Exists(opts.user) /\ (opts.group # NONE => Exists(opts.group))
  ELSE opts.user = NONE /\ opts.group = NONE
new_user == IF opts.root /\ opts.user # NONE THEN Uid(opts.user) ELSE 0
privc_become ==
  IF ~opts.root THEN {"become"}
  ELSE IF new_user = 0 THEN {"nodrop"} ELSE {"become", "failed"}

(* The log: its level and where it goes.                                   *)
log_levels == {"debug", "info", "message", "warning", "critical", "error", "quiet"}
log_facilities ==
  {"auth", "authpriv", "console", "cron", "daemon", "ftp", "lpr", "mail", "news", "security",
   "user", "uucp"} \cup {"local0", "local1", "local2", "local3", "local4", "local5", "local6",
   "local7"}
logc_setup ==
  /\ opts.loglevel \in log_levels \cup {NONE}
  /\ opts.log \in {NONE, "stderr", "file"} \cup log_facilities

(* Fault: the periods stay in seconds.                                     *)
MillisecondsNot(sec) == sec
Milliseconds(sec) == 1000 * sec

(* A bucket needs a rate; without one the random part may still be used.   *)
Detuned ==
  IF {opts.bucket_max, opts.bucket_rate, opts.delay_max, opts.drop_p} = {0} THEN NONE
  ELSE IF 0 \in {opts.bucket_max, opts.bucket_rate}
    THEN [max |-> 0, rate |-> 0, delay |-> opts.delay_max, drop |-> opts.drop_p]
    ELSE [max |-> opts.bucket_max, rate |-> opts.bucket_rate, delay |-> opts.delay_max,
          drop |-> opts.drop_p]

yfParseOptions ==
  /\ stage = "options"
  /\ \/ /\ logc_setup /\ privc_setup
        /\ ctx' = [ctx EXCEPT !.rotate = Milliseconds(opts.rotate), !.detune = Detuned,
                              !.stats = Milliseconds(opts.stats),
                              !.rtx = Milliseconds(opts.rtx),
                              !.out = opts.out]
        /\ stage' = "yaml" /\ UNCHANGED <<opts, args, asked>>
     \/ ~(logc_setup /\ privc_setup) /\ Exit

----------------------------------------------------------------------------
(* The document.  RequireEvent and ParseValue: a node of the right kind.   *)
qfYamlRequireEvent(c, node, kind) == [c EXCEPT !.ok = @ /\ node.kind = kind]

(* Integers must begin with a number; of a Boolean only a leading 0 counts.*)
Word == -1   \* a text that begins with something else
qfYamlParseU(c, key, v) ==
  IF v \in Nat THEN [c EXCEPT !.scalar[key] = v] ELSE [c EXCEPT !.ok = FALSE]
qfYamlParseBool(c, key, v) == [c EXCEPT !.scalar[key] = IF v = 0 THEN 0 ELSE 1]

(* Classes of addresses by their first character and their value.  An IPv6 *)
(* prefix that begins with a digit is taken for an IPv4 address.           *)
qfYamlParsePrefixedV4(v) == v \in {"v4", "v4zero"}
qfYamlParsePrefixedV6(v) == v \in {"v6digit", "v6letter", "v6colon"}
qfYamlParsePrefixedV4Or6(v) == v \in {"v4", "v4zero", "v6letter", "v6colon"}
qfYamlParseMac48(v) == v = "mac"

qfYamlTemplate(c, node) ==
  FoldLeft(qfConfigIE, qfYamlRequireEvent([c EXCEPT !.spec = <<>>], node, "sequence"), node.items)

(* The comparisons are the wrong way round: ip4-net is read as an IPv6     *)
(* prefix, every other key as an IPv4 one, and no key sets the interfaces. *)
qfYamlParseMapEntry(e, pair) ==
  IF pair[1] # "ip4-net"
  THEN [e EXCEPT !.ok = @ /\ qfYamlParsePrefixedV4(pair[2]), !.v4 = pair[2] = "v4"]
  ELSE [e EXCEPT !.ok = @ /\ qfYamlParsePrefixedV6(pair[2]), !.v6 = pair[2] \in {"v6digit", "v6letter"}]

(* The interfaces hold what was on the stack: large says if over 255.      *)
MapEntry(c, pairs, large) ==
  LET e == FoldLeft(qfYamlParseMapEntry, [ok |-> TRUE, v4 |-> FALSE, v6 |-> FALSE], pairs)
      v4 == IF e.v4 THEN <<"v4">> ELSE <<>>
      v6 == IF e.v6 THEN <<"v6">> ELSE <<>>
  IN  IF ~e.ok THEN [c EXCEPT !.ok = FALSE]
      ELSE [c EXCEPT !.ok = @ /\ ~large, !.ifmap = @ \o v4 \o v6]

qfYamlInterfaceMap(c, node, large) ==
  LET all == FoldLeft(LAMBDA d, pairs : MapEntry(d, pairs, large),
                      qfYamlRequireEvent(c, node, "sequence"), node.items)
  IN  IF all.ok THEN [all EXCEPT !.uses = @ \cup {"interface-map"}] ELSE all

(* An IPv4 prefix of address 0 and an IPv6 one of first octet 0 are        *)
(* accepted and left out.                                                  *)
qfYamlSourceNets(c, node) ==
  LET d == qfYamlRequireEvent(c, node, "sequence")
  IN  IF d.ok /\ \A v \in ToSet(node.items) : qfYamlParsePrefixedV4Or6(v)
      THEN [d EXCEPT !.nets = @ \cup (ToSet(node.items) \cap {"v4", "v6letter"}),
                     !.uses = @ \cup {"source-net"}]
      ELSE [d EXCEPT !.ok = FALSE]

qfYamlSourceMacs(c, node) ==
  LET d == qfYamlRequireEvent(c, node, "sequence")
  IN  IF d.ok /\ \A v \in ToSet(node.items) : qfYamlParseMac48(v)
      THEN [d EXCEPT !.macs = @ \cup ToSet(node.items), !.enable = @ \cup {"mac"},
                     !.uses = @ \cup {"source-mac"}]
      ELSE [d EXCEPT !.ok = FALSE]

(* A key of the table with its scalar.                                     *)
qfYamlScalar(c, key, node) ==
  LET d == qfYamlRequireEvent(c, node, "scalar")
  IN  IF ~d.ok THEN d
      ELSE IF key \in cfg_key_actions.BOOL THEN qfYamlParseBool(d, key, node.items[1])
      ELSE qfYamlParseU(d, key, node.items[1])

(* The contexts after a key and its node; only one does not depend on the  *)
(* stack.                                                                  *)
KeyResults(key, node) ==
  CASE key = "template" -> {qfYamlTemplate(ctx, node)}
    [] key = "interface-map" -> {qfYamlInterfaceMap(ctx, node, large) : large \in BOOLEAN}
    [] key = "source-net" -> {qfYamlSourceNets(ctx, node)}
    [] key = "source-mac" -> {qfYamlSourceMacs(ctx, node)}
    [] key \in DOMAIN ctx.scalar -> {qfYamlScalar(ctx, key, node)}
    [] OTHER -> {[ctx EXCEPT !.ok = FALSE]}

qfYamlDocument(key, node) ==
  /\ stage = "yaml" /\ opts.yaml = "file" /\ asked.keys < MaxKeys
  /\ \E c \in KeyResults(key, node) :
       /\ ctx' = c
       /\ stage' = IF c.ok THEN "yaml" ELSE "exit"
       /\ asked' = [asked EXCEPT
            !.keys = @ + 1, !.bad = @ \/ ~c.ok,
            !.templates = @ + (IF key = "template" THEN 1 ELSE 0),
            !.lists = @ \cup ({key} \cap {"interface-map", "source-net", "source-mac"}),
            !.scalar = IF node.kind = "scalar" THEN Append(@, <<key, node.items[1]>>) ELSE @]
  /\ UNCHANGED <<opts, args>>

(* The end of the document, or no document.                                *)
qfConfigDotfile ==
  /\ stage = "yaml"
  /\ \/ opts.yaml \in {NONE, "file"} /\ stage' = "template" /\ UNCHANGED <<opts, ctx, args, asked>>
     \/ opts.yaml = "missing" /\ Exit

qfConfigDefaultTemplate ==
  /\ stage = "template"
  /\ LET c == IF ctx.spec = <<>> THEN FoldLeft(qfConfigIE, ctx, cfg_default_ies) ELSE ctx
     IN  ctx' = c /\ stage' = IF c.ok THEN "input" ELSE "exit"
  /\ UNCHANGED <<opts, args, asked>>

----------------------------------------------------------------------------
(* The input may fail to open, and is not read from a terminal.            *)
qfContextSetupInput ==
  /\ stage = "input"
  /\ \/ opts.in # "tty" /\ stage' = "privilege" /\ UNCHANGED <<opts, ctx, args, asked>>
     \/ Exit

DropPrivilege ==
  /\ stage = "privilege"
  /\ \E result \in privc_become :
       IF result = "failed" THEN Exit
       ELSE /\ ctx' = [ctx EXCEPT !.user = IF opts.root /\ result = "become" THEN opts.user ELSE NONE]
            /\ stage' = "output" /\ UNCHANGED <<opts, args, asked>>

Transport ==
  CASE opts.transport \in {"", "sctp"} -> IF opts.tls THEN "FB_DTLS_SCTP" ELSE "FB_SCTP"
    [] opts.transport = "tcp" -> IF opts.tls THEN "FB_TLS_TCP" ELSE "FB_TCP"
    [] opts.transport = "udp" -> IF opts.tls THEN "FB_DTLS_UDP" ELSE "FB_UDP"
    [] OTHER -> NONE

(* For UDP the period is multiplied again, or has a default.               *)
qfContextSetupOutput ==
  /\ stage = "output"
  /\ LET out == IF opts.transport = NONE /\ ctx.out \in {NONE, ""} THEN "-" ELSE ctx.out
         stop == \/ opts.transport # NONE /\ (ctx.out = NONE \/ Transport = NONE)
                 \/ opts.transport = NONE /\ ctx.out \in {NONE, ""} /\ ctx.rotate # 0
                 \/ out = "-" /\ opts.tty
         rtx == IF opts.transport # "udp" THEN ctx.rtx
                ELSE IF ctx.rtx = 0 THEN Milliseconds(60) ELSE Milliseconds(ctx.rtx)
     IN  IF stop THEN Exit
         ELSE /\ ctx' = [ctx EXCEPT !.out = out, !.rtx = rtx,
                  !.uses = @ \cup (IF "ipv6" \in ctx.enable /\ "ipv4" \notin ctx.enable
                                   THEN {"mapped"} ELSE {})
                             \cup (IF ctx.scalar["force-biflow"] # 0 THEN {"force"} ELSE {})]
              /\ stage' = "middle" /\ UNCHANGED <<opts, args, asked>>

(* The decoder, the flow table and, unless its limit is 0, the fragment    *)
(* table.                                                                  *)
qfContextSetup ==
  /\ stage = "middle"
  /\ args' =
       [reqtype |-> IF "ipv6" \in ctx.enable THEN "YF_TYPE_IPANY" ELSE "YF_TYPE_IPv4",
        gre |-> ctx.scalar["gre-decap"] # 0, silk |-> ctx.scalar["silk-compatible"] # 0,
        idle |-> Milliseconds(ctx.scalar["idle-timeout"]),
        active |-> Milliseconds(ctx.scalar["active-timeout"]),
        max_flows |-> ctx.scalar["max-flows"], uniflow |-> ~ctx.biflow,
        trackers |-> ctx.enable \ {"ipv4", "ipv6"},
        fragtab |-> IF ctx.scalar["max-frags"] # 0 THEN ctx.scalar["max-frags"] ELSE NONE]
  /\ stage' = "run" /\ UNCHANGED <<opts, ctx, asked>>

(* The loop has ended and everything is freed, whatever its result.        *)
qfContextTeardown ==
  /\ stage = "run"
  /\ stage' = "exit" /\ args' = NONE /\ UNCHANGED <<opts, ctx, asked>>

ConfigNext ==
  \/ yfParseOptions \/ qfConfigDotfile \/ qfConfigDefaultTemplate
  \/ \E kn \in DocNodes : qfYamlDocument(kn[1], kn[2])
  \/ qfContextSetupInput \/ DropPrivilege \/ qfContextSetupOutput \/ qfContextSetup
  \/ qfContextTeardown

ConfigSpec == ConfigInit /\ [][ConfigNext]_configVars

----------------------------------------------------------------------------
(* What the document gave last for a key, or else its default.             *)
Asked(key) ==
  LET given == {i \in DOMAIN asked.scalar : asked.scalar[i][1] = key}
      final == CHOOSE i \in given : \A j \in given : j <= i
  IN  IF given = {} THEN qfConfigDefaults.scalar[key] ELSE asked.scalar[final][2]

(* A program that runs does so with what it was asked for: no bad key was  *)
(* passed over, timeouts are those of the last key given and periods those *)
(* of the command line in milliseconds (the refresh of UDP templates, if   *)
(* given, excepted: it is converted twice), lists that were given are in   *)
(* use, a network export has its collector and rotated files their prefix, *)
(* and root privilege is gone if another user was named.                   *)
SettingsReachStages ==
  stage = "run" =>
    /\ ~asked.bad
    /\ args.idle = 1000 * Asked("idle-timeout")
    /\ args.active = 1000 * Asked("active-timeout")
    /\ args.silk = (Asked("silk-compatible") # 0)
    /\ (args.fragtab = NONE) = (Asked("max-frags") = 0)
    /\ ("force" \in ctx.uses) = (Asked("force-biflow") # 0)
    /\ ctx.rotate = 1000 * opts.rotate /\ ctx.stats = 1000 * opts.stats
    /\ ctx.rtx = (IF opts.transport = "udp" /\ opts.rtx = 0 THEN 1000 * 60
                  ELSE IF opts.transport = "udp" THEN ctx.rtx ELSE 1000 * opts.rtx)
    /\ asked.lists \subseteq ctx.uses
    /\ ("source-mac" \in asked.lists => "mac" \in args.trackers)
    /\ (opts.transport # NONE \/ opts.rotate # 0 => ctx.out # NONE)
    /\ (opts.root /\ opts.user # NONE /\ Uid(opts.user) # 0 => ctx.user = opts.user)

(* What qof.pod.in says an element of the template enables.                *)
DocumentedFeatures(ie) ==
  CASE ie \in {"sourceMacAddress", "destinationMacAddress", "vlanId"} -> {"mac"}
    [] ie \in {"tcpSequenceCount", "reverseTcpSequenceCount", "tcpRetransmitCount",
               "maxTcpSequenceJump", "tcpSequenceLossCount", "tcpSequenceJumpCount"} -> {"seq"}
    [] ie = "tcpLossEventCount" -> {"seq", "rtt", "tcpopt"}
    [] ie \in {"minTcpRttMilliseconds", "lastTcpRttMilliseconds", "tcpRttSampleCount"} ->
         {"rtt", "tcpopt"}
    [] ie \in {"declaredTcpMss", "observedTcpMss", "qofTcpCharacteristics"} -> {"tcpopt"}
    [] ie \in {"minTcpRwin", "meanTcpRwin", "maxTcpRwin"} -> {"rwin", "tcpopt"}
    [] OTHER -> {}

(* Of these, what the table of features lacks.                             *)
NotInTable ==
  ({"lastTcpRttMilliseconds", "tcpRttSampleCount"} \X {"rtt", "tcpopt"})
  \cup {<<"observedTcpMss", "tcpopt">>, <<"tcpLossEventCount", "tcpopt">>,
        <<"reverseTcpSequenceCount", "seq">>}

(* The stages do what the template needs.  If the document gives at most   *)
(* one template, packets of IPv6 are decoded only if it has an address for *)
(* them, those of IPv4 are mapped when it has addresses of IPv6 alone, the *)
(* two directions are one flow if and only if some reverse element is      *)
(* exported, and every element has what it is documented to enable, but    *)
(* for what the table of features lacks.                                   *)
TemplateReachesStages ==
  stage = "run" /\ asked.templates <= 1 =>
    LET ies == ToSet(ctx.spec)
        Has(f) == \E ie \in ies : <<ie, f>> \in cfg_ie_features
    IN  /\ ies # {}
        /\ (args.reqtype = "YF_TYPE_IPANY") = Has("ipv6")
        /\ ("mapped" \in ctx.uses) = (Has("ipv6") /\ ~Has("ipv4"))
        /\ args.uniflow = (ies \cap ReverseIEs = {})
        /\ \A ie \in ies : \A f \in DocumentedFeatures(ie) :
             <<ie, f>> \in NotInTable \/ f \in args.trackers

=============================================================================
