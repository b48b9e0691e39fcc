------------------------------ MODULE MCSupport ------------------------------
(***************************************************************************)
(* Small instances of what stands around the packet path: the export, the  *)
(* startup, the ring, the pickable queue and the address maps.  They share *)
(* nothing but the writer's settings: each behaviour is one of one of them.*)
(***************************************************************************)
EXTENDS Export, Config, Ring, PicqNodes, AddrMaps

VARIABLE part   \* which of them

(* One-way and two-way flows, with and without round trip samples and a    *)
(* known timestamp frequency, from inside and outside the sources.         *)
Way(pkt, hz) == [pkt |-> pkt, hz |-> hz]
Nothing == Way(FALSE, FALSE)
OneFlow(tcp, ip, out, rtt, big, fwd, rev) ==
  [tcp |-> tcp, version |-> ip, out |-> out, rtt |-> rtt, big |-> big,
   fwd |-> fwd, rev |-> rev]
SomeFlows ==
  {OneFlow(FALSE, 6, o, FALSE, o, Way(TRUE, FALSE), Nothing) : o \in BOOLEAN}
  \cup {OneFlow(TRUE, 4, o, TRUE, FALSE, Way(TRUE, ~o), r) :
          o \in BOOLEAN, r \in {Nothing, Way(TRUE, TRUE)}}

(* Every element, and templates that enable no tracker.                    *)
AllIEs == {IE(f) : f \in qof_internal_spec}
SomeSpecs ==
  {AllIEs, {ie \in AllIEs : ie[1] \in {"times", "mss"}},
   {ie \in AllIEs : ie[1] = "ports" \/ ie[2] = "rev"}}

(* Command lines: a plain one and others that differ in a few options.     *)
Plain ==
  [rotate |-> 0, stats |-> 1, rtx |-> 0, transport |-> NONE, tls |-> FALSE, out |-> "file",
   tty |-> FALSE, in |-> "file", yaml |-> "file", root |-> FALSE, user |-> NONE, group |-> NONE,
   log |-> NONE, loglevel |-> NONE, bucket_max |-> 0, bucket_rate |-> 0, delay_max |-> 0,
   drop_p |-> 0]
SomeCommandLines ==
  {[Plain EXCEPT !.out = o, !.rotate = r, !.transport = t, !.rtx = r, !.tls = o = "host"] :
     o \in {NONE, "host"}, r \in {0, 2}, t \in {NONE, "", "tcp", "udp", "other"}}
  \cup {[Plain EXCEPT !.root = r, !.user = u, !.group = g] :
     r \in BOOLEAN, u \in {NONE, "nobody", "root", "nosuch"}, g \in {NONE, "nosuch"}}
  \cup {[Plain EXCEPT !.out = "", !.tty = TRUE], [Plain EXCEPT !.in = "tty"],
        [Plain EXCEPT !.yaml = "missing"], [Plain EXCEPT !.yaml = NONE, !.delay_max = 1],
        [Plain EXCEPT !.log = "local0", !.loglevel = "quiet", !.bucket_max = 3],
        [Plain EXCEPT !.loglevel = "loud"],
        [Plain EXCEPT !.log = "file", !.bucket_max = 3, !.bucket_rate = 1]}

Node(kind, items) == [kind |-> kind, items |-> items]
List(items) == Node("sequence", items)
SomeNodes ==
  {<<"template", List(ies)>> :
     ies \in {<<>>, <<"sourceIPv6Address">>, <<"sourceIPv4Address", "tcpLossEventCount">>,
              <<"minTcpRwin", "reverseTcpSequenceCount">>, <<"lastTcpRttMilliseconds">>,
              <<"minTcpRttMilliseconds", "sourceMacAddress">>, <<"nosuch">>,
              Append(cfg_default_ies, "tcpSequenceCount")}}
  \cup ({"idle-timeout", "max-frags"} \X {Node("scalar", <<0>>), Node("scalar", <<2>>),
                                          Node("scalar", <<Word>>)})
  \cup ({"force-biflow", "silk-compatible", "unknown"} \X
          {Node("scalar", <<0>>), Node("scalar", <<Word>>), List(<<>>)})
  \cup {<<"source-net", List(v)>> : v \in {<<"v4", "v6letter">>, <<"v4zero">>, <<"v6digit">>}}
  \cup {<<"source-mac", List(v)>> : v \in {<<"mac">>, <<"word">>}}
  \cup {<<"interface-map", List(v)>> :
          v \in {<<>>, << << <<"ip4-net", "v4">> >> >>, << << <<"ip6-net", "v4">> >> >>,
                 << << <<"ip4-net", "v6digit">>, <<"ingress", "v4zero">> >> >>}}

(* Prefixes that are apart, adjacent and overlapping, two of them with     *)
(* bits set after the prefix.                                              *)
SomePrefixes == {<<0, 3>>, <<1, 3>>, <<3, 2>>, <<4, 3>>, <<6, 2>>, <<5, 1>>}
SomeIfs == {<<1, 0>>, <<2, 1>>}

SupportInit ==
  /\ part \in {"export", "startup", "ring", "picq", "addresses"}
  /\ ExportInit /\ ConfigInit /\ rgaAlloc /\ PicqInit /\ qfIfMapInit
  /\ part # "export" =>
       xcfg = [spec |-> AllIEs, force |-> FALSE, map6 |-> FALSE, transport |-> FALSE]
  /\ part # "startup" => opts = Plain
  /\ part # "ring" => \A i \in DOMAIN slot : slot[i] = CHOOSE v \in Vals : TRUE
  /\ part # "addresses" => version = 4

SupportNext ==
  /\ UNCHANGED part
  /\ \/ part = "export" /\ ExportNext
        /\ UNCHANGED <<configVars, ringVars, nodeVars, addrVars>>
     \/ part = "startup" /\ ConfigNext
        /\ UNCHANGED <<exportVars, ringVars, nodeVars, addrVars>>
     \/ part = "ring" /\ Next /\ UNCHANGED <<exportVars, configVars, nodeVars, addrVars>>
     \/ part = "picq" /\ PicqNext /\ UNCHANGED <<exportVars, configVars, ringVars, addrVars>>
     \/ part = "addresses" /\ AddrNext
        /\ UNCHANGED <<exportVars, configVars, ringVars, nodeVars>>

SupportSpec ==
  SupportInit /\ [][SupportNext]_<<part, exportVars, configVars, ringVars, nodeVars, addrVars>>

=============================================================================
