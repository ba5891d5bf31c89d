---------------------------- MODULE MCVnsSession ----------------------------
(***************************************************************************)
(* VnsSession with two interface names, two hosts and tables that agree    *)
(* with the interfaces or do not.                                          *)
(***************************************************************************)
EXTENDS VnsSession

CONSTANTS a, b, ipa, ipb, vrhost, other

MCName == {a, b}
MCIP   == {ipa, ipb}
MCHost == {vrhost, other}

Tables == {<<>>, <<a>>, <<a, b>>}

IfEntry(n) == [key |-> "interface", value |-> n]
IpEntry(i) == [key |-> "ethip", value |-> i]

\* Each interface followed by its address; the same in another order; one
\* interface only; one without an address.
HwInfos == { <<IfEntry(a), IpEntry(ipa), IfEntry(b), IpEntry(ipb)>>,
             <<IfEntry(b), IpEntry(ipb), IfEntry(a), IpEntry(ipa)>>,
             <<IfEntry(a), IpEntry(ipa)>>,
             <<IfEntry(a)>> }

Plain == [type : {"auth_request", "close", "banner", "unknown"}]
         \union [type : {"auth_status"}, ok : BOOLEAN]

\* The last one gives an address before any interface.
HwCommands == [type : {"hwinfo"}, entries : HwInfos \union {<<IpEntry(ipa)>>}]

Packets == [type : {"packet"}, iface : MCName, whole : {TRUE}, asks : {Unset, ipa}]
           \union [type : {"packet"}, iface : {a}, whole : {FALSE}, asks : {Unset}]

\* Tables for the host main reads, and one for the host it does not.
Rtables == [type : {"rtable"}, host : {vrhost}, table : {<<a>>, <<a, b>>, Malformed}]
           \union [type : {"rtable"}, host : {other}, table : {<<a, b>>}]

MCCommands == Plain \union HwCommands \union Packets \union Rtables

\* The files there may be at the start; one for vrhost is left from an earlier run.
MCFiles ==
  {[h \in MCHost \union {Rtable} |-> IF h = Rtable THEN t ELSE IF h = vrhost THEN u ELSE Missing] :
     t \in Tables \union {Missing, Malformed}, u \in {<<a>>, Missing}}
=============================================================================
