----------------------------- MODULE VnsSession -----------------------------
(***************************************************************************)
(* A session of the router with the VNS server: main (sr_main.c),          *)
(* sr_connect_to_server and the commands sr_read_from_server_expect        *)
(* dispatches (sr_vns_comm.c), the interface list (sr_if.c) and the        *)
(* routing table file (sr_rt.c).                                           *)
(*                                                                         *)
(* The server is the environment: any command of Command may come next.    *)
(* Of a routing table only the interfaces of its rows are kept, of a file  *)
(* only the table it holds; SrRouter has what sr_handlepacket does with a  *)
(* packet, VnsFraming how the stream is cut into commands.                 *)
(***************************************************************************)
EXTENDS Naturals, SequencesExt

CONSTANTS
  Command,      \* the commands the server may send, see CommandsAssumption
  Name, IP,     \* interface names; interface addresses
  Unset,        \* what memory a fresh interface has
  Host,         \* virtual hosts, each with its file "rtable.<host>"
  VrHost,       \* "vrhost", the host whose file main loads
  Missing,      \* a file that is not there
  Malformed,    \* a file sr_load_rt cannot read to its end
  Files,        \* what may be on disk when the program starts
  MaxInterfaces, MaxReplies   \* bounds on the growth of if_list and of sent

\* A table is the sequence of its rows' interfaces; the entries of a hardware
\* description come as the server sends them.
ASSUME CommandsAssumption ==
  /\ \A c \in Command :
       \/ c.type \in {"auth_request", "close", "banner", "unknown"}
       \/ c.type = "auth_status" /\ c.ok \in BOOLEAN
       \/ c.type = "rtable" /\ c.host \in Host /\ c.table \in Seq(Name) \union {Malformed}
       \/ c.type = "hwinfo" /\ c.entries \in Seq([key : {"interface"}, value : Name]
                                                 \union [key : {"ethip"}, value : IP])
       \/ /\ c.type = "packet" /\ c.iface \in Name /\ c.whole \in BOOLEAN
          /\ c.asks \in IP \union {Unset}     \* the address an ARP request is for
  /\ VrHost \in Host /\ Unset \notin IP

Rtable == "rtable"       \* the file of option -r

ASSUME FilesAssumption ==
  Files \subseteq [Host \union {Rtable} -> Seq(Name) \union {Missing, Malformed}]

VARIABLES
  template,       \* was -T given?
  stage,          \* where main is
  if_list,        \* the interfaces, [name, ip]
  routing_table,  \* the interfaces of its rows; <<>> is the null pointer
  files,
  sent,           \* history: messages sent to the server
  granted,        \* history: the server has sent a good auth status
  received,       \* history: the table received while connecting, and its host
  passed          \* history: interfaces of the whole packets given to the router

vars == <<template, stage, if_list, routing_table, files, sent, granted, received,
          passed>>

\* The command each read of sr_connect_to_server insists on.
Expected == [auth_request |-> "auth_request", auth_status |-> "auth_status",
             rtable |-> "rtable"]
Expecting == stage \in DOMAIN Expected
Reading   == Expecting \/ stage = "loop"

\* sr_read_from_server_expect returns something other than 1: connecting has
\* failed and main returns 1, or the main loop is over and main returns 0.
GiveUp == stage' = IF stage = "loop" THEN "ended" ELSE "failed"

Init ==
  /\ template \in BOOLEAN
  /\ stage = "start" /\ if_list = <<>> /\ routing_table = <<>>
  /\ files \in Files
  /\ sent = <<>> /\ granted = FALSE /\ received = Missing /\ passed = {}

-----------------------------------------------------------------------------
\* The interface list.
Names == {if_list[i].name : i \in 1..Len(if_list)}

\* sr_get_interface: the first interface of that name, or Unset.
Lookup(list, n) ==
  LET found == SelectInSeq(list, LAMBDA f : f.name = n)
  IN  IF found = 0 THEN Unset ELSE list[found]

\* Mistake: the address of the first interface is set.
AddEntryFirst(list, e) ==
  IF e.key = "interface" THEN Append(list, [name |-> e.value, ip |-> Unset])
  ELSE [list EXCEPT ![1].ip = e.value]

\* An interface is added at the end; an address is that of the last one.
AddEntry(list, e) ==
  IF e.key = "interface" THEN Append(list, [name |-> e.value, ip |-> Unset])
  ELSE [list EXCEPT ![Len(list)].ip = e.value]

\* The entries of a description, one after another.
AddEntries(list, entries) ==
  LET added[k \in 0..Len(entries)] ==
        IF k = 0 THEN list ELSE AddEntry(added[k - 1], entries[k])
  IN  added[Len(entries)]

\* An address comes before any interface: assert(sr->if_list) fails.
NoInterfaceYet(entries) ==
  if_list = <<>> /\ entries /= <<>> /\ entries[1].key = "ethip"

\* Mistake: only the row that is tried first has to have its interface.
VerifiedFirst(list, table) ==
  /\ list /= <<>> /\ table /= <<>>
  /\ \E i \in 1..Len(list) : list[i].name = table[1]

\* sr_verify_routing_table returns 0.
Verified(list, table) ==
  /\ list /= <<>> /\ table /= <<>>
  /\ \A r \in 1..Len(table) : \E i \in 1..Len(list) : list[i].name = table[r]

-----------------------------------------------------------------------------
\* main, and what it does between two commands.

\* Mistake: the result of sr_load_rt is not looked at.
LoadUnchecked(file, next) ==
  stage' = next /\ routing_table' = files[file]

\* sr_load_rt_wrap: a table that cannot be loaded is the end of the program.
Load(file, next) ==
  IF files[file] \in {Missing, Malformed}
  THEN stage' = "exit" /\ UNCHANGED routing_table
  ELSE stage' = next /\ routing_table' = files[file]

Start ==
  /\ stage = "start"
  /\ \/ ~template /\ Load(Rtable, "connect")
     \/ template /\ stage' = "connect" /\ UNCHANGED routing_table
     \/ stage' = "exit" /\ UNCHANGED routing_table    \* no log file can be opened
  /\ UNCHANGED <<template, if_list, files, sent, granted, received, passed>>

\* The server is found and a connection made, or not.
Connect ==
  /\ stage = "connect"
  /\ stage' \in {"auth_request", "failed"}
  /\ UNCHANGED <<template, if_list, routing_table, files, sent, granted, received, passed>>

Open ==
  /\ stage = "open"
  /\ stage' = IF template THEN "rtable" ELSE "loop"
  /\ sent' = Append(sent, IF template THEN "open_template" ELSE "open")
  /\ UNCHANGED <<template, if_list, routing_table, files, granted, received, passed>>

OpenFails ==
  /\ stage = "open"
  /\ stage' = "failed"
  /\ UNCHANGED <<template, if_list, routing_table, files, sent, granted, received, passed>>

LoadReceived ==
  /\ stage = "load"
  /\ Load(VrHost, "loop")
  /\ UNCHANGED <<template, if_list, files, sent, granted, received, passed>>

-----------------------------------------------------------------------------
\* The commands.  Those that are not expected while connecting end it.
Accepts(type) == stage = "loop" \/ (Expecting /\ Expected[stage] = type)

\* VNSCLOSE, a read that fails, a command that is too long or not expected.
Refuse(c) ==
  /\ Reading
  /\ c.type = "close" \/ ~Accepts(c.type)
  /\ GiveUp
  /\ UNCHANGED <<template, if_list, routing_table, files, sent, granted, received, passed>>

ReadFails ==
  /\ Reading /\ GiveUp
  /\ UNCHANGED <<template, if_list, routing_table, files, sent, granted, received, passed>>

\* The reply needs the user's key and a connection that takes it.
AuthRequest(c) ==
  /\ c.type = "auth_request" /\ Accepts(c.type)
  /\ \/ /\ Len(sent) < MaxReplies
        /\ sent' = Append(sent, "auth_reply")
        /\ stage' = IF stage = "loop" THEN "loop" ELSE "auth_status"
     \/ GiveUp /\ UNCHANGED sent
  /\ UNCHANGED <<template, if_list, routing_table, files, granted, received, passed>>

\* Mistake: the server's verdict is reported, and not looked at.
AuthStatusIgnored(c) ==
  /\ c.type = "auth_status" /\ Accepts(c.type)
  /\ granted' = c.ok
  /\ stage' = IF stage = "loop" THEN "loop" ELSE "open"
  /\ UNCHANGED <<template, if_list, routing_table, files, sent, received, passed>>

AuthStatus(c) ==
  /\ c.type = "auth_status" /\ Accepts(c.type)
  /\ granted' = c.ok
  /\ IF ~c.ok THEN GiveUp
     ELSE stage' = IF stage = "loop" THEN "loop" ELSE "open"
  /\ UNCHANGED <<template, if_list, routing_table, files, sent, received, passed>>

\* Mistake: a file that is there already is left as it is.
RtableKeepsFile(c) ==
  /\ c.type = "rtable" /\ Accepts(c.type)
  /\ files' = IF files[c.host] = Missing THEN [files EXCEPT ![c.host] = c.table]
              ELSE files
  /\ stage' = IF stage = "loop" THEN "loop" ELSE "load"
  /\ received' = IF stage = "loop" THEN received ELSE [host |-> c.host, table |-> c.table]
  /\ UNCHANGED <<template, if_list, routing_table, sent, granted, passed>>

\* The table goes to the file of the host the server names, not into the
\* routing table.
RtableCmd(c) ==
  /\ c.type = "rtable" /\ Accepts(c.type)
  /\ \/ /\ files' = [files EXCEPT ![c.host] = c.table]
        /\ stage' = IF stage = "loop" THEN "loop" ELSE "load"
        /\ received' = IF stage = "loop" THEN received ELSE [host |-> c.host, table |-> c.table]
     \/ GiveUp /\ UNCHANGED <<files, received>>       \* the file cannot be opened
  /\ UNCHANGED <<template, if_list, routing_table, sent, granted, passed>>

HwInfo(c) ==
  /\ c.type = "hwinfo" /\ Accepts(c.type) /\ ~NoInterfaceYet(c.entries)
  /\ if_list' = AddEntries(if_list, c.entries)
  /\ Len(if_list') <= MaxInterfaces
  /\ stage' = IF Verified(if_list', routing_table) THEN stage ELSE "ended"
  /\ UNCHANGED <<template, routing_table, files, sent, granted, received, passed>>

HwInfoAborts(c) ==
  /\ c.type = "hwinfo" /\ Accepts(c.type) /\ NoInterfaceYet(c.entries)
  /\ stage' = "aborted"
  /\ UNCHANGED <<template, if_list, routing_table, files, sent, granted, received, passed>>

\* sr_arp_req_not_for_us drops an ARP request for another address.  One that
\* meets an interface without an address is dropped or not.
NotForUs(c) == c.whole /\ c.asks /= Unset /\ Lookup(if_list, c.iface).ip /= c.asks
MayBeForUs(c) == c.asks \in {Unset, Lookup(if_list, c.iface).ip}
                 \/ Lookup(if_list, c.iface).ip = Unset

\* A packet too short to be an ARP request is given to the router unseen.
PacketCmd(c) ==
  /\ c.type = "packet" /\ Accepts(c.type)
  /\ \/ ~c.whole /\ UNCHANGED passed
     \/ /\ c.whole /\ c.iface \in Names /\ NotForUs(c)
        /\ UNCHANGED passed
     \/ /\ c.whole /\ c.iface \in Names /\ MayBeForUs(c)
        /\ passed' = passed \union {c.iface}
  /\ UNCHANGED <<template, stage, if_list, routing_table, files, sent, granted, received>>

\* assert(iface): the packet came before the interface.
PacketAborts(c) ==
  /\ c.type = "packet" /\ Accepts(c.type) /\ c.whole /\ c.iface \notin Names
  /\ stage' = "aborted"
  /\ UNCHANGED <<template, if_list, routing_table, files, sent, granted, received, passed>>

Ignored(c) ==
  /\ c.type \in {"banner", "unknown"} /\ Accepts(c.type)
  /\ UNCHANGED vars

Stopped == stage \in {"ended", "failed", "exit", "aborted"} /\ UNCHANGED vars

Handle(c) ==
  \/ Refuse(c) \/ AuthRequest(c) \/ AuthStatus(c) \/ RtableCmd(c)
  \/ HwInfo(c) \/ HwInfoAborts(c) \/ PacketCmd(c) \/ PacketAborts(c) \/ Ignored(c)

Next ==
  \/ Start \/ Connect \/ Open \/ OpenFails \/ LoadReceived
  \/ ReadFails \/ (\E c \in Command : Handle(c))
  \/ Stopped

Spec == Init /\ [][Next]_vars

-----------------------------------------------------------------------------
Opens == {"open", "open_template"}

TypeOK ==
  /\ template \in BOOLEAN
  /\ stage \in {"start", "connect", "auth_request", "auth_status", "open", "rtable",
                "load", "loop", "ended", "failed", "exit", "aborted"}
  /\ if_list \in Seq([name : Name, ip : IP \union {Unset}])
  /\ routing_table \in Seq(Name)
  /\ files \in [Host \union {Rtable} -> Seq(Name) \union {Missing, Malformed}]
  /\ sent \in Seq(Opens \union {"auth_reply"})
  /\ granted \in BOOLEAN
  /\ received \in {Missing} \union [host : Host, table : Seq(Name) \union {Malformed}]
  /\ passed \subseteq Name

\* The router asks for a topology once, after it has answered the server's
\* challenge and the server has accepted the answer, and before any packet.
OpensWhenGranted ==
  /\ \A i \in 1..Len(sent) : sent[i] \in Opens => i = 2 /\ sent[1] = "auth_reply"
  /\ stage \in {"open", "rtable", "load", "loop"} => granted
  /\ passed /= {} => Len(sent) >= 2 /\ sent[2] \in Opens

\* Whatever the order in which the server sends hardware descriptions and
\* packets, a whole packet is given to the router only once every row of the
\* routing table has its interface.  So sr_handlepacket always finds the
\* interface of the route it chose ("interface not found!?!", sr_router.c).
PassesOnlyWhenConsistent ==
  passed /= {} =>
    passed \subseteq Names /\ routing_table /= <<>> /\ ToSet(routing_table) \subseteq Names

\* A hardware description may come again, and adds its interfaces again: the
\* one sr_get_interface finds under a name keeps the address it has had, if the
\* description names an interface before it gives an address.
InterfacesKeepAddress ==
  [][\A c \in Command : HwInfo(c) /\ c.entries /= <<>> /\ c.entries[1].key = "interface" =>
       \A n \in Name : Lookup(if_list, n) /= Unset =>
         Lookup(if_list', n) = Lookup(if_list, n)]_vars

\* "we've recv'd the rtable now, so read it in" (sr_main.c): if the server sent its
\* table for the host whose file main reads, the table the router works with is that
\* one, whatever was in the file before and whatever the server sends later.  For
\* another host main reads the file an earlier run left, or exits without one.
LoadsReceivedTable ==
  template /\ stage = "loop" /\ received.host = VrHost => routing_table = received.table
=============================================================================
