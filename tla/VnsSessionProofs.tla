-------------------------- MODULE VnsSessionProofs --------------------------
(***************************************************************************)
(* Theorems about VnsSession, for any commands in any order and any number *)
(* of interfaces.                                                          *)
(***************************************************************************)
EXTENDS VnsSession, WellFoundedInduction, TLAPS

Interface == [name : Name, ip : IP \union {Unset}]

Entry == [key : {"interface"}, value : Name] \union [key : {"ethip"}, value : IP]

-----------------------------------------------------------------------------
(* The entries of a hardware description, one after another.               *)

\* A set of natural numbers that is not empty has a least element.
LEMMA LeastNumber ==
  ASSUME NEW S \in SUBSET Nat, NEW n \in S
  PROVE  \E m \in S : \A k \in S : m <= k
<1> DEFINE R == {ss \in Nat \X Nat : ss[1] < ss[2]}
<1>1. IsWellFoundedOn(R, Nat)
  BY NatLessThanWellFounded, Zenon DEF OpToRel
<1> HIDE DEF R
<1>2. PICK m \in S : \A k \in S : <<k, m>> \notin R
  BY <1>1, WFMin
<1>3. \A k \in S : ~(k < m)
  BY <1>2 DEF R
<1> QED
  BY <1>3

\* The equation added is defined by in AddEntries, for the first m entries.
AddedBy(f, list, entries, m) ==
  f = [k \in 0..m |-> IF k = 0 THEN list ELSE AddEntry(f[k - 1], entries[k])]

\* An entry after an interface has been added keeps what there was before.
After(old, new) ==
  /\ new \in Seq(Interface)
  /\ Len(new) >= Len(old) /\ \A i \in 1..Len(old) : new[i].name = old[i].name

\* The same, and the interfaces there were are as they were, with one behind.
Behind(old, new) ==
  /\ new \in Seq(Interface)
  /\ Len(new) > Len(old) /\ \A i \in 1..Len(old) : new[i] = old[i]

\* What setting the address of the last interface does to a list.
LEMMA SetLast ==
  ASSUME NEW list \in Seq(Interface), NEW e \in Entry, e.key # "interface"
  PROVE  /\ AddEntry(list, e) \in Seq(Interface) /\ Len(AddEntry(list, e)) = Len(list)
         /\ \A i \in 1..Len(list) :
              /\ AddEntry(list, e)[i].name = list[i].name
              /\ i # Len(list) => AddEntry(list, e)[i] = list[i]
<1> DEFINE n == Len(list)
           r == [list[n] EXCEPT !.ip = e.value]
           t == AddEntry(list, e)
<1>0. n \in Nat
  OBVIOUS
<1>1. t = [list EXCEPT ![n] = r]
  BY DEF AddEntry
<1>2. n > 0 => r \in Interface /\ r.name = list[n].name
  <2> SUFFICES ASSUME n > 0 PROVE r \in Interface /\ r.name = list[n].name
    OBVIOUS
  <2>1. list[n] \in Interface /\ e.value \in IP
    BY <1>0 DEF Entry
  <2> QED
    BY <2>1 DEF Interface
<1> HIDE DEF r, t, Interface
<1>3. CASE n = 0
  <2>1. t = list
    BY <1>1, <1>3
  <2> QED
    BY <2>1, <1>3 DEF t
<1>4. CASE n > 0
  <2>1. t \in Seq(Interface) /\ Len(t) = n
    BY <1>1, <1>2, <1>4
  <2>2. \A i \in 1..n : t[i] = IF i = n THEN r ELSE list[i]
    BY <1>0, <1>1
  <2> QED
    BY <1>2, <1>4, <2>1, <2>2 DEF t
<1> QED
  BY <1>0, <1>3, <1>4

\* What adding an interface does to a list.
LEMMA AddLast ==
  ASSUME NEW list \in Seq(Interface), NEW e \in Entry, e.key = "interface"
  PROVE  /\ AddEntry(list, e) \in Seq(Interface)
         /\ Len(AddEntry(list, e)) = Len(list) + 1
         /\ \A i \in 1..Len(list) : AddEntry(list, e)[i] = list[i]
<1> DEFINE r == [name |-> e.value, ip |-> Unset]
<1>1. AddEntry(list, e) = Append(list, r)
  BY DEF AddEntry
<1>2. r \in Interface
  BY DEF Entry, Interface
<1> HIDE DEF r, Interface
<1> QED
  BY <1>1, <1>2

LEMMA EntryAfter ==
  ASSUME NEW old \in Seq(Interface), NEW new, After(old, new), NEW e \in Entry
  PROVE  After(old, AddEntry(new, e))
<1>0. Len(old) \in Nat /\ Len(new) \in Nat /\ new \in Seq(Interface)
  BY DEF After
<1> QED
  <2> DEFINE t == AddEntry(new, e)
  <2>1. /\ t \in Seq(Interface) /\ Len(t) \in Nat /\ Len(t) >= Len(new)
        /\ \A i \in 1..Len(new) : t[i].name = new[i].name
    <3>1. CASE e.key = "interface"
      BY <1>0, <3>1, AddLast
    <3>2. CASE e.key # "interface"
      BY <1>0, <3>2, SetLast
    <3> QED
      BY <3>1, <3>2
  <2> HIDE DEF t
  <2>2. Len(new) >= Len(old) /\ \A i \in 1..Len(old) : new[i].name = old[i].name
    BY DEF After
  <2>3. After(old, t)
    BY <1>0, <2>1, <2>2 DEF After
  <2> QED
    BY <2>3 DEF t

LEMMA EntryBehind ==
  ASSUME NEW old \in Seq(Interface), NEW new, Behind(old, new), NEW e \in Entry
  PROVE  Behind(old, AddEntry(new, e))
<1>0. Len(old) \in Nat /\ Len(new) \in Nat /\ new \in Seq(Interface)
  BY DEF Behind
<1> DEFINE t == AddEntry(new, e)
<1>1. /\ t \in Seq(Interface) /\ Len(t) \in Nat /\ Len(t) >= Len(new)
      /\ \A i \in 1..Len(new) : i # Len(new) => t[i] = new[i]
  <2>1. CASE e.key = "interface"
    BY <1>0, <2>1, AddLast
  <2>2. CASE e.key # "interface"
    BY <1>0, <2>2, SetLast
  <2> QED
    BY <2>1, <2>2
<1> HIDE DEF t
<1>2. Len(new) > Len(old) /\ \A i \in 1..Len(old) : new[i] = old[i]
  BY DEF Behind
<1>3. \A i \in 1..Len(old) : i \in 1..Len(new) /\ i # Len(new)
  BY <1>0, <1>2
<1>4. \A i \in 1..Len(old) : t[i] = old[i]
  BY <1>1, <1>2, <1>3
<1>5. Len(t) > Len(old)
  BY <1>0, <1>1, <1>2
<1>6. Behind(old, t)
  BY <1>1, <1>4, <1>5 DEF Behind
<1> QED
  BY <1>6 DEF t

\* For any number of entries there is a function as AddEntries defines it.
LEMMA AddedExists ==
  ASSUME NEW list, NEW entries \in Seq(Entry)
  PROVE  \A m \in 0..Len(entries) : \E f : AddedBy(f, list, entries, m)
<1> DEFINE Bad == {m \in 0..Len(entries) : ~ \E f : AddedBy(f, list, entries, m)}
<1>0. Len(entries) \in Nat
  OBVIOUS
<1> SUFFICES ASSUME NEW n \in Bad PROVE FALSE
  OBVIOUS
<1>1. PICK m \in Bad : \A k \in Bad : m <= k
  <2>1. Bad \in SUBSET Nat
    BY <1>0
  <2> HIDE DEF Bad
  <2> QED
    BY <2>1, LeastNumber
<1>2. m # 0
  <2> DEFINE g == [k \in 0..0 |-> list]
  <2>1. AddedBy(g, list, entries, 0)
    BY DEF AddedBy
  <2> QED
    BY <2>1
<1>3. m \in Nat /\ m >= 1 /\ m - 1 \in 0..Len(entries) /\ m - 1 \notin Bad
  BY <1>0, <1>1, <1>2
<1>4. PICK f : AddedBy(f, list, entries, m - 1)
  BY <1>3
<1> DEFINE g == [k \in 0..m |-> IF k = m THEN AddEntry(f[m - 1], entries[m]) ELSE f[k]]
<1> HIDE DEF Bad
<1>5. \A k \in 0..(m - 1) : f[k] = IF k = 0 THEN list ELSE AddEntry(f[k - 1], entries[k])
  BY <1>4 DEF AddedBy
<1>6. ASSUME NEW k \in 0..m
      PROVE  g[k] = IF k = 0 THEN list ELSE AddEntry(g[k - 1], entries[k])
  <2>1. CASE k = m
    <3>1. k # 0 /\ k - 1 \in 0..m /\ k - 1 # m
      BY <1>3, <2>1
    <3>2. g[k - 1] = f[m - 1] /\ g[k] = AddEntry(f[m - 1], entries[m])
      BY <2>1, <3>1
    <3> QED
      BY <2>1, <3>1, <3>2
  <2>2. CASE k # m
    <3>1. k \in 0..(m - 1) /\ (k # 0 => k - 1 \in 0..m /\ k - 1 # m)
      BY <1>3, <2>2
    <3>2. g[k] = f[k] /\ (k # 0 => g[k - 1] = f[k - 1])
      BY <2>2, <3>1
    <3> QED
      BY <1>5, <3>1, <3>2
  <2> QED
    BY <2>1, <2>2
<1>7. g = [k \in 0..m |-> g[k]]
  OBVIOUS
<1> HIDE DEF g
<1>8. AddedBy(g, list, entries, m)
  BY <1>6, <1>7 DEF AddedBy
<1> QED
  BY <1>8 DEF Bad

\* Whatever the number of entries, such a function keeps what the list had.
LEMMA AddedKeeps ==
  ASSUME NEW list \in Seq(Interface), NEW entries \in Seq(Entry), NEW f,
         AddedBy(f, list, entries, Len(entries))
  PROVE  \A m \in 0..Len(entries) :
           /\ After(list, f[m])
           /\ m > 0 /\ entries[1].key = "interface" => Behind(list, f[m])
<1> DEFINE Good(m) == /\ After(list, f[m])
                      /\ m > 0 /\ entries[1].key = "interface" => Behind(list, f[m])
           Bad == {m \in 0..Len(entries) : ~Good(m)}
<1>0. Len(entries) \in Nat /\ Len(list) \in Nat
  OBVIOUS
<1> SUFFICES ASSUME NEW n \in Bad PROVE FALSE
  OBVIOUS
<1>1. PICK m \in Bad : \A k \in Bad : m <= k
  <2>1. Bad \in SUBSET Nat
    BY <1>0
  <2> HIDE DEF Bad
  <2> QED
    BY <2>1, LeastNumber
<1>2. f[0] = list
  BY <1>0 DEF AddedBy
<1>3. After(list, list)
  BY DEF After
<1>4. m # 0
  BY <1>2, <1>3
<1>5. m \in Nat /\ m >= 1 /\ m \in 1..Len(entries) /\ m - 1 \in 0..Len(entries) /\ m - 1 \notin Bad
  BY <1>0, <1>1, <1>4
<1>6. Good(m - 1)
  BY <1>5
<1>7. f[m] = AddEntry(f[m - 1], entries[m]) /\ entries[m] \in Entry
  <2>1. m \in 0..Len(entries) /\ m # 0
    BY <1>4, <1>5
  <2> HIDE DEF Bad
  <2>2. f[m] = AddEntry(f[m - 1], entries[m])
    BY <2>1 DEF AddedBy
  <2> QED
    BY <1>5, <2>2
<1>8. After(list, f[m])
  BY <1>6, <1>7, EntryAfter
<1>9. entries[1].key = "interface" => Behind(list, f[m])
  <2> SUFFICES ASSUME entries[1].key = "interface" PROVE Behind(list, f[m])
    OBVIOUS
  <2>1. CASE m = 1
    <3>1. f[m] = AddEntry(list, entries[1]) /\ entries[1] \in Entry
      BY <1>2, <1>7, <2>1
    <3> QED
      BY <1>0, <3>1, AddLast DEF Behind
  <2>2. CASE m # 1
    <3>1. Behind(list, f[m - 1])
      BY <1>5, <1>6, <2>2
    <3> QED
      BY <1>7, <3>1, EntryBehind
  <2> QED
    BY <2>1, <2>2
<1> QED
  BY <1>8, <1>9

\* The list after a description has the interfaces it had, with their addresses
\* if the description names an interface first.
LEMMA EntriesKeep ==
  ASSUME NEW list \in Seq(Interface), NEW entries \in Seq(Entry)
  PROVE  /\ After(list, AddEntries(list, entries))
         /\ entries # <<>> /\ entries[1].key = "interface"
            => Behind(list, AddEntries(list, entries))
<1> DEFINE m == Len(entries)
           h == CHOOSE f : AddedBy(f, list, entries, m)
<1>0. m \in Nat /\ (entries # <<>> => m > 0)
  OBVIOUS
<1>1. AddedBy(h, list, entries, m)
  <2>1. m \in 0..m
    BY <1>0
  <2>2. \E f : AddedBy(f, list, entries, m)
    BY <2>1, AddedExists
  <2> QED
    BY <2>2
<1>2. AddEntries(list, entries) = h[m]
  BY DEF AddEntries, AddedBy
<1> HIDE DEF h
<1>3. /\ After(list, h[m])
      /\ m > 0 /\ entries[1].key = "interface" => Behind(list, h[m])
  BY <1>0, <1>1, AddedKeeps
<1> QED
  BY <1>0, <1>2, <1>3

-----------------------------------------------------------------------------
(* The invariant.                                                          *)

\* Where main is before it reads packets.
Connecting == {"start", "connect", "auth_request", "auth_status", "open", "rtable", "load"}
Opened     == {"rtable", "load", "loop"}

\* What has been sent at each place.
SentSoFar ==
  /\ stage \in {"start", "connect", "auth_request"} => sent = <<>>
  /\ stage \in {"auth_status", "open"} => sent = <<"auth_reply">>
  /\ stage \in Opened => Len(sent) >= 2 /\ sent[1] = "auth_reply" /\ sent[2] \in Opens

\* Until the main loop there are no interfaces and no packets; once there are
\* interfaces, the routing table agrees with them.
LoopIsConsistent ==
  /\ stage \in Connecting => if_list = <<>> /\ passed = {}
  /\ stage = "loop" /\ if_list # <<>> =>
       routing_table # <<>> /\ ToSet(routing_table) \subseteq Names

IInv == TypeOK /\ OpensWhenGranted /\ PassesOnlyWhenConsistent /\ SentSoFar /\ LoopIsConsistent

\* The parts of the invariant that are not about what is sent.
Consistent == PassesOnlyWhenConsistent /\ LoopIsConsistent
Sending    == OpensWhenGranted /\ SentSoFar

\* Interfaces are never removed, and a name that is there stays there.
LEMMA NamesGrow ==
  ASSUME TypeOK, After(if_list, if_list') PROVE Names \subseteq Names'
<1>1. if_list \in Seq(Interface) /\ if_list' \in Seq(Interface)
  BY DEF TypeOK, After, Interface
<1>2. Len(if_list) \in Nat /\ Len(if_list') \in Nat /\ Len(if_list) <= Len(if_list')
  BY <1>1 DEF After
<1>3. \A i \in 1..Len(if_list) : i \in 1..Len(if_list') /\ if_list'[i].name = if_list[i].name
  BY <1>2 DEF After
<1> QED
  BY <1>3 DEF Names

\* The end of a connection attempt, or of the program: nothing else changes.
LEMMA StopKeeps ==
  ASSUME IInv, stage' \in {"ended", "failed", "exit", "aborted"},
         UNCHANGED <<template, if_list, routing_table, files, sent, granted, received, passed>>
  PROVE  IInv'
<1>1. TypeOK'
  BY DEF IInv, TypeOK
<1>2. Sending'
  BY DEF IInv, Sending, OpensWhenGranted, SentSoFar, Opened, Opens
<1>3. Consistent'
  BY DEF IInv, Consistent, PassesOnlyWhenConsistent, LoopIsConsistent, Connecting, Names
<1> QED
  BY <1>1, <1>2, <1>3 DEF IInv, Sending, Consistent

LEMMA LoadedType ==
  ASSUME TypeOK, NEW file \in Host \union {Rtable}, NEW next, Load(file, next)
  PROVE  routing_table' \in Seq(Name) /\ stage' \in {"exit", next}
BY DEF TypeOK, Load

LEMMA InitInv == Init => IInv
<1> SUFFICES ASSUME Init PROVE IInv
  OBVIOUS
<1>1. if_list \in Seq(Interface) /\ routing_table \in Seq(Name) /\ sent \in Seq(Opens \union {"auth_reply"})
  BY DEF Init
<1>2. TypeOK
  BY <1>1, FilesAssumption DEF Init, TypeOK, Interface
<1> QED
  BY <1>2 DEF Init, IInv, OpensWhenGranted, PassesOnlyWhenConsistent, SentSoFar,
     LoopIsConsistent, Opened, Connecting

LEMMA MainKeeps ==
  ASSUME IInv, Start \/ Connect \/ Open \/ OpenFails \/ LoadReceived
  PROVE  IInv'
<1>1. CASE Start
  <2>1. /\ stage = "start" /\ routing_table' \in Seq(Name) /\ stage' \in {"exit", "connect"}
        /\ UNCHANGED <<template, if_list, files, sent, granted, received, passed>>
    BY <1>1, LoadedType DEF Start, IInv, TypeOK
  <2>2. if_list = <<>> /\ passed = {} /\ sent = <<>>
    BY <2>1 DEF IInv, LoopIsConsistent, SentSoFar, Connecting
  <2>3. TypeOK'
    BY <2>1 DEF IInv, TypeOK
  <2> QED
    BY <2>1, <2>2, <2>3 DEF IInv, OpensWhenGranted, PassesOnlyWhenConsistent, SentSoFar,
       LoopIsConsistent, Opened, Connecting
<1>2. CASE Connect
  <2>1. /\ stage = "connect" /\ stage' \in {"auth_request", "failed"}
        /\ UNCHANGED <<template, if_list, routing_table, files, sent, granted, received, passed>>
    BY <1>2 DEF Connect
  <2>2. if_list = <<>> /\ passed = {} /\ sent = <<>>
    BY <2>1 DEF IInv, LoopIsConsistent, SentSoFar, Connecting
  <2>3. TypeOK'
    BY <2>1 DEF IInv, TypeOK
  <2> QED
    BY <2>1, <2>2, <2>3 DEF IInv, OpensWhenGranted, PassesOnlyWhenConsistent, SentSoFar,
       LoopIsConsistent, Opened, Connecting
<1>3. CASE Open
  <2> DEFINE m == IF template THEN "open_template" ELSE "open"
  <2>1. /\ stage = "open" /\ stage' \in {"rtable", "loop"} /\ sent' = Append(sent, m)
        /\ UNCHANGED <<template, if_list, routing_table, files, granted, received, passed>>
    BY <1>3 DEF Open
  <2>2. if_list = <<>> /\ passed = {} /\ sent = <<"auth_reply">> /\ granted
    BY <2>1 DEF IInv, LoopIsConsistent, SentSoFar, Connecting, OpensWhenGranted
  <2>3. m \in Opens
    BY DEF Opens
  <2>4. Len(sent') = 2 /\ sent'[1] = "auth_reply" /\ sent'[2] = m
    <3> HIDE DEF m
    <3> QED
      BY <2>1, <2>2
  <2>5. sent' \in Seq(Opens \union {"auth_reply"})
    <3> HIDE DEF m
    <3> QED
      BY <2>1, <2>3 DEF IInv, TypeOK
  <2>6. TypeOK'
    BY <2>1, <2>5 DEF IInv, TypeOK
  <2>7. Sending'
    BY <2>1, <2>2, <2>3, <2>4 DEF Sending, OpensWhenGranted, SentSoFar, Opened, Opens
  <2> QED
    BY <2>1, <2>2, <2>6, <2>7 DEF Sending, IInv, PassesOnlyWhenConsistent, LoopIsConsistent, Connecting
<1>4. CASE OpenFails
  BY <1>4, StopKeeps DEF OpenFails
<1>5. CASE LoadReceived
  <2>1. /\ stage = "load" /\ routing_table' \in Seq(Name) /\ stage' \in {"exit", "loop"}
        /\ UNCHANGED <<template, if_list, files, sent, granted, received, passed>>
    BY <1>5, LoadedType, CommandsAssumption DEF LoadReceived, IInv, TypeOK
  <2>2. if_list = <<>> /\ passed = {}
    BY <2>1 DEF IInv, LoopIsConsistent, Connecting
  <2>3. TypeOK'
    BY <2>1 DEF IInv, TypeOK
  <2> QED
    BY <2>1, <2>2, <2>3 DEF IInv, OpensWhenGranted, PassesOnlyWhenConsistent, SentSoFar,
       LoopIsConsistent, Opened, Connecting, Opens
<1> QED
  BY <1>1, <1>2, <1>3, <1>4, <1>5

-----------------------------------------------------------------------------
(* The commands.                                                           *)

LEMMA AcceptedIn == ASSUME NEW type, Accepts(type)
                    PROVE  stage \in {"loop", "auth_request", "auth_status", "rtable"}
BY DEF Accepts, Expecting, Expected

LEMMA RefuseKeeps ==
  ASSUME IInv, ReadFails \/ \E c \in Command : Refuse(c) PROVE IInv'
BY StopKeeps DEF ReadFails, Refuse, GiveUp

LEMMA AuthRequestKeeps == ASSUME IInv, NEW c \in Command, AuthRequest(c) PROVE IInv'
<1>1. CASE GiveUp /\ UNCHANGED sent
  BY <1>1, StopKeeps DEF AuthRequest, GiveUp
<1>2. CASE /\ sent' = Append(sent, "auth_reply")
           /\ stage' = IF stage = "loop" THEN "loop" ELSE "auth_status"
  <2>1. /\ stage \in {"loop", "auth_request"}
        /\ UNCHANGED <<template, if_list, routing_table, files, granted, received, passed>>
    BY DEF AuthRequest, Accepts, Expecting, Expected
  <2>2. sent \in Seq(Opens \union {"auth_reply"}) /\ Len(sent) \in Nat
    BY DEF IInv, TypeOK
  <2>3. /\ sent' \in Seq(Opens \union {"auth_reply"}) /\ Len(sent') = Len(sent) + 1
        /\ sent'[Len(sent) + 1] = "auth_reply"
        /\ \A i \in 1..Len(sent) : sent'[i] = sent[i]
    BY <1>2, <2>2
  <2>4. TypeOK'
    BY <1>2, <2>1, <2>3 DEF IInv, TypeOK
  <2>5. CASE stage = "loop"
    <3>1. stage' = "loop" /\ Len(sent) >= 2
      BY <1>2, <2>5 DEF IInv, SentSoFar, Opened
    <3>2. "auth_reply" \notin Opens
      BY DEF Opens
    <3>3. \A i \in 1..Len(sent') : i \in 1..Len(sent) \/ i = Len(sent) + 1
      BY <2>2, <2>3
    <3>4. 1 \in 1..Len(sent) /\ 2 \in 1..Len(sent) /\ Len(sent') >= 2
      BY <2>2, <2>3, <3>1
    <3>5. Sending'
      BY <2>1, <2>3, <2>5, <3>1, <3>2, <3>3, <3>4
         DEF IInv, Sending, OpensWhenGranted, SentSoFar, Opened
    <3>6. Consistent'
      BY <2>1, <2>5, <3>1 DEF IInv, Consistent, PassesOnlyWhenConsistent, LoopIsConsistent,
         Connecting, Names
    <3> QED
      BY <2>4, <3>5, <3>6 DEF IInv, Sending, Consistent
  <2>6. CASE stage # "loop"
    <3>1. stage = "auth_request" /\ stage' = "auth_status" /\ sent = <<>> /\ passed = {} /\ if_list = <<>>
      BY <1>2, <2>1, <2>6 DEF IInv, SentSoFar, LoopIsConsistent, Connecting
    <3>2. sent' = <<"auth_reply">>
      BY <1>2, <3>1
    <3> QED
      BY <2>1, <2>4, <3>1, <3>2 DEF IInv, OpensWhenGranted, PassesOnlyWhenConsistent,
         SentSoFar, LoopIsConsistent, Opened, Connecting, Opens
  <2> QED
    BY <2>5, <2>6
<1> QED
  BY <1>1, <1>2 DEF AuthRequest

LEMMA AuthStatusKeeps == ASSUME IInv, NEW c \in Command, AuthStatus(c) PROVE IInv'
<1>0. /\ stage \in {"loop", "auth_status"} /\ c.ok \in BOOLEAN /\ granted' = c.ok
      /\ UNCHANGED <<template, if_list, routing_table, files, sent, received, passed>>
  BY CommandsAssumption DEF AuthStatus, Accepts, Expecting, Expected
<1>1. stage' = IF ~c.ok THEN (IF stage = "loop" THEN "ended" ELSE "failed")
               ELSE (IF stage = "loop" THEN "loop" ELSE "open")
  BY DEF AuthStatus, GiveUp
<1>2. TypeOK'
  BY <1>0, <1>1 DEF IInv, TypeOK
<1>3. Sending'
  BY <1>0, <1>1 DEF IInv, Sending, OpensWhenGranted, SentSoFar, Opened, Opens
<1>4. Consistent'
  BY <1>0, <1>1 DEF IInv, Consistent, PassesOnlyWhenConsistent, LoopIsConsistent, Connecting, Names
<1> QED
  BY <1>2, <1>3, <1>4 DEF IInv, Sending, Consistent

LEMMA RtableKeeps == ASSUME IInv, NEW c \in Command, RtableCmd(c) PROVE IInv'
<1>0. /\ stage \in {"loop", "rtable"} /\ c.host \in Host
      /\ c.table \in Seq(Name) \union {Malformed}
      /\ UNCHANGED <<template, if_list, routing_table, sent, granted, passed>>
  BY CommandsAssumption DEF RtableCmd, Accepts, Expecting, Expected
<1>1. CASE GiveUp /\ UNCHANGED <<files, received>>
  BY <1>0, <1>1, StopKeeps DEF GiveUp
<1>2. CASE /\ files' = [files EXCEPT ![c.host] = c.table]
           /\ stage' = IF stage = "loop" THEN "loop" ELSE "load"
           /\ received' = IF stage = "loop" THEN received ELSE [host |-> c.host, table |-> c.table]
  <2>1. TypeOK'
    BY <1>0, <1>2 DEF IInv, TypeOK
  <2>2. Sending'
    BY <1>0, <1>2 DEF IInv, Sending, OpensWhenGranted, SentSoFar, Opened, Opens
  <2>3. Consistent'
    BY <1>0, <1>2 DEF IInv, Consistent, PassesOnlyWhenConsistent, LoopIsConsistent, Connecting, Names
  <2> QED
    BY <2>1, <2>2, <2>3 DEF IInv, Sending, Consistent
<1> QED
  BY <1>1, <1>2 DEF RtableCmd

LEMMA HwInfoIs ==
  ASSUME IInv, NEW c \in Command, HwInfo(c)
  PROVE  /\ stage = "loop" /\ if_list \in Seq(Interface) /\ c.entries \in Seq(Entry)
         /\ if_list' = AddEntries(if_list, c.entries)
         /\ After(if_list, if_list')
         /\ UNCHANGED <<template, routing_table, files, sent, granted, received, passed>>
<1>1. c.type = "hwinfo" /\ Accepts(c.type) /\ if_list' = AddEntries(if_list, c.entries)
  BY DEF HwInfo
<1>2. stage = "loop"
  BY <1>1 DEF Accepts, Expecting, Expected
<1>3. c.entries \in Seq(Entry)
  BY <1>1, CommandsAssumption DEF Entry
<1>4. if_list \in Seq(Interface)
  BY DEF IInv, TypeOK, Interface
<1> QED
  BY <1>1, <1>2, <1>3, <1>4, EntriesKeep DEF HwInfo

LEMMA HwInfoKeeps == ASSUME IInv, NEW c \in Command, HwInfo(c) PROVE IInv'
<1>1. Names \subseteq Names'
  BY HwInfoIs, NamesGrow DEF IInv
<1>2. if_list' \in Seq(Interface)
  BY HwInfoIs DEF After
<1>3. stage' = IF Verified(if_list', routing_table) THEN "loop" ELSE "ended"
  BY HwInfoIs DEF HwInfo
<1>4. TypeOK'
  BY <1>2, <1>3, HwInfoIs DEF IInv, TypeOK, Interface
<1>5. Sending'
  BY <1>3, HwInfoIs DEF IInv, Sending, OpensWhenGranted, SentSoFar, Opened, Opens
<1>6. PassesOnlyWhenConsistent'
  BY <1>1, HwInfoIs DEF IInv, PassesOnlyWhenConsistent
<1>7. LoopIsConsistent'
  <2> SUFFICES ASSUME stage' = "loop"
               PROVE  routing_table # <<>> /\ ToSet(routing_table) \subseteq Names'
    BY <1>3, HwInfoIs DEF LoopIsConsistent, Connecting
  <2>1. Verified(if_list', routing_table)
    BY <1>3
  <2>2. /\ routing_table \in Seq(Name) /\ routing_table # <<>>
        /\ \A r \in 1..Len(routing_table) :
             \E i \in 1..Len(if_list') : if_list'[i].name = routing_table[r]
    BY <2>1 DEF Verified, IInv, TypeOK
  <2> QED
    BY <2>2 DEF ToSet, Names
<1> QED
  BY <1>4, <1>5, <1>6, <1>7 DEF IInv, Sending

LEMMA PacketKeeps == ASSUME IInv, NEW c \in Command, PacketCmd(c) PROVE IInv'
<1>1. c.type = "packet" /\ c.iface \in Name
  BY CommandsAssumption DEF PacketCmd
<1>2. /\ stage = "loop"
      /\ UNCHANGED <<template, stage, if_list, routing_table, files, sent, granted, received>>
      /\ passed' = passed \/ (c.iface \in Names /\ passed' = passed \union {c.iface})
  BY <1>1 DEF PacketCmd, Accepts, Expecting, Expected
<1>3. TypeOK'
  BY <1>1, <1>2 DEF IInv, TypeOK
<1>4. Sending'
  BY <1>2 DEF IInv, Sending, OpensWhenGranted, SentSoFar, Opened, Opens
<1>5. c.iface \in Names => if_list # <<>>
  BY DEF Names
<1>6. Names' = Names
  BY <1>2 DEF Names
<1>7. Consistent'
  BY <1>2, <1>5, <1>6 DEF IInv, Consistent, PassesOnlyWhenConsistent, LoopIsConsistent, Connecting
<1> QED
  BY <1>3, <1>4, <1>7 DEF IInv, Sending, Consistent

LEMMA NothingKeeps == ASSUME IInv, UNCHANGED vars PROVE IInv'
<1>1. TypeOK'
  BY DEF IInv, TypeOK, vars
<1>2. Sending'
  BY DEF IInv, Sending, OpensWhenGranted, SentSoFar, vars
<1>3. Consistent'
  BY DEF IInv, Consistent, PassesOnlyWhenConsistent, LoopIsConsistent, Names, vars
<1> QED
  BY <1>1, <1>2, <1>3 DEF IInv, Sending, Consistent

LEMMA AbortKeeps ==
  ASSUME IInv, NEW c \in Command, HwInfoAborts(c) \/ PacketAborts(c) PROVE IInv'
BY StopKeeps DEF HwInfoAborts, PacketAborts

LEMMA Step == IInv /\ [Next]_vars => IInv'
<1> SUFFICES ASSUME IInv, [Next]_vars PROVE IInv'
  OBVIOUS
<1>1. CASE \E c \in Command : Handle(c)
  BY <1>1, RefuseKeeps, AuthRequestKeeps, AuthStatusKeeps, RtableKeeps, HwInfoKeeps,
     PacketKeeps, AbortKeeps, NothingKeeps DEF Handle, Ignored
<1>2. CASE Stopped \/ UNCHANGED vars
  BY <1>2, NothingKeeps DEF Stopped
<1> QED
  BY <1>1, <1>2, MainKeeps, RefuseKeeps DEF Next

LEMMA Invariance == Spec => []IInv
BY InitInv, Step, PTL DEF Spec

-----------------------------------------------------------------------------
(* The theorems.                                                           *)

\* The variables have their types.
THEOREM TypeCorrect == Spec => []TypeOK
BY Invariance, PTL DEF IInv

\* The router asks for a topology once, after it has answered the challenge and
\* the answer was accepted, and before any packet is given to it.
THEOREM OpensOnlyWhenGranted == Spec => []OpensWhenGranted
BY Invariance, PTL DEF IInv

\* A whole packet is given to the router only once every row of the routing
\* table has its interface.
THEOREM PassesWhenConsistent == Spec => []PassesOnlyWhenConsistent
BY Invariance, PTL DEF IInv

-----------------------------------------------------------------------------
(* The table that is loaded.                                               *)

\* What was received stays in its file until main has loaded it.
Loaded ==
  /\ template /\ stage = "load" /\ received.host = VrHost => files[VrHost] = received.table
  /\ LoadsReceivedTable

\* With -T, the table the router works with is the one the server sent whenever the
\* server sent it for the host main reads, whatever hosts it sends tables for later.
THEOREM LoadsWhatWasReceived == Spec => []LoadsReceivedTable
<1>1. Init => Loaded
  BY DEF Init, Loaded, LoadsReceivedTable
<1>2. IInv /\ Loaded /\ [Next]_vars => Loaded'
  <2> SUFFICES ASSUME IInv, Loaded, [Next]_vars PROVE Loaded'
    OBVIOUS
  <2> USE DEF Loaded, LoadsReceivedTable
  <2>1. CASE Start \/ Connect \/ OpenFails \/ ReadFails
    BY <2>1 DEF Start, Load, Connect, OpenFails, ReadFails, GiveUp
  <2>2. CASE Open
    BY <2>2 DEF Open
  <2>3. CASE LoadReceived
    BY <2>3 DEF LoadReceived, Load
  <2>4. ASSUME NEW c \in Command, RtableCmd(c) PROVE Loaded'
    <3>1. c.host \in Host /\ stage \in {"loop", "rtable"}
      BY <2>4, CommandsAssumption DEF RtableCmd, Accepts, Expecting, Expected
    <3>2. files \in [Host \union {Rtable} -> Seq(Name) \union {Missing, Malformed}]
          /\ VrHost \in Host
      BY CommandsAssumption DEF IInv, TypeOK
    <3> QED
      BY <2>4, <3>1, <3>2 DEF RtableCmd, GiveUp
  <2>5. ASSUME NEW c \in Command, HwInfo(c) PROVE Loaded'
    BY <2>5, HwInfoIs DEF HwInfo
  <2>6. ASSUME NEW c \in Command, Refuse(c) \/ HwInfoAborts(c) \/ PacketAborts(c) PROVE Loaded'
    BY <2>6 DEF Refuse, GiveUp, HwInfoAborts, PacketAborts
  <2>7. ASSUME NEW c \in Command, AuthRequest(c) \/ AuthStatus(c) PROVE Loaded'
    BY <2>7 DEF AuthRequest, AuthStatus, GiveUp
  <2>8. ASSUME NEW c \in Command, PacketCmd(c) \/ Ignored(c) PROVE Loaded'
    BY <2>8 DEF PacketCmd, Ignored, vars
  <2>9. CASE Stopped \/ UNCHANGED vars
    BY <2>9 DEF Stopped, vars
  <2> QED
    BY <2>1, <2>2, <2>3, <2>4, <2>5, <2>6, <2>7, <2>8, <2>9 DEF Next, Handle
<1>3. Loaded => LoadsReceivedTable
  BY DEF Loaded
<1> QED
  BY <1>1, <1>2, <1>3, Invariance, PTL DEF Spec

-----------------------------------------------------------------------------
(* What a name stands for.                                                 *)

\* The positions at which a list has interface n.
At(list, n) == {i \in 1..Len(list) : list[i].name = n}

LEMMA LookupIs ==
  ASSUME NEW list, NEW n
  PROVE  Lookup(list, n) =
           LET found == IF At(list, n) # {} THEN Min(At(list, n)) ELSE 0
           IN  IF found = 0 THEN Unset ELSE list[found]
BY DEF Lookup, SelectInSeq, At

\* sr_get_interface finds the same interface in a list that begins with the same
\* interfaces.
LEMMA LookupKept ==
  ASSUME NEW old \in Seq(Interface), NEW new, Behind(old, new), NEW n,
         Lookup(old, n) # Unset
  PROVE  Lookup(new, n) = Lookup(old, n)
<1>0. Len(old) \in Nat /\ Len(new) \in Nat /\ Len(old) < Len(new)
  BY DEF Behind
<1>1. At(old, n) # {}
  BY LookupIs
<1>2. PICK m \in At(old, n) : \A k \in At(old, n) : m <= k
  <2>1. At(old, n) \in SUBSET Nat
    BY <1>0 DEF At
  <2> QED
    BY <1>1, <2>1, LeastNumber
<1>3. m \in 1..Len(old) /\ m \in 1..Len(new) /\ m \in Nat /\ m # 0 /\ new[m] = old[m]
  BY <1>0 DEF At, Behind
<1>4. m \in At(new, n) /\ \A k \in At(new, n) : m <= k
  <2>1. m \in At(new, n)
    BY <1>3 DEF At
  <2>2. ASSUME NEW k \in At(new, n), k < m PROVE FALSE
    <3>1. k \in 1..Len(old) /\ new[k] = old[k]
      BY <1>0, <1>3, <2>2 DEF At, Behind
    <3>2. k \in At(old, n)
      BY <3>1 DEF At
    <3> QED
      BY <1>2, <1>3, <2>2, <3>1, <3>2
  <2>3. \A k \in At(new, n) : k \in Nat
    BY <1>0 DEF At
  <2> QED
    BY <1>3, <2>1, <2>2, <2>3
<1>5. ASSUME NEW S \in SUBSET Nat, m \in S, \A k \in S : m <= k
      PROVE  Min(S) = m
  <2>1. \A x \in S : (\A y \in S : x <= y) => x = m
    BY <1>3, <1>5
  <2> QED
    BY <1>5, <2>1 DEF Min
<1>6. Min(At(old, n)) = m /\ Min(At(new, n)) = m
  <2>1. At(old, n) \in SUBSET Nat /\ At(new, n) \in SUBSET Nat
    BY <1>0 DEF At
  <2> QED
    BY <1>2, <1>4, <1>5, <2>1
<1> QED
  BY <1>1, <1>3, <1>4, <1>6, LookupIs

\* The interface found under a name keeps its address, however often the server
\* describes the interfaces, if a description names an interface first.
THEOREM AddressesStay == Spec => InterfacesKeepAddress
<1>1. IInv => \A c \in Command : HwInfo(c) /\ c.entries /= <<>> /\ c.entries[1].key = "interface" =>
                 \A n \in Name : Lookup(if_list, n) /= Unset =>
                   Lookup(if_list', n) = Lookup(if_list, n)
  BY HwInfoIs, EntriesKeep, LookupKept
<1> QED
  BY <1>1, Invariance, PTL DEF InterfacesKeepAddress
=============================================================================
