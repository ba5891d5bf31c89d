# A verification development for code-samples

TLA+ models of the programs in this repository, checked with TLC and, for every
property but liveness, proved with TLAPS for all values of the constants. Modules are
named after the code they model; file names below are those of
`src/simple_router/` unless a directory is given.

## 1. The system

### Inventory

| Component | State | Operations | Hard behaviour | What makes it correct |
|---|---|---|---|---|
| Packet handler (`sr_router.c`, `sr_handlepacket`) | ARP cache, ARP queue (two lists, static) | one call for each frame: walk the cache, walk the queue, dispatch the frame | timeouts noticed only by calls; the clock moves during a call; requests retried; replies race timeouts; answers that stop half way | one fate for each packet, order kept, no packet waits for a known address, requests spaced and limited, no stale address |
| Longest prefix match (`rt_findmatch`) | none of its own, reads the routing table | one search | masks and zero bytes at byte boundaries | the row found is the longest match |
| Command framing (`sr_read_from_server_expect`, first half) | socket, bytes read | read a length, read a body | reads return any number of bytes, fail, or reach the end | commands are cut where the server wrote them |
| Session (`sr_main.c`, `sr_vns_comm.c`) | stage of `main`, interfaces, routing table, files | connect, authenticate, open, nine commands | commands in any order, files left by earlier runs, partial failure | nothing is opened without authentication, no packet before the tables agree |
| Interface list (`sr_if.c`) | linked list | add, set the last one's addresses, find by name | repeated descriptions | what a name stands for does not change |
| Routing table file (`sr_rt.c`) | linked list | load | missing and malformed files | a table received for the host `main` reads is the one in use |
| SHA-1 (`sha1.c`) | block buffer, two length words, digest, two flags | reset, input in pieces, result | padding over a block boundary, carry and overflow of the length, calls after the result | what is hashed is the padded message; refusals only of what the comments say |
| Mars rover (`marsRover/`) | rovers: coordinates, heading, directions left | read the file, drive, test against the plateau | coordinates are ints; the plateau is tested once, at the end; errors anywhere in the file | the test is right in spite of overflow; the exit code tells of every bad line and of every route that ends off the plateau (not of a missing route or an empty file) |
| Neural network (`neuralNetwork/`) | network with its weights, errors, samples | make the patterns, train, write the samples, predict | counters of three nested loops, an array whose size is computed elsewhere, a flag that latches | samples are of the right epochs and inside the array, and labelled as such; the first convergence is reported |
| Packet log (`sr_dumper.c`) | a file | append | none | none |
| News scraper (`googlenews_scrape/`) | none | fetch and print | remote pages | none |

### How the parts interact

Everything in the router runs in one thread. `main` connects, authenticates and
opens a topology, then reads one command after another from a TCP stream. The
framing cuts the stream into commands, the session dispatches them, and a packet
command becomes one call of `sr_handlepacket`, which answers by calls of
`sr_send_packet` on the same socket. Authentication hashes the server's salt and
the key with SHA-1. Two things are not under the thread's control: the server,
which sends commands in any order and may stop anywhere, and the clock, which
`time()` reads again at every cache and queue entry and once more while a frame
is dispatched. The routing table travels through a file.

The other directories are programs of their own.

## 2. Modules

| Module | Models | Checked by | Proved in |
|---|---|---|---|
| `HopDelivery` | the promise of the ARP cache and queue, without clocks, requests or calls | refined by `SrRouter` | `SrRouterWireProofs` |
| `SrRouter` | `sr_handlepacket` and all it calls | `MCSrRouter` | `SrRouterProofs`, `SrRouterWireProofs` |
| `RtFindMatch` | `rt_findmatch` | `MCRtFindMatch` | `RtFindMatchProofs` |
| `CommandFeed` | the promise of the reading loops, without bytes, reads or length fields | refined by `VnsFraming` | `VnsFramingProofs` |
| `VnsFraming` | the reading loops of `sr_read_from_server_expect` | `MCVnsFraming` | `VnsFramingProofs` |
| `VnsSession` | `main`, `sr_connect_to_server`, the commands, the interface list, the table file | `MCVnsSession` | `VnsSessionProofs` |
| `Sha1` | `SHA1Reset`, `SHA1Input`, `SHA1Result` and the padding | `MCSha1` | `Sha1Proofs` |
| `MarsRover` | `Driver`, `Rover`, `Position`, `Point` | `MCMarsRover` | `MarsRoverProofs` |
| `XorTraining` | `main` of `map_xor.c` and `train` of `nn.c`, without the network | `MCXorTraining` | `XorTrainingProofs` |

The seams between them: `VnsSession` shows that a whole packet reaches the
handler only when every route has its interface (`PassesOnlyWhenConsistent`) and
that interfaces keep their addresses (`InterfacesKeepAddress`); this is why
`SrRouter` may take `Route`, with interfaces in `Iface`, and `IfIP` as constants
and has no action for "interface not found". `RtFindMatch` is the function
`Route` of `SrRouter`. `VnsFraming` shows that commands arrive whole and in
order, which `VnsSession` assumes.

### SrRouter and HopDelivery

The state is `sr_arpcache` and `sr_arpqueue`, as sets of entries (the code's
lists never hold two entries for one address: `UniqueEntries`), and the place in
the call: `frame`, and the entries the two walks have yet to visit. One action is
one iteration of a walk, or the dispatch of the frame, so the clock (`Tick`) and
nothing else can come between. `wire` has the IP frames sent and `replies` the
ARP replies; `rcvd`, `reqs`, `heard` and `ticked` are histories: `rcvd` keeps a
packet from arriving twice, `ticked` says that the second has changed since the
call in hand began, and no guard reads the other three.

* Start of a call: `ReceivePacket`, `ReceiveArp` (with the session's filter
  `NotForUs`).
* `arp_cache_clear_invalids`: `SweepCache`. `arpq_clear_invalids`: `SweepKeep`,
  `SweepResend`, `SweepGiveUp`, `SweepFreed`. The walks visit entries in any
  order, which includes the order of the list.
* Dispatch of a packet: `DropBadChecksum`, `TtlOver`, `EchoReply`,
  `PortUnreachable`, `IgnoreLocal`, `NoRouteFound`, `ForwardCached`,
  `QueueBehind`, `QueueGiveUp`, `QueueNew`.
* Dispatch of an ARP frame: `IgnoreArp`, `ArpRefresh`, `ArpLearn`, `ArpFlush`,
  `ArpOverheard`.

Time is relative: an entry has the seconds left to its timeout, or the seconds
since its last request, 2 standing for "2 or more". The code compares only these,
so the clock may run for ever in a finite state space. An entry freed and left
in the list is `freed`; a walk that reads it, or a null route that is read,
makes `status` "undefined", after which nothing is said. `status` "exited" is the
`exit` after `realloc`.

`HopDelivery` says what all this is for, with four variables: the hops that are
`known`, the packets `waiting` for each hop, what was `sent`, and whether the
process is `up`. A packet for a known hop is delivered; one for an unknown hop
waits; all that wait for a hop leave in the one step that makes it known, in
order, or are given up in one step, of which a first part is refused. Under the
refinement mapping (`Delivery` in `SrRouter`) a hop is known if it has a cache
entry, the packets of its queue entry wait, the outcome of each frame on the wire
is one of "delivered", "refused" and "answered", and the process is up while
`status` is "running". Ticks, requests and the walks over entries in time are
stuttering steps. What this adds to the invariants is atomicity: no packet is
forwarded, refused or lost in a step that is about another hop or another packet.

### RtFindMatch, VnsFraming, VnsSession

`RtFindMatch` runs the outer loop one row a step; the inner loop is the operator
`Count`, the number of bytes matched before it ends. `VnsFraming` counts the
bytes of the stream and gives the client nothing but what it has read: if it
loses its place, the length it reads is no length. What a command does is left
to `VnsSession`; `Outcome` has what comes of it for the reading: it is
dispatched and the main loop calls again; or it is dispatched and is the last,
because it closes the session or its handling fails (-1, or 0 for `VNSCLOSE`);
or it is not the command expected, is not dispatched, and is the last
(`sr_vns_comm.c:402-408`). After the last one `phase` is "stopped", as `main`
stops calling (`sr_main.c:166`). `VnsSession` has one action for each command in
each place it can come, with the failures of sends, files and assertions as
outcomes of their own.

`CommandFeed` says what the reading is for, with three variables: how many
commands are `complete` (the server has written their end), the numbers of those
`handled`, and the `connection`. The next command is handled if it is complete
and not too long; if it is too long it is refused, complete or not; a read may
fail at any time, and a command may be the last. Under the refinement mapping
(`Feed` in `VnsFraming`) the complete commands are those that end within the
bytes written (`EndedIn`), a command dispatched is known by the place it starts
at (`CommandAt`), and the connection is "refused", "broken" or "ended" as the
phase is "failed", "broken" or "stopped". Reads of a part of a command, and the
end of the stream, are stuttering steps. What this adds to `InStep` and
`RefusesOnlyLong` is that nothing is dispatched before the server has written
all of it, nor after a refusal, a failure or a command that ends the calls.

### Sha1, MarsRover, XorTraining

`Sha1` has the context of `sha1.h` (the digest, the two length words, the block
and its index, `Computed`, `Corrupted`), a caller who chooses a message and cuts
it into pieces, and one step for each byte of the loop in `SHA1Input`. The digest
is kept as the bytes that have been hashed, in whole blocks: what SHA-1 computes
of them is a function of these bytes and is not modelled. How a result is padded
is a definition per case of the code (`TwoBlocks`, `LastBlock`). `IsPadded` is
the definition of FIPS 180-1 that the comments of `sha1.c` cite.

`MarsRover` reads the file line by line, then drives rover after rover, one
direction a step; `x` and `y` wrap like Java ints (`Wrap`). `trueX` and `trueY`
are histories of where the rover would be without wrapping. A route is a list, so
it has at most `MaxInt` directions.

`XorTraining` keeps the control of the training loops and, in place of the
floating-point numbers, what they are computed from: an error is the pair of its
epoch and pattern, and `rmse` the errors summed in it. The weights are left out,
and with them the order in which the layers are updated: nothing kept here
depends on them but whether an epoch's error is below the tolerance. Whether
that is so is free, so all histories of convergence are covered. The patterns
are computed as the code does, frequency by frequency.

Operators marked "Mistake" in a comment are not part of any specification: each
is a plausible error in the definition that follows it, under which the property
named for it must fail.

## 3. What is checked

Every run is listed in `PROJECT.json`, with a mutant for each property: a change
to the model that a plausible bug would make, and that must violate it.

| Run | Properties | Bounds |
|---|---|---|
| `router_traffic` | `TypeOK`, `UniqueEntries`, `CacheQueueDisjoint`, `NoOvertaking`, `OneFate`, `VanishesOnlyBehindIcmpError`, `RequestsSpaced`, `ReplySourceIsInterface`, `UnreachableOnlyAfterRetry`, `NonEmptyUnlessTicked`, `FreshMac`, `AnswersIcmpErrorOnlyLate`, `EveryWaitEnds`, `ImplementsDelivery` | the frames of one of 12 scenarios (`Traffic`), chosen at the start; 2 next hops, 2 hardware addresses; `ARP_MAXREQS` 3, cache timeout 2; the clock free, within calls too; `MCFairSpec` |
| `rt_aligned` | `FindsLongestAlignedPrefix` | every table of 1 to 3 of the byte-aligned networks of 2 bytes of 2 bits, every address without a zero byte |
| `framing_cuts` | `TypeOK`, `InStep`, `RefusesOnlyLong`, `EveryCommandDispatched`, `ImplementsFeed` | 5 commands, one at the limit and one over it, every way to cut them, failures, commands that end the calls and the end of the stream anywhere; `FairSpec` |
| `session_commands` | `TypeOK`, `OpensWhenGranted`, `PassesOnlyWhenConsistent`, `LoadsReceivedTable`, `InterfacesKeepAddress` | 2 interface names, with and without a template, tables for the host `main` reads and for another, a file of an earlier run or none, tables of 0 to 2 rows, 4 hardware descriptions and a malformed one; at most 4 interfaces and 3 messages sent |
| `sha1_pieces` | `TypeOK`, `DigestOfMessage`, `RefusesOnlyLongOrLate`, `DigestIsFinal` | bytes of 2 bits, words of 2 bytes, blocks of 6 bytes; messages of 0 to 14 bytes (every place in three blocks), and of 127, 128 and 130 (the length in bits overflows at 128), in any pieces, with any calls after the result |
| `rover_files` | `TypeOK`, `TestIsExact`, `EndsWhereRouteLeads`, `CodeTellsAll` | ints of 3 bits (-4 to 3): every place and heading along two edges of three plateaus, with every route of up to 3 directions; files of 2 rovers with bad lines, bad letters and a missing route; an empty file, and one without rovers |
| `training_samples` | `TypeOK`, `PatternsComplete`, `SampledEveryTenth`, `ReportsFirst` | a sample every 3 epochs; 3 and 4 epochs with 1 to 4 inputs, 6 and 8 epochs with 1 and 2; arguments out of range |

The scenarios of `router_traffic` are: three packets through one gateway, one of
them an ICMP error; one gateway under two hardware addresses; two hops, one of
them asked by a packet with IP options; two packets for one hop, the second with
options; an address overheard; and one for each packet that takes another branch
of the dispatch. Frames of a scenario come in any order; a packet comes once, an
ARP frame any number of times. `Traffic` only splits the frames of `MCHdr` and
`MCArp` into sets small enough to be run; `MCNext` is `Next` for the set chosen,
and every action of it is taken.

Why the bounds are enough. The handler treats next hops independently but for
the walks, so two hops show what one does to another; three packets are a head,
a middle and a tail of a queue; an entry's life is decided by the comparisons
with 1 second, `ARP_MAXREQS` and `ARPCACHE_TIMEOUT` (5 and 15 in the code), and
the values chosen give counts below, at and above. A retransmission is another
packet. In `VnsSession`, `MaxInterfaces` and `MaxReplies` bound the two things
that grow with the server's commands. `InterfacesKeepAddress` says so in its
premise: a description names an interface before it gives its address, as the
protocol of `vnscommand.h` suggests. In `Sha1` the sizes keep what matters: a
block has room for a mark beside the length (2 bytes here, 56 in SHA-1), and the
length takes two words. In `XorTraining` the distance between samples is 3 for
the code's 10, with trainings that stop at a sample and between two. For all
properties but the two of liveness the theorems do away with the bounds.

`FreshMac` and `NonEmptyUnlessTicked` are about calls within which the second does
not change, and say so by `ticked`; the clock of the run is free. When it does
change, a packet can meet an entry that has become overdue since the walk
(`QueueGiveUp`: the packet is answered even if it is an ICMP error, and the entry
stays linked), or an address whose time has run out since the walk.
`AnswersIcmpErrorOnlyLate` says that this path, in such a call, is the only one on
which an ICMP error is answered; the queue answers none.

Deadlock is checked everywhere but in `RtFindMatch`, whose search ends; the
processes that may stop have an explicit action for having stopped.

### Fairness

`SrRouter!FairSpec` (`MCFairSpec` in the run) is weakly fair to the steps of the
handler (a call, once begun, runs to its end: nothing in it blocks but the
socket) and to the clock. It is not fair to frames: `EveryWaitEnds` has "frames
keep arriving" as its premise, because without traffic the code never looks at
its timeouts. `VnsFraming!FairSpec` is weakly fair to the client's reads and to
the server's writing what it has to write; the server may close and a read may
fail at any moment, and a command may end the calls; `EveryCommandDispatched`
says so. TCP delivers what was written, so bytes that are there are read. The
other modules have no liveness: their loops are counted, and where they stop is
part of what is proved.

## 4. Where the code differs from what it says

Each is a run that must find its property violated; the lines are in
`PROJECT.json`.

* `router_empty_entry`: an entry that becomes overdue between the walk and the
  dispatch of one call is freed and left in the list.
* `rt_zero_byte`: a zero byte of the address ends the comparison with a row.
* `framing_end_of_stream`: at the end of the stream the read loops for ever.
* `router_four_requests` (with `ARP_MAXREQS` 5, as in the code): packets are answered
  host unreachable after four requests. `arpq_numreqs` starts at 1 and the first
  request raises it, so the comment of `arpq_clear_invalids`, "entries with five or
  more requests", counts one too many. `UnreachableOnlyAfterRetry` has what holds
  for every limit of 3 or more: the hop was asked, and asked again.
* `training_csv_labels`: `rmses.csv` has the first sample, that of epoch 10, under
  the label 0 and each later one under the label before its own, and under the last
  label a number never assigned (`map_xor.c:108` and 121-127), while
  `neuralNetwork/readme.txt:54` has it hold "The RMSE from every 10th epoch" and
  `plotrmse.m` plots the second line over the first.

Other things met while modelling, which the actions do as the code does:

* the result of `realloc` is tested the wrong way round, so the process exits
  when it answers a queued packet with IP options (`ExitsOn`, `sr_router.c:583`);
* an ICMP error in the queue makes `arpq_packets_icmpsend` return
  (`sr_router.c:577`), and the packets behind it in the queue get no answer,
  whatever they are (`VanishesOnlyBehindIcmpError` bounds what may be lost);
* a TTL of 0 wraps to 255 and is forwarded (`TtlLessOne`);
* a destination without a route is a null pointer that is read (`NoRouteFound`);
* host unreachable messages quote a TTL the router has decremented, while port
  unreachable and time exceeded messages quote the one the packet came with
  (`UnreachFrame`);
* a mask that ends within a byte counts as long as one that ends with it
  (`Count` in `RtFindMatch`), which is why `rt_aligned` is about aligned masks;
* `main` reads the file of `vrhost` whatever host the server's table is for
  (`sr_main.c:157-159`, where the comment says "we've recv'd the rtable now, so read
  it in"). With `-v` and another host's name the table goes to another file, and the
  router works with the table an earlier run left for `vrhost`, or exits because
  there is none. `session_commands` has such hosts and such files: `LoadsReceivedTable`
  holds for tables of `vrhost` and says so in its premise;
* a rover that leaves the plateau and comes back within its route is not
  noticed, and an empty file is a success (`Driver.java:18` and 34).

## 5. What is proved

Eight modules hold theorems, for every value of the constants that the named
assumptions of the modelled modules allow. The theorems are in `PROJECT.json`; for
each module, the argument is an invariant stronger than the properties.

**`SrRouterProofs`.** For every set of packets, frames, addresses, interfaces and
routes, every `ARP_MAXREQS >= 3` and `ARPCACHE_TIMEOUT >= 2`. `Invariance` proves
the conjunction of `TypeOK`, `UniqueEntries`, `CacheQueueDisjoint` and
`RequestsSpaced` with two more:

* `EntriesMatchRequests`: an entry's age and count are those of the history of
  requests for its next hop. `TypeOK` needs it to bound the history.
* `QuietHops`: a next hop without an entry has been asked two or more seconds
  ago, or its address was heard since and is still cached. This is the reason
  why a new entry may send its first request at once: an entry leaves the queue
  by being given up, which takes two seconds of silence, or by being flushed,
  after which the address stays cached for `ARPCACHE_TIMEOUT >= 2` seconds.

`EntriesHoldPackets` adds that, in a call without a tick so far, an entry the walk
has visited is not overdue, so `QueueGiveUp` cannot happen.

**`SrRouterWireProofs`** rests on that invariant and proves what is sent.

* What may be sent. `EntriesForHop`, `CacheAsHeard` (a cache entry is what was
  last heard, and its time left and the time since add up) and `FrameFiltered`
  hold always; `EveryOrigin` says where a new frame comes from, and
  `UnreachableOnlyAfterRetry`, `FreshMac` and `ReplySourceIsInterface` follow.
  `LateAnswersOnly` (`AnswersIcmpErrorOnlyLate`) follows too: an answer to an ICMP
  error cannot come
  from the walk, whose answers stop before the first one, so it is `QueueGiveUp`.
* What becomes of a packet. `OncePlaced`: a packet is on the wire once, in the
  queue once, or in hand; from it `OneFate`. With `FrameIsLast`, the frame in hand
  is the last that came, so it may go behind everything else: `NoOvertaking`.
  `NothingElseLost` follows a packet from the hand to the queue to the wire, and
  takes the first ICMP error of an entry (by `LeastNumber`) as the one that cost
  the others their answer: `VanishesOnlyBehindIcmpError`.
* The refinement. `Implements` is `Spec => ImplementsDelivery`. One lemma for each
  kind of step names the action of `HopDelivery` it is, or shows that it stutters.
  `FreedAhead` is needed for giving up: an entry without packets is one that was
  freed, and the walk meets it (and its state is undefined) before any dispatch,
  so what is given up is never empty.

**`RtFindMatchProofs`**, for every size of byte and address and every set of
tables, of any length. `Counts` is what the inner loop does to a row whose mask
ends at a byte, for an address without a zero byte: it counts the bytes of the
mask if the row matches, and ends in a mismatch if not. The loop invariant
`Kept` then says that `bestmatch` is a row, of those visited, with the most
bytes counted, that `longest` is that count, and that `defaultr` is a default
route. Hence `FindsLongestAlignedPrefix`. A table may have default routes only
with destination 0 and mask 0, as `ByteAligned` says.

**`VnsFramingProofs`**, for every list of commands and every limit. `InBody`
ties the bytes read to the start of the command, and its length to the limit.
The starts are a recursive function; that it exists and grows is proved without
an induction theorem, by looking at the least position where it would not
(`LeastNumber`, a lemma that every module that needs it proves for itself from
the library's `WFMin`). So is that `EndedIn` is well defined (`EndedAt`, the
least number of commands still to come). `Implements` is `Spec =>
ImplementsFeed`: a write completes the commands between two values of `EndedIn`
(`FeedWrite`), reading a length refuses or stutters (`FeedLength`), and a
dispatch handles the next command, which ends where the client now is and
therefore within what is written (`FeedDispatch`).

**`VnsSessionProofs`**, for any commands and any number of interfaces.
`SentSoFar` ties what was sent to the stage; `LoopIsConsistent` says that where
there are interfaces the table agrees with them. That a hardware description
keeps the interfaces there were is again by the least entry that would not.
`LoadsReceivedTable` follows a table from the command to its file and from the file
to the router (`Loaded`, of tables for the host that is read).

**`Sha1Proofs`**, for every size of byte, word and block the assumptions allow:
the digest and the used part of the block are the message so far (`Holds`), the
two words are its length in bits (`Counted`), and each of the two cases of the
padding is the padding of FIPS 180-1.

**`MarsRoverProofs`**, for every width of an int and every set of files: the
coordinates are the true ones modulo that width and, a route having at most
`MaxInt` directions, less than a full turn from the plateau (`Tracked`), so the
test cannot be fooled. `RouteInv` adds that the rover being driven is where the
letters it has used, counted from the start of its route, take it (`OnRoute`;
one more letter adds one to one count, `TimesNext` and `MovesNext`), that rovers
not yet driven are as the file has them (`Copied`, from which `TypeOK` follows),
and that what was passed over was good (`GoodSoFar`). With the exactness of the
test, `EndsWhereRouteLeads` and `CodeTellsAll` follow: the steps of the loop
agree with a definition that counts over the whole route at once.

**`XorTrainingProofs`**, for every number of epochs and distance between
samples: `ErrorsSoFar` ties `rmse` to the patterns shown in this epoch,
`SampledEveryTenth` ties the array to the epochs over. `PatternsComplete` is
proved for every number of inputs the code allows, 1 to 4: `RoundAt` counts the
rounds (a bijection between the multiples of a frequency and their quotients),
so an input is the complement of a bit of the pattern's number (`InputAt`),
every combination is the pattern with the right bits (`Combinations`), and the
recursive exclusive or is a parity (`OutputIsParity`). What is made once is not
changed by any later step.

### Assumptions

Only the named assumptions on constants. Where a property needs a premise (the
second did not change within the call, the table is for the host `main` reads), it
is in the property's own formula.

### Only model-checked

Liveness (`EveryWaitEnds`, `EveryCommandDispatched`) is out of the prover's
reach. All other properties of the passing runs are theorems.

## 6. What is not modelled

The packet log and the scraper (see the components in `PROJECT.json`): output
without state of their own. Within the router, checksums (right or wrong), the
bytes of headers, allocation failures, failing writes to the socket, the text of
the routing table file, IP headers of fewer than 5 words, and a packet too short
for its headers. The compression function of SHA-1, whose rounds are arithmetic
of 32-bit words without a state of control. Failures of the file system while the
rover's file is read. The values of weights and errors, which are floating point:
that training converges is not a claim of this project.

## 7. Plan

A composition of `VnsFraming` and `VnsSession` over one stream, and of
`VnsSession` and `SrRouter` over one packet.
