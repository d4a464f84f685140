# BPSP: a verification project for the broker

BPSP is a publish/subscribe protocol with a broker written in C, two C command
line clients and a Java client. This directory holds TLA+ modules that model the
broker and its clients, TLC configurations that check them on small instances, and TLAPS
proofs about them. `PROJECT.json` maps every definition to the lines it models
and lists the runs, the mutants, the findings, the hazards and the theorems.

## The system

| part | state | operations | talks to |
|---|---|---|---|
| topic tree (`lib/topic.c`) | a trie of nodes with subscriber tables, a reader-writer lock | add, delete with pruning, find, print | called by client threads |
| broker (`lib/broker.c`) | the table of clients, `cli_rw_lock` | accept, deliver, destroy a client | tree, clients, sockets |
| client connections (`lib/client.c`) | per client: subscriptions, socket, `is_close`, mutex, lock | subscribe, unsubscribe, send, receive, destroy | broker, tree |
| handlers and process (`server/`) | one thread per client, the request being handled | CONNECT, PUB, SUB, UNSUB, echo; accept loop | all of the above |
| frames (`lib/frame*.c`) | variable headers, `vars_size`, payload | set and parse headers, build, copy, read, write | sockets |
| sockets (`lib/net.c`) | file descriptors | accept, blocking read and write, close | kernel |
| C clients (`tools/bpsp.c`, `client/c-client`) | one connection | connect, publish, subscribe | server |
| Java client (`client/java-client`) | pending replies, subscribers, a main loop thread | connect, publish, subscribe, close | server |

Client threads share everything: a publisher's thread looks subscriptions up in
the tree, copies them, and then writes to the sockets of other clients, while
their own threads answer requests, change subscriptions or tear the connection
down, and while the main thread adds new clients to the table. The hard
behaviours follow from that: the copy is stale when it is used, freed client
structures are allocated again, a write blocks while locks are held, one request
changes two tables under two locks, and some accesses take no lock at all.

What makes the parts correct:

* tree: no subscription is lost or left behind by pruning, a find returns exactly
  the matching subscribers, also when memory runs out in a way the code survives;
* broker and clients: no message through a freed client or to the wrong
  connection, whole frames in order on every socket, the client's own table and
  the tree agree, an acknowledged message was delivered, everyone who leaves is
  cleaned up;
* frames: the size announced is the size of the headers (it is not once a label
  has been refused), a frame relabelled for
  the next subscriber carries nothing of the last one, what is written is what
  is read, whole and in order, and the texts of headers come out of the other
  side's parser as they went in;
* clients: a reply goes to the request it answers, what is shown is what was
  done, and nobody waits for ever.

## Modules

**Topics** has topics as sequences of levels. `Valid` and `Tokens` are
`topic__extract_token` and `topic__next_token`, including what they make of empty
levels: `strtok_r` skips a run of slashes but overwrites one, so the next token
keeps the others and is a literal even if the word is a wildcard. `Matches` is
the reference definition of matching, written from the meaning of the wildcards
and not from the walk.

**TopicTree** is `lib/topic.c`. A node is named by its path of tokens; `nodes`
are the live ones, `subs` their tables, `node` the pointer `sub->node`, which may
be null or dangle. A writer holds the lock for its whole walk and is one step
(`AddNew`, `AddDup`, `AddInvalid`, `AddGivesUp`, `DelPresent`, `DelAbsent`,
`DelDangling`); `Pruned` is `topic__tree_prune_node`. A find is many steps, one
for each node visited, and any number of them overlap.

An allocation that fails may end an add at any node (`AddGivesUp`), and nothing is
undone. Only where the code looks at the result does it return `BPSP_NO_MEMORY`
(`AddNoMemory`). `topic__new_hash_node` without memory for the node frees a token
it has not set, a failed copy of a token or a key is measured by the hash table,
and uthash and utarray exit (`AddUndefined`, `FindExits`); `topic__extract_token`
follows a failed copy of the topic (`ExtractUndefined`). After one of these, or a
read through a dangling pointer, `corrupt` is set and the modelled execution ends:
what the properties say under failing allocations they say up to there.

**Subscriptions** is what the tree promises: a set of subscribers, statuses that
tell what happened, and finds that are atomic and exact. TopicTree is shown to
implement it (`ImplementsSubscriptions`), so **Server** uses the plain set.
A process that ends, or whose behaviour is undefined, is Subscriptions standing
still.

**Server** is the broker process. Each connection has a thread with a control
state `pc`; `Handler`, `Send` and `Destroy` are its steps, cut where another
thread can come in: at every lock, every socket write, and between the two
updates of a subscription. Locks are modelled by who holds them: `mutex` by its
holder, `cli_rw_lock` by the threads that are sending a message (`CliReaders`),
the tree's lock not at all because each use is one step. `client->rw_lock` only
guards `is_close`. Client structures have addresses (`ptr`) that are used again
once freed. What follows from missing locks is modelled too: `broker__accept`
changes the table in two steps (`AcceptBegin`, `AcceptEnd`), and a lookup or a
removal in between may miss an entry, undo a change or crash the process
(`raced`, `TableCrash`); `topic__print_tree` walks the tree without its lock
(`dirty`, `PrintTree`). Identifiers of subscriptions are the concatenation of tag
and topic, as in the code. A frame is two writes, the fixed header and the rest;
a socket holds `SocketBuffer` of them before a write blocks.

A request also says how much `room` its headers leave: for the labels of a
delivery and the reply, for the reply alone, or for neither. Whether labels fit
depends on each subscription's tag and topic, so without room for all of them each
delivery is skipped (`DeliverNoRoom`) or goes on, one apart from the other; without
room for the reply the connection is closed. What the deliveries after a skipped one
look like on the wire, and that they may overrun a buffer, is in Frames and Codec, not
here; the same goes for headers and tags with an empty value.

Peers are the environment: they connect, send requests from a given set without
waiting for replies, read, and disappear at any time.

**Service** is what Server promises those peers: one request of a connection after
the other, subscriptions that take effect at one point, a publication owed at once
to everyone who is subscribed and ended only when each of them has got it or is
leaving, replies that say what happened, but for SUB, which the code answers with OK
whatever happened (see `sub_ack`). It has no threads, locks, addresses or sockets.
Server is shown to implement it (`ImplementsService`): the step that counts is the
tree's, not the client table's, and the promise lapses when one of the unlocked
accesses above bites.

**Frames** has the three frames of a client thread, `in_frame`, `out_frame` and
the `deliver_frame` of a publication, as records with the fields of the C
structure. For each subscription found, `Labelled` gives the `deliver_frame` its
tag, the published topic and, in `broker__deliver_msg`, the subscribed topic;
`Deliver` adds the sender and sends it. Headers are known by the length of their value,
which is all that the accounting of `vars_size` depends on; `vars_size` is unsigned modulo `Limit`. An
operation returns its status and the frame as it then is, also after an error, so
that what a failed operation leaves behind is there when the next one starts. A
header with an empty value has no pointer to it; a step that follows the pointer
ends the modelled execution ("undefined"). The tag of a subscription may be empty
too: `subscriber__new` copies what a SUB left, and an `x-sub-tag` given twice, the
second time without a value, leaves an empty string (`frame.c:40`). `Sent` is
`frame__send`: headers that are longer than `vars_size`, which happens after a label
has been refused, overrun the buffer (`Overruns`), and then either nothing more is
known or they go out cut. `last.whole` tells whether a frame went out as it is,
`blank` and `refused` what has been met in this publication.

**Wire** is `frame__send` and `frame__recv` over `net__write` and `net__read`: up
to three parts, each a loop around a call that transfers some of the bytes. Bytes
know which frame and part they belong to, so that a reader out of step is seen.

**Codec** has the text of headers, `"key""value";`, as both languages write and
parse it. A client in C or Java sends requests with topics of any text, quotes,
backslashes and characters of two bytes included; the broker parses them and makes
a reply of their headers, and of a PUB one `deliver_frame`, which it labels again for
each of the subscriptions it has found (`Labelled`, `Deliver`); a Java client parses
what comes of it. `Delimits` is the scanners' test for a quote, which looks at the
byte before it only; a text that ends inside a header is an error in C and thrown in
Java. Sizes are those the code counts. In C that is `vars_size`, which
`SetVarHeader` leaves too small, or wrapped around, when a label does not fit, so that
the next message is written past its buffer (`DeliverOverruns`) or sent cut or with
bytes of nobody at its end (`Buffer`); and a value of 2^16 bytes or more counts, and
is sent, with what is left of its length in 16 bits (`CutValue`). In Java it is
characters, cut to two bytes by `writeShort`; `toBytes` throws when they are not the
size of the text, after the fixed header has gone into the buffered stream.

**CommandLine** has the commands `sub` and `pub` of `tools/bpsp.c`, which
`client/c-client/client.c` has too. Both take the next frame for the reply to
what they have sent. Topics that do not fit (`Long`) are not sent, those of 2^16 bytes
or more are sent cut (`Cut`); an empty one is a pointer never set (`SendBlank`), and a
payload longer than the buffer of `handle_sub` overruns it (`ListenOverruns`): after
either the command is not followed further.

**JavaClient** has the application's thread and the main loops of `BPSPClient`, with one step for each access to the fields they share:
sending a request, queueing its handler and entering a subscriber are three
steps, and a loop's test of `_running`, its look at the connection, the read and
the delivery are four. `EnqueueDuringPoll` is the unprotected list changed by two
threads at once: the count, the new element or all later ones may be lost. Two
loops that read one connection take whole frames from it; that they may tear a
frame apart is left out, as nothing is claimed then. In both client modules the
broker is what a client sees of it: requests served in order, the subscription in
place before the reply, messages of others at any time, each with the topic and
the tag it was subscribed with. In JavaClient serving a request and sending the reply
are two steps (`BrokerServe`, `BrokerReply`), and a publication, its own or
another client's, takes a copy of the subscribers (`found`) from which the messages
are sent later (`BrokerPublish`, `BrokerDeliver`): one may come before the OK of the
SUB, and one whose subscription has ended by then after the OK of the UNSUB. The frame
records the latter (`late`).

**MCTopicTree**, **MCServer**, **MCFrames**, **MCWire**, **MCCodec**,
**MCCommandLine** and **MCJavaClient** give the constants their values.
**ServerInvariant** has the inductive invariant of Server. **TopicTreeProofs**,
**ServerProofs** (with lemmas in **ServerSteps**), **FramesProofs**, **WireProofs**,
**CodecProofs**, **CommandLineProofs** and **JavaClientProofs** hold the theorems.

Definitions named `X_Something` are faulty variants of `X` that no specification
uses; `PROJECT.json` pairs each with the property that detects it.

## Runs

| run | configuration | shows |
|---|---|---|
| `tree` | `MCTopicTree.cfg` | types, pruning and exactness of finds: 6 subscribers, 2 readers, 43,988 states |
| `tree_no_memory` | `MCTopicTreeNoMemory.cfg` | the shape under failing allocations, the refinement, and that finds end, up to a failure the code does not survive: 30,822 states |
| `server_reuse` | `MCServerThree.cfg` | a subscriber, a publisher and a third connection on two addresses: no use after free, right addressee, acknowledged means delivered, the refinement of Service; 2.4 million states |
| `server_requests` | `MCServerRequests.cfg` | types, agreement of the two tables, whole frames, in order, none twice, and the refinement of Service, under the requests with a topic in all their forms, bad frames and failing accepts; 2.8 million states |
| `server_liveness` | `MCServerLiveness.cfg` | requests are served and closed connections cleaned up; 214,879 states |
| `frames` | `MCFrames.cfg` | sizes, labels and payloads of every frame the server makes, and that undefined behaviour has one of three causes: a header of the request with an empty value, a subscription with an empty tag, a label refused before; 195,892 states |
| `wire` | `MCWire.cfg` | five frames cut anywhere arrive whole and in order or not at all; 19,031 states |
| `codec` | `MCCodec.cfg` | headers arrive as they were sent, only texts with stray quotes or backslashes are refused, and no message makes a receiver throw but one labelled after a refused label; 219,876 states |
| `command_line` | `MCCommandLine.cfg` | nine command lines: what is told is what was done, and no wait is in vain; 9,705 states |
| `java` | `MCJavaClient.cfg` | replies reach who asked, subscribers know their state and miss messages sent in time only during their own calls, connecting ends, requests are answered, closed loops end; 628,040 states |

The subscribers of `tree` share prefixes, end in inner nodes, use both wildcards,
skip an empty level and include an invalid topic, which is what pruning and
matching depend on; two readers are enough for finds to overlap each other, and
writers exclude each other. In `server_reuse` there are fewer addresses than
connections, so that the address in a publisher's copy can belong to somebody
else; with one request each, a subscriber can still be subscribed, found, freed
and replaced before the delivery; the publication has any of the three amounts of
room. `SocketBuffer = 2` is one frame, so a second
frame to a peer that does not read blocks. In `server_requests` one client sends
two requests, of any two kinds, and another subscribes with an acknowledgement,
so that its socket is written to by two threads. Addresses are symmetric in the
safety runs.

In `frames` names and values are one character long where their length does not
matter, and `Limit = 46` is small enough for a request's headers, the labels and
the status code to stop fitting at any point, and large enough for all of them to
fit. `Buffer = 5` in `wire` is less than a fixed header, so every header is cut,
and more than the small parts, so frames meet in one read. `codec` has 33 texts:
all of one character of the four classes the code tells apart, all of two of three of
them, those with a backslash between quotes and backslashes, one that ends a
character of two bytes in a backslash, one that spells out another header, and four
that do not fit in `Limit = 57`: the size of two wraps to nothing and to a whole
header in Java, and C sends none and one byte of the others. A publication finds three
subscriptions of which the second has a tag that does not fit, of one length or
another, so that the third is sent short, long or not at all. Two requests
are enough for one to be read at the wrong place of another. The command lines of
`command_line` put a topic that does not fit, one that is sent cut, an empty one, one
the broker refuses and a wildcard before and after others; three messages may arrive
at any point. `java`
has two connections, a loop for each, a plain and a wildcard subscriber, two
requests and one publication of somebody else: enough to subscribe and unsubscribe, to have two replies outstanding,
or to leave one outstanding and connect again.

Several client properties hold "as long as calls have not crossed". The variable
`disturbed` of JavaClient says when they have: a reply that was read before its
handler was queued, an overlap on the list, or a connection made while pending
replies, subscriptions or a loop of the last one are left. All of that happens in
the run and is explored further; the code promises nothing after it.

Likewise the properties of Codec hold "as long as no write has thrown and no size
has been cut" (`thrown`, `truncated`): both happen in the run. What a refused label
does to the next message happens in `frames` and `codec` too: messages announced and
sent short or long, overrun buffers, and a receiver whose loop ends. The properties say
what still holds then, and that nothing else leads there.

Two runs expect a violation, each of a statement the repository makes:

* `sub_ack`: a shadowed variable in `handle__SUB` turns every failure to
  subscribe into OK;
* `frames_announced`: after a label that does not fit, the next message announces
  a size that is not that of its headers.

Other disagreements were met while modelling. The models have the behaviour of the
code, and the properties are about what it does, not about what was meant:

* an UNSUB of a subscription whose invalid topic the tree has refused is answered
  with OK: `handle__SUB` has acknowledged it and left it in the client's table
  (`handle.c:168`, `client.c:518`);
* an UNSUB without a tag is refused (`client.c:562`), while the handler's text
  says that it falls back to `_0` (`handle.c:211`);
* a tag may contain a slash, so two pairs of topic and tag can have one
  identifier, and UNSUB of one removes the other (`client.c:92`);
* a PUB without a topic closes the connection instead of sending the reply that
  was prepared for it (`handle.c:137`);
* wildcards in a published topic are accepted and match (`topic.c:539`), which
  `specs/specification.md:243` rules out; `tree` publishes to `a/+`, and its finds are
  checked to be exact for that topic as well;
* a PUB with room for the reply but not for the labels is delivered to nobody and
  acknowledged (`handle.c:98`, `handle.c:119`);
* a C client sends a topic of 65536 bytes or more cut, as its length is kept in 16 bits
  (`frame.c:198`), instead of refusing it;
* a MSG may come after the OK of the UNSUB that ended its subscription: `handle__PUB`
  delivers from a copy (`handle.c:79`), and `broker__deliver_msg` looks up the client,
  not the subscription (`broker.c:226`);
* a main loop of the Java client that is told to stop while it reads goes on if the
  client is connected and started again in time, and reads the new connection
  (`BPSPClient.java:211`, against the comment at `:303`);
* the Java client counts characters where `specs/specification.md:73` has bytes, so
  a topic with a character outside ASCII makes `writeTo` throw and leaves the fixed
  header in the buffer, before the next frame (`Frame.java:132`, `Frame.java:248`);
* a text that ends in a backslash hides the quote that closes it, and the request is
  refused and the connection closed; `specs/specification.md:91` only asks to escape
  quotes.

Deadlock is checked for the tree without allocation failures. In the server,
states in which all peers are silent or gone, or the process has crashed, have no
successor, and after undefined behaviour or an exit the tree has none either: those
configurations turn the check off. So do the others: a thread whose loop has
ended, a stream that has been read and a client that has exited stay as they are.

## Fairness

A thread inside a find takes no further lock, so `Walk` is weakly fair. In Server
each thread is weakly fair (the kernel schedules it; a lock that stays free is
obtained), and so is the accept loop. Two assumptions are about the world: the
peers keep reading what they are sent, for otherwise a blocked write holds
`cli_rw_lock` forever; and no fairness makes peers send or close anything.
In Wire a write that has room and a read that has bytes, or the end of the stream,
return; in the client modules the calls in progress and the loops run, and the
broker serves what it is sent, which is what `RequestsServed` shows of the server.
Nothing makes a user type a line or an application call anything.
Weak fairness is enough because the locks that block a thread are not taken
infinitely often in the bounded instance; the code's locks promise no more.

## Proofs

The theorems hold for all values of the constants that satisfy the assumptions the
modules state: any sets of subscribers, connections, addresses, topics and
requests, any sizes and bounds. Each component has one inductive invariant; the
properties follow from it. TLC has agreed to it on the instances of the runs and
larger ones before it was proved, except for that of Codec, which speaks of sequences
of any length: there TLC has only agreed to the properties.

**The tree** (`TopicTreeProofs`, from `SubAssumption` and `PointerAssumption`).

* `TypeCorrect`: `TypeOK`.
* `StaysConnected`, `StaysPlaced`, `NothingLeftOver`, `NeverDangles`:
  `ParentClosed`, `Placed`, `NoGarbage` and `NoDanglingNode`. The inductive
  invariant `TreeInv` is their conjunction with the types; the hard case is
  `DelPresent`, where what `Pruned` frees must be closed under extension and free
  of other subscribers.
* `FindsAreExact`: `FindExact`. `FindInv` adds for each walk in progress that the
  copies made so far, together with what the pending nodes will still contribute,
  are what the reference definition asks for, and that no subscriber is reached
  through two pending nodes.
* `TreeImplementsSubscriptions`: every step is a step of Subscriptions or leaves
  its variables alone, up to the first allocation whose failure is undefined or ends
  the process; that step changes nothing that can be seen of the tree.

**The server** (`ServerProofs`, from `ServerAssumption`). None of the properties is
inductive: what a thread may rely on is what others have done under a lock it did
not hold. `ServerInv` has one part for each discipline the code follows:

| part | says | needed for |
|---|---|---|
| `ControlInv` | the control state of a thread tells whether its client is closed, freed, allocated | everything about freed clients |
| `KeysInv`, `RemovalInv`, `TreeInv` | a client's table has one entry per identifier; tree and tables differ only by the one subscription that a SUB or an UNSUB is half way through | `TablesAgree`, and that a find copies live subscriptions |
| `NamedInv` | what an UNSUB is taking away has the identifier it asks for | the refinement of Service |
| `RequestInv`, `SendInv` | what a thread sends belongs to its request, and goes to the client its target says | `RightAddressee`, frames never sent twice |
| `MutexInv` | who holds a client's mutex is writing to its socket | whole frames |
| `SnapshotInv`, `TableInv` | a thread that sends a message has looked its target up under `cli_rw_lock`, and no client in the table has begun to be torn down | `NoUseAfterFree` |
| `NumberInv`, `WholeInv` | of the current request nothing is on a stream that is still to be sent; a header without its rest is the one being written | `WireIntegrity` |
| `PublishInv` | whom a publication has found it has dealt with, is dealing with, or has still pending | `AckMeansDelivered` |

From it follow `TypeCorrect`, `NeverUsedAfterFree`, `TablesAlwaysAgree`,
`OnlyToAddressee`, `WireIsWhole` and `AckedMeansDelivered`. `ServerSteps` shows
which parts of the state each action leaves alone and that it preserves the parts
about control, subscriptions, requests and locks; `ServerProofs` does so for those about
what is on the streams. The proof attempts asked for facts that no property mentions: a
thread that is not away has an address; a SUB between its two updates has its key
in the client's table; no part of a frame is written unless a thread is writing;
while a message is sent the request is still in order and those pending are among
those found; only PUB, SUB and UNSUB get to a reply with a status.

* `Implementation`: every step of Server is a step of Service,
  or one its clients cannot see (`ImplementsService`). The mapping takes `Stage`,
  `Due`, `DeliveredFrames`, `Left` and `Broken` of Server for Service's variables:
  a publication is owed to those pending and the one being sent to, and the promise
  lapses with `Broken`. The proof goes action by action; those that send a frame
  need `ServerInv` for what the frame is.

**The stream** (`WireProofs`, from `WireAssumption`). `WireTypeCorrect` and
`AlwaysInStep`: `TypeOK` and `InStep`. `WireInv` says that the bytes in the socket
and the byte that will be written next are consecutive (`Shift` moves a cursor
inside a part, `After` to the next part that is not empty), that the first of them
is the one to be read next, and that the reader knows the sizes of the frame it is
in. Nothing is said about all bytes of the past, so no induction over them is
needed.

**The Java client** (`JavaClientProofs`, from `JavaAssumption`). `JavaTypeCorrect`,
`AlwaysMatched`, `AlwaysAgrees` and `OnlyDuringCalls`: `TypeOK`, `RepliesMatched`,
`RunningAgrees` and `MissedOnlyDuringCalls`. As long as calls have not crossed, one
loop reads and three queues agree: the frames that have come in, the handlers that
wait (with the one about to be queued), and the requests the broker has not served.
`Agree` says so with two functions whose existence is the invariant: `cnt` counts
the replies up to each frame, so that the n-th reply is for the n-th handler, and
`t` gives who is subscribed after each reply, beginning with those who believe they
are and ending with what the application has asked for. A message that is not late is
for somebody who is subscribed in `t` when it comes. Adding to or taking from a queue extends or
shifts the functions (`WaitsToo`, `Taken`, `Given`, `Informed`, `Confirmed`,
`Asked`, `Served`), which again avoids induction over the queues. When calls have
crossed only the types are claimed, and proved.

**Frames** (`FramesProofs`, from `FramesAssumption`, `RequestAssumption` and
`WireAssumption`). `FramesTypeCorrect`, `AlwaysCounted`, `AlwaysFaithful` and
`UndefinedConfined`: `TypeOK`, `HeadersCounted`, `SentIsFaithful` and
`UndefinedHasCause`. `FramesInv` says what the properties leave out: while a
request is handled, `in_frame` is that request, parsed; `deliver_frame` is the
message but for the labels of a subscription, whatever the last delivery, or one
that failed half way, has left there; requests and replies that are marked complete
have their headers counted, and so has the message until a label is refused; and a
header without a value is in a frame only if the request at hand has one, or a
subscription with an empty tag has been met. `WireAssumption` says that the headers of a request are shorter than `Limit`
bytes, which is so because `vars_size` has 16 bits on the wire; the one case that it
leaves out is a text of exactly `Limit - 1` bytes whose last header has no semicolon.

Parsing, copying and counting are folds over the headers, of which something must be
known for any number of them. In place of an induction theorem the proofs use
`Smallest`: of a family of subsets of a finite set, one has no proper subset in the
family. `FoldUnique`, `FoldExists` and `FoldType` unfold the community module's folds
with it, and the lemmas named `Sums...` say how the number of bytes changes when a
header is set, replaced or added.

**The command line** (`CommandLineProofs`, from `CommandLineAssumption`).
`CommandTypeCorrect`, `NothingLost` and `AlwaysInOrder`: `TypeOK`, `NothingSwallowed`
and `ToldInOrder`. A command takes whatever comes for the reply, so no frame can be
paired with the request it is for; `CommandInv` counts instead. The lines shown, the
frames on their way, the requests on their way and the one being served add up to the
requests made (`CountInv`, and for what is swallowed `SwallowInv`): every line that
tells of a request has used up a reply or a message. The n-th line has the topic of
the n-th request after CONNECT (`OrderInv`, with `ServedInv`, `AskedInv` and `ToldInv`
for what is on its way), which is why the order is right although the client never
looks.

**The text of headers** (`CodecProofs`, from `CodecAssumption`). `CodecTypeCorrect`,
`AlwaysInStep`, `AlwaysSameHeaders` and `AlwaysSurvives`: `TypeOK`, `InStep`,
`SameHeaders` and `ReceiverSurvives`, for topics of any length, any subscriptions found
and every limit; `SameHeaders` itself is about values shorter than the limit. Four
things about the operators carry them:

* what is written is parsed back if it is clean (`RoundTrip`): `TextLaid` says where
  in a text each header lies, `ScanOne` takes the parser from before the first quote
  of a header to behind its semicolon;
* whatever is parsed, what comes out is clean, and cuts no character of two bytes
  unless the text does (`CleanScan`), so it can be written and parsed again, also
  after decoding (`Reparse`); this is why no text makes a receiver throw as long as it
  is sent whole;
* the announced size is the length of the text (`SizeIsLength`), and a stream of whole
  frames gives the reader the first of them and leaves the others (`WholeNext`);
* encoding and decoding go header by header (`EncodeText`, `DecodeText`).

`CodecInv` has two views of what is on its way to the broker. As long as no write has
thrown and no size has been cut, it is whole requests, each with the text of the headers
that were meant (`Whole(wire, Requests)`). After that it is only `Sound`: each fixed
header still has a head of its own (`Numbered`), and behind it comes a quote or another
fixed header (`Local`). That is enough for the broker to parse clean headers out of
whatever it accepts, so that what comes back is whole frames in either case
(`FromBroker`): of headers that can be parsed again if no label was refused before, and
of as many bytes as announced if one was. `InHand` has the message between two
deliveries: until a label is refused its size is that of its headers, and they are the
request's but for the broker's own. `Ended` says that a loop that has ended still has
the message that ended it at the front of its stream. The folds are unfolded as in FramesProofs (`Iterated`), into functions
from 0 to the length that the lemma `Steps` goes through.

Only model-checked: the liveness properties, which are out of this prover's reach.
Every invariant of a run that is expected to pass is stated by a theorem, and so are
the two refinements.

## Not modelled

* Failing allocations outside the tree and the payloads (those of the tree are there
  with what they lead to); appending to a payload;
  `client__write`, `client__sub1`, `broker__destroy`, `topic__free_tree`, and in Java
  `FrameFixedHeader` and `toByteArray`, none of which the programs call.
* A topic of exactly 2^16 bytes, of which a C command sends nothing at all: what the
  broker makes of the empty value is in Frames and Codec, but CommandLine's `Cut`
  leaves it out.
* In Codec the tags of the subscriptions found are plain texts that are not empty; the
  topics, which go through the same parsers, are any texts.
* Client ids are short random strings, never compared with those of
  clients that have left; the model takes them to be unique.
* A second thread that calls the same Java client, as the generator window has:
  it would mix the bytes of two requests, and nothing could be claimed then.
* Java memory visibility beyond interleaving: an access to `subs`, a `HashMap`, is
  one step. The platform's charset is taken to be UTF-8.
* The user interface and the demonstrations, which hold no state of the protocol;
  logging, options, the daemon's start and the other support code, which is input
  and output only.
