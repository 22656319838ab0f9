# A TLA+ model of mylibdbus

mylibdbus wraps libdbus in three calls: `libDbusConnectMessageBus`,
`libDbusDisconnect` and `libDbusSendMessage`. A process that connects registers
a service on the system bus, a thread of the library listens for requests and
signals and hands them to the application's callback, and the application, or
its callback, sends requests and notices to other services. A connect of a
privileged process also writes the bus daemon's configuration files, with a
copy of tinyxml that the repository carries and compiles. This directory holds
TLA+ modules of all of it, the TLC configurations that check them on small
instances, and proofs that TLAPS checks.

All paths below are relative to `src/`; `tinyxml.cpp` and its neighbours are in
`third/tinyxml/`.

## The system

| component | state | operations |
|---|---|---|
| public interface, `libdbus.cpp`, `libdbus.h` | `connect_flag` | the three calls |
| session lifecycle, `dbus_operate.cpp` (class `DbusOperate`) | `terminated_`, `rpcclient_thread_id_`, `call_proc_`, `srv_list_name_`, `dbus_info_` (name, path and listening connection), `connect_send_`, the static `thread_param` | `init`, `regSysDbus`, `initDbusConnection`, `createListenDbusThread`, `terminate` |
| sending, `dbus_operate_send.cpp` | the caller's stack and a pending call | `sendMessage`, `sendSingalMsg`, `sendMethodMsg` |
| listening thread, `dbus_operate_rec.cpp` | the connection and path it was started with | `worker`, `run`, `replyToMessage` |
| bus configuration files, `dbus_operate.cpp:92-238` | files in `/etc/dbus-1/system.d` | `creatAllSystemBusConf`, `creatSystemBusConf` |
| string helpers, `base_fun.cpp` | none | `getSelfProcessName`, `sepString`, `trimString`, `getFileContent` |
| libdbus (headers in `dbus/`), bus daemon | connections, names with owners and queues, messages | what the code above calls |
| tinyxml: tree | five pointers in every node | linking, inserting, replacing, removing, copying and deleting; lookups, handles |
| tinyxml: attributes | a circular list through a sentinel in every element | look up, set, remove, copy; values as numbers |
| tinyxml: strings, `tinystr.cpp` | a buffer with size and capacity, or the static empty one | assign, append, reserve, swap, ... |
| tinyxml: text | none, but the static `condenseWhiteSpace` | `Parse`, `Print`, `TiXmlPrinter`, streams |
| tinyxml: documents | nodes, error and its place, `useMicrosoftBOM`, and a file | `LoadFile`, `SaveFile`, `Clear`, `ClearError` |
| logging, build files, Windows variants | - | - |

How they interact. The public calls run on the application's threads and work
on the statics of `DbusOperate` without any lock. The listening thread shares
with them `terminated_`, `call_proc_`, `connect_flag` and `connect_send_` (its
callback may send). A session has two private bus connections: messages go out,
and answers come back, on the send connection, whose bus name is the service's
with `_send` appended; requests and signals come in on the listening
connection, which owns the service's name and which only the listening thread
reads. Names are asked for with `DBUS_NAME_FLAG_REPLACE_EXISTING`, so another
program may hold them. `init` splits the service list with `sepString` and,
with the rights to do so, has `creatSystemBusConf` build a document of tinyxml
nodes, save it, and run `sed` on the file; the bus daemon reads it.

What is hard about it:

- a connect is a sequence of seven libdbus and pthread calls, each of which can
  fail, and the undoing is spread over `initDbusConnection`, `regSysDbus` and
  two places in `libDbusConnectMessageBus`;
- a disconnect closes connections that other threads use;
- the bus may cut a connection at any time, and pointers do not show it;
- an application may call in an order nobody planned: connect twice, send after
  a disconnect, disconnect from the callback;
- the callback runs in the only thread that answers requests, and may itself
  send one, to another service or to its own;
- answers are late, requests are given up, services crash or come back;
- a payload goes through three blocks of memory with three owners, beside a
  length that another program may have written;
- a configuration file has two writers in turn, and the process may die or the
  disk fill up between any two steps;
- tinyxml links nodes into trees by hand, has its parser hang a node under a
  parent that does not know it yet, tells a sentinel by its emptiness, and
  shares a string's buffer with its own arguments.

What makes each part correct: libdbus is never handed a null or freed
connection; every failure leaves nothing behind; a success means owned names
and one listener; every call returns; a caller gets the answer to its own
request or a failure; a request is handled once at most and in its turn; no
block of memory is forgotten or read outside; a configuration file that says
"done" configures the service; the pointers form trees, and lists, that say what
the calls said; what is saved is what is loaded, as far as the printing can tell
texts apart. The `hazards` of `PROJECT.json` name the line at which each of these
could fail.

## Modules

| module | about |
|---|---|
| `Session` | one process: the statics, its two connections, the names, the listening thread, the calls of the application's threads and of the callback, the bus and other programs |
| `SessionContract` | what connect and disconnect promise: a ladder of two connections and a thread |
| `SessionInv`, `SessionProofs` | the inductive invariants of `Session` with its refinement mapping to the contract; the theorems of every use whose connects and disconnects alternate, of the orderly use, of the contract and of the other uses, and their proofs |
| `Calls` | several processes: requests, notices and answers on their way through outboxes, the daemon, inboxes and callbacks |
| `RequestContract` | what a request promises: at most one run, and its answer or a failure |
| `CallsInv`, `CallsProofs` | the inductive invariant of `Calls`; the theorems and their proofs |
| `Payload`, `PayloadProofs` | the bytes of an answer, their two lengths and the three blocks of memory; the proofs about them |
| `BaseFun` | the string helpers, as operators |
| `BusConfig` | the configuration files: names, documents, saving, `sed`, deaths and retries; uses `BaseFun` and `XmlText` |
| `XmlTree` | tinyxml's nodes and their pointers, with the parser's steps |
| `XmlTreeInv`, `XmlTreeContract` | the invariant of the pointers; the trees as sequences of children |
| `XmlTreeChains` | `XmlTree` with the sequences of children that its pointers stand for, and the refinement mapping to the contract |
| `XmlTreeProofs` | the proofs about the pointers, operation by operation and parser step by parser step |
| `XmlQuery` | lookups and handles, and the order they follow |
| `XmlChildrenProofs` | the proofs that the tree implements its contract, call by call, and that lookups follow the order |
| `XmlAttributes`, `XmlAttributesContract` | the attribute lists with their sentinels; attributes as sequences of names and values |
| `XmlAttributesWalks`, `XmlAttributesProofs` | what is met along the pointers, as a sequence; the proofs about the lists, and that they are such sequences |
| `NatLeast` | every set of natural numbers that is not empty has a least member, for the proofs |
| `XmlValues` | attribute values as ints, doubles and bools |
| `XmlStringRep`, `XmlString`, `XmlStringContract`, `XmlStringProofs` | `TiXmlString`'s buffers and what has to hold of them; the calls; strings as values; the proofs that buffers are owned and strings are values |
| `XmlStringRead` | comparing and searching strings |
| `XmlText` | reading a text into nodes and writing nodes as a text |
| `XmlBytes`, `XmlLocation` | UTF-8, numeric references, encodings, rows and columns, errors and their places |
| `XmlNodes` | copying nodes of every class, and visitors |
| `XmlStream` | `operator>>` and `operator<<` |
| `XmlDocument` | a document and its file: loading, saving, full disks and crashes |
| `XmlSamples` | nodes and documents that the checks use |
| `MCSession`, `MCCalls`, `MCPayload`, `MCBusConfig`, `MCXmlTree`, `MCXmlParts`, `MCXmlDocument` | constants for TLC, and the modules composed for a run |

### Session

An action is one libdbus or pthread call with the local code up to the next
one, since between two such calls anything else may happen. `pc[t]` is where a
thread is inside the library:

| `pc` | next call | code |
|---|---|---|
| `open` | `dbus_bus_get_private`, or the connection is there already | `dbus_operate.cpp:309-335` |
| `name` | `dbus_bus_request_name` | `:337-370` |
| `match` | `dbus_bus_add_match` | `:262-277` |
| `spawn` | `pthread_create` | `:279-305` |
| `flag` | `connect_flag = true` | `libdbus.cpp:54` |
| `term`, `join` | `terminated_ = true`, `pthread_join` | `dbus_operate.cpp:52-66` |
| `release`, `close`, `clear` | `dbus_bus_release_name`, close and unref, pointer = NULL, for the connection `role[t]` | `:68-90`, and `:360-365` when `after[t] = "undo"` |
| `notice`, `noticeFlush` | `dbus_connection_send`, `_flush` | `dbus_operate_send.cpp:74-83` |
| `request`, `requestFlush`, `block` | `_send_with_reply`, `_flush`, `dbus_pending_call_block` | `:132-162` |

`after[t]` says what a `terminate` was called for, which decides what follows
it: return (`void`), return the error of a connect (`fail`), a second
`terminate` by the caller of `regSysDbus` (`match`), or, for the releasing code
that `initDbusConnection` has of its own, that `terminate` comes after it
(`undo`). `conn_["send"]` is `connect_send_`, `conn_["rec"]` is
`dbus_info_[0].connect_`. A connection is `open`, `dead` (cut by the bus),
`closed` but kept by a pending call, or `free`. The listening thread is at the
loop condition (`poll`), at a read, in the callback or at the reply. A call with
a null or freed pointer sets `fault`, after which the process does nothing any
more: libdbus checks its arguments and aborts, or the program crashes.

Left to the daemon or the system, and so a free choice: which connection of the
queue inherits a name, whether a call that can fail does, when a connection is
cut, what is in a message. The configuration files never stop a connect, so
that step is part of `InitSession`; what it does is `BusConfig`'s subject.

`Adverse` is what the application does beyond the orderly use: one main thread
connects and disconnects in turn, and does neither while another thread is
inside `libDbusSendMessage`; others send while the session is up; the callback
sends at any time. `reconnect`, `sendDown`, `overlap` and `callback` each lift
one of these rules (see the constant's comment).

### Calls

Connecting is one step and disconnecting two, because what they do inside is
`Session`'s subject. In return a message has an identity, a sender, a
destination and a type, and passes through the places that hold it: the
`outbox` of the sending process, the `inbox` of the receiver's listening
connection, the listener (`current`), the callback, `replies`, the daemon's
list of `expected` replies, and what has `arrived` on the send connection for
its pending call. A process can disconnect or crash at every step; the daemon
then answers for it what it has not answered. A caller's time may be over at
any moment, and the answer may still come. Two processes, each also a service;
a callback may send to either. `Answer` is `replyToMessage`'s substitution of a
missing payload, `ForCallback` the chain of early returns in `run` and
`replyToMessage`, `Subscribers` the match rule.

### Payload

One request after the other, and of each the bytes: what the callback leaves in
`retval` and `retLen` (any text, any length, any code, honest or not), the copy
that `replyToMessage` makes, the reply's string and its length as two arguments
that another program may have set, and the block that `sendMethodMsg` fills for
its caller. `heap` is the set of the blocks in use, so that a block that is freed twice
would not show as such; `lost` are those that nobody would free any more, `stray`
says whether a byte outside a block was read or written. The length in a reply is 32
bits that the code reads as an `int32_t`: in the reply of another program it may be
negative, or lie behind the string. Then `TakeOutside` is the step: the memory is
asked for, cleared or copied with that number, and the process may not live on.

`ArrivesIntact` is about payloads. It does not say what arrives when the callback gave
none, nor whether the length that is returned counts the final zero, because there
the code does not do what `libdbus.h` says (lines 67-68 and 108, see below).

### BusConfig

`Names` is what `init` makes of the list. `Saves`, `SaveFails` and `Sed` write
the file of the service's name and then that of its send name, each with its
failures; `Restart` is a process that dies at any step, with half a file. The
documents are those of `XmlText`, printed and read by the same operators that
the runs of tinyxml check.

### tinyxml

Two views of a node. `XmlTree` has addresses and the five pointers of
`TiXmlNode`; an action is a whole call, save for the parser, whose calls nest
and which links a node only after its `Parse` returned (`loose`, `parsing`).
`rank` and `depth` are history variables that make the invariant inductive in
shape. `XmlText` has nodes by value, `[kind, value, attrs, kids]`, and texts as
sequences of tokens: a token is a character, or a word that the code compares
as a whole. Each `Parse` function is an operator that returns where it stopped,
the error and the node; `Condensed` and `Kept` are the two ways of `ReadText`,
`Encoded` is `EncodeString` with its passing through of character references.

`XmlDocument` puts `XmlText` behind a file: stdio's buffer, a disk that refuses
at any byte, a process that stops at any step, files of other programs.
`XmlAttributes` has the sentinel as an attribute of the list, which the code
recognises by its empty name and value only (`Blank`). A failed assertion ends the
process (the Makefile does not define `NDEBUG`), so it is no step of the models:
`FindOrCreate` adds an attribute before it names it, so that `Add` looks for an
attribute whose name is empty, and once an element has one there is no call of
`SetAttribute` or `CopyTo` that adds a new name (`AddsUnnamed`); the parser names
an attribute before it adds it. `XmlString` has buffers
with addresses, so that an argument may lie in the buffer that is changed.
`XmlStream` is the code that the Makefile leaves out (it does not define
`TIXML_USE_STL`); it is modelled because the same files carry it.

## What is checked

Every run ends in under three minutes with two workers.

| run | instance | shows |
|---|---|---|
| `orderly` | two application threads, 2 connections, 2 thread identities, a competitor that allows replacement | the orderly use: `NoFault`, `ListenerServesSession`, `NothingLeftWhenDown`, `ServingWhenUp`, `NamesReachable`, the proofs' `IInv`, and that `Session` implements `SessionContract`; no deadlock |
| `overlap` | two threads, 3 connections, two services, `overlap` and `sendDown` | disconnecting under a sender: the listener and the cleanup still hold, as `SessionProofs` shows for every instance (`NoFault` does not, and is not claimed) |
| `reconnect` | one thread, 3 connections, 2 identities, two services, a competitor, `reconnect`, no callback | `ReconnectServes`: after a second connect, as the same service or the other, the new name is owned and listened to, and the send connection lives; `SendNameReachable` |
| `callback` | one thread, `callback`, fair | `CallsReturn`, also when the callback disconnects and the listener joins itself |
| `calls` | two processes with two sessions each, both may crash; two messages, two outcomes | `ImplementsContract`: one's own answer or a failure; `AtMostOnce`, `OrderKept`, `SelfRequestFails` |
| `calls_return` | fair; two callbacks started by signals, one process may crash | `InboxServed`: a cycle of two requests, and a request to oneself, end by timeouts |
| `payload` | one byte and zero, up to 3 bytes, lengths -1 to 4 of callbacks and of foreign replies, two requests | `ArrivesIntact`, `Terminated`, `NoneLeft`, `ReadsInside` |
| `bus_config` | lists of up to 3 characters, with and without a path, two connects | `ConfigurationIsRead`, `DoneMeansConfigured`, `SepStringSplits` |
| `xml_tree` | 4 nodes, 2 values | the pointers' `IInv`, `ErrorsReachTheDocument`, `LookupsFollowTheOrder`, and that `XmlTree` implements `XmlTreeContract` |
| `xml_parts` | 2 elements, 3 attributes, with empty names and values; 2 strings, 3 buffers | the lists' `IInv`, `LookupsAgree` with `WalksEndAtBlank`, `BuffersOwned`, and that both implement their contracts |
| `xml_document` | the documents of `XmlSamples` and some with what looks like a reference, finished and not; a text with each of its tokens left out or some of them doubled; a buffer of 16, one save | of the documents that can be told from their files (`Storable`): `SavedLoads`, `CutIsReported`, `PrintersAgree`; of all files `LoadedIsNormal` |

Pure functions are compared with reference definitions by `ASSUME`s, which TLC
evaluates before it explores the states of a run:

| module | assumption | of |
|---|---|---|
| `MCXmlDocument` | `Characters`, `Encodings` | UTF-8 and numeric references at every change of length; declared encodings |
| | `Stamps`, `Places` | rows and columns counted in pieces or at once, with tabs, line ends and byte order marks; the place of the first error |
| `MCXmlTree` | `Copies`, `Visits`, `WhiteSpace` | copies of every class of node; visitors enter and leave in pairs; texts without condensing |
| | `Streams`, `ClosedEarly` | what `operator<<` wrote is what `operator>>` takes, and no more, save for one kind of comment |
| `MCXmlParts` | `Integers`, `Doubles`, `Failures` | numbers as texts and back, at the ends of an `int` and the digits of `%g`; what a failed query leaves |
| | `Order`, `Find` | comparison and search with zero bytes inside |
| | `Helpers` | `sepString`, `trimString` and `getFileContent` lose nothing |

Why these bounds. A session has two connections, so 2 suffice for the orderly
use, as `IInv` shows, and one more is what a second connect opens before it
runs out; a thread identity is reused, and the second one lets a new listener
and an old one coexist where the code allows it. One competitor can own either
name, wait for it and let go. One service makes one pair of names; a second one
lets a later connect change the name under which the earlier connections were
registered, which is what `reconnect` needs (it has no callback: one that sends
during a second connect made five million states and no new case, since a send only
reads the pointer). With two messages there are two at once in one inbox, one in a
callback and one from it, an answer that is late for the next request, and a
request of a callback to its own service. Two sessions of a process let it come
back to what an earlier one left behind. In run `calls_return` the two messages
are left to the callbacks, and two signals start them. Three bytes are a text of
two and its zero, one of three without, and one with a zero inside; the lengths
are all that lie below, in and above. A list of three characters can begin, end
or consist of separators, or have two in a row; two connects make the second
one find the first one's list and files. Four nodes are a parent with three
children, whose middle has two neighbours, or a chain of four for the parser;
three attributes are two sets of which one is copied onto the other, or a list
with a middle; three buffers are one more than the strings, for the exchange.
The bounds `MaxSent`, `MaxSessions`, `MaxForeign`, `MaxCalls`, `MaxConnects`,
`MaxSaves` and `MaxLength` are guards; a system that has used them up stops,
which is why most runs do not look for deadlock. `orderly`, `bus_config` and
`xml_document` always have a next step, and do.

Symmetry is used in safety runs only, for connections, thread identities,
addresses and values, which the models never tell apart.

Fairness. `Session!Fairness`: a thread inside the library moves on (weak
fairness of each thread's step, which is disabled only while it waits for the
thread it joins) and the callback returns (strong fairness: the callback may
send again and again, and must still return in the end). `Calls!Fairness` adds
that the daemon delivers and that a blocked caller has a time limit, which
holds for every `timeout` but `INT_MAX`, the one that libdbus takes for none.
Nobody has to connect, send, disconnect or crash. The other modules have no
liveness of their own: a sequential program calls them, and their loops end
with the text or the list they run along.

### Where the documents and the code differ

Run `not_connected` checks what `libdbus.h:36` says, ENOTCONNECT when not
connected, and TLC finds it violated: `connect_flag` is never reset
(`libdbus.cpp:58-66`). Further disagreements of the library with its header,
each of which follows from one definition of the models:

| `libdbus.h` says | the code |
|---|---|
| line 93: disconnect breaks the connection | `init` forgets an open connection (`dbus_operate.cpp:110`) |
| line 37: ECONNRESET when the connection is broken | a notice returns SOK (`dbus_operate_send.cpp:74-83`) |
| line 31: ETIMEOUT | EGENERAL (`dbus_operate_send.cpp:164-230`), which a callback may also return |
| lines 48-51: notices arrive | two interfaces that differ (`dbus_operate.cpp:265`, `dbus_operate_send.cpp:52`) |
| line 57: type 2 is an answer | a signal reaches the callback with type 2 (`dbus_operate_rec.cpp:139`) |
| lines 67-68: no payload is possible | "get info fail!" (`dbus_operate_rec.cpp:159-166`) |
| line 108: the returned length is the payload's | it counts the final zero, which the callback's need not (`dbus_operate_send.cpp:207-222`) |

Seen on the way, and part of the models:

- a second connect keeps a send connection that the bus has cut
  (`dbus_operate.cpp:309-313`), and, when it is for another service, its old name
  too: connecting as `b` after `a` returns SOK though nobody owns `b_send`
  (`:110-123`), so that `ServingWhenUp` is a property of the orderly use and
  `ReconnectServes` says less; one without `srvList` serves whatever the
  last one served (`:95-98`);
- `sepString` keeps empty names unless told otherwise (`base_fun.h:17`), so a
  list that begins with `#` registers the name `com.LibDbus.`; only the first
  name of a list is ever configured and registered, and the failure of
  `creatAllSystemBusConf` cannot happen;
- the result of `SaveFile` decides only whether `sed` runs
  (`dbus_operate.cpp:225`), and `SaveFile` asks `ferror` before `fclose` writes
  the rest (`tinyxml.cpp:1098-1112`), so that a configuration file may be cut
  short and reported as written;
- a callback that gives a length with NULL for a payload ends the process
  (`dbus_operate_rec.cpp:150`);
- `LoadFile` keeps the old nodes when the file cannot be opened, which
  `tinyxml.h:1411-1413` says are deleted, and an old error when the file is
  empty; `useMicrosoftBOM` is never reset;
- a comment, unknown or CDATA section without an end is no error at the top; text
  there ends the parse without one; a declaration that ends in white space trips
  an assertion; its fields are printed without encoding, a double quote among them
  (`tinyxml.cpp:1424`);
- a bare `&` in a file is dropped, which may leave two blanks in a row in a text that
  is condensed; text that looks like a hexadecimal reference passes through
  `EncodeString` (`tinyxml.cpp:60-82`): `&amp;#x41;` in a file is the text `&#x41;`,
  is saved as it is, and is `A` when it is read again; behind one that is not
  finished nothing is encoded any more. `SavedLoads` has the finished ones
  (`Resolved`) and excludes the others; a numeric
  reference wraps at 32 bits and is read from its last `x` or `#`;
- `GetChar` steps over the terminator for a UTF-8 character that is cut short,
  and `Stamp` never ends on a 0xEF that is followed within two bytes by it;
- an attribute without name and value is taken for the sentinel, which ends
  lookups and copies early; once an element has an attribute with an empty name (`SetAttribute("", "1")`
  makes one), setting another new name trips `Add`'s assertion (`tinyxml.cpp:1519`, by way
  of `:1587`), and so does copying the element when that attribute is not the last;
  a string that is appended to itself may read a
  deleted buffer; a string with a zero byte inside may be neither equal to
  another one, nor less, nor greater;
- `QueryUnsignedAttribute` zeroes the caller's value on a wrong type;
  `QueryBoolAttribute` accepts prefixes and trips an assertion on an empty
  value; `SetDoubleAttribute` keeps six digits;
- `operator>>` takes the end of a comment that begins with `>` or `->` for the
  comment's.

## What is proved

`SessionProofs` is checked by TLAPS for every finite or infinite set of threads,
connections, names, services and competitors that satisfies
`SessionAssumption`:

- `TypeCorrect`: `Spec => []TypeOK`, for any application (`Adverse` arbitrary);
- `SessionInvariance`: `Spec => []SessionHolds`, and from it `SingleListener`,
  `ListenerHasSession`, `CleanWhenDown`, `ServesWhenUp` and `NoLostName`, for every
  `Patient` use: connects and disconnects alternate and are left to the main thread
  (neither `reconnect` nor `callback`), while the other threads and the callbacks may
  send whenever they like, before, during and after a session (`overlap`,
  `sendDown`), up to the first use of a bad pointer, with which the program ends;
- `Invariance`: `Spec => []IInv`, and from it `NeverFaults`, for the orderly use
  (`Adverse = {}`), where senders wait for the session.

The properties are not inductive: that a disconnect leaves nothing depends on
what a connect that failed at its third step had built, and that nothing
dangles depends on who may be inside the library at that moment. `SessionHolds` says
the first. `Discipline`: only the main thread is inside connect or terminate, and a
listener sends only in its callback. `Pointers`: which of the two pointers are set at
each place. `Connections`: the set pointers lead to distinct live connections, save
for the instant between unref and the assignment of NULL, and no other connection is
live. `Kept`: one that was closed and not freed has a pending call that keeps it, and
the call's owner is waiting or about to. `Listener`: the one thread is the one whose
identity is stored, it exists from `pthread_create` to the join only, and it uses the
stored connection. `Names` and `Granteds`: what a connection holds is the one name it
asked for, and what was granted stays while the connection is open.

None of this mentions a sender's own pointer, which is why it survives senders that
come too early or stay too long: what they find is freed under them (TLC
refutes `NoFault` on the `overlap` instance), but what they do changes no session. For
the orderly use two parts are added. `NobodyEarly`: nobody sends before the session
is up, or while it is taken down. `PendingCalls`: who waits for a reply holds the
session's own send connection. With them `NeverMisused` shows that the two faulting
actions cannot be taken. Both exclusions of `Patient` are needed: with
`reconnect` alone, where a second connect loses the listening connection and its
thread, and with `callback` alone, where a listener terminates the session that it
serves and cannot join itself, TLC refutes `OneListener`, `ListenerServesSession` and
`NothingLeftWhenDown` on the instances of those two runs.

There is a lemma for each action with a step for each group of conjuncts;
`WithdrawDrops` is the fact about names that all releases share. The proofs
assume `SessionAssumption`, which TLC evaluates in every run of `MCSession`.
One of its clauses deserves mention: a service's send name differs from its
name, but it may be another service's name (service `x_send` next to service
`x`), and the theorems hold in that case too.

The last part of the module has two further results.

- `SessionImplementsContract`: for every `Patient` use, `Spec => ImplementsContract`.
  `SessionHolds` says at each place which rungs of the contract's ladder are taken, so
  that each action is one of the contract's steps or a stutter. What costs work
  is that a rung is computed from the set of live connections: for each action
  it is shown first which sets it leaves alone.
- `SendNameStaysReachable`: `Spec => []SendNameReachable` under any use without
  `callback`, where `SessionHolds` is false: a second connect may have lost the
  listening connection. `SInv` keeps what
  survives: `OnlyMainConnects` (the main thread alone is inside connect or
  terminate), `OneName` (a connection has one name at most, and only while it is
  open) and `Nameless` (what was just opened holds nothing yet, and what is about
  to be forgotten nothing any more).

  Both hypotheses are needed. With `reconnect` and `callback` together the
  property is false, as TLC shows with two listeners: both callbacks are inside
  `terminate` for the same send connection, the main thread connects again in
  between, and the slower callback sets `connect_send_`, by then a new
  connection, to NULL. The other hypothesis is that no send name is another
  service's name: a connection that owns `x_send` as a service would be held to
  the same rule.

`CallsProofs` shows, for every set of processes, threads and outcomes that
satisfies `CallsAssumption` and for all bounds, that `Spec` implies `[]TypeOK`
(`TypeCorrect`), `[]AtMostOnce` (`OnceAtMost`), `[]SelfRequestFails`
(`NoAnswerFromOneself`), `OrderKept` (`KeepsOrder`) and `ImplementsContract`
(`AnswersItsRequests`). The invariant is `CInv`: a message is in one place at
most on its way. `Outgoing`: an outbox holds its own process's messages,
ascending, and all later messages of a sender are still in it when an earlier
one is. `Incoming`: what is in an inbox has left the outbox, has not been seen
by the callback, and is ascending by sender. `Entering`: what the callback has
seen is in neither, and no earlier request of its sender is still in the inbox.
These three are what makes an item leave the inbox for the first and only time,
and in its turn. `Handling` ties the listener's state to the outcome of its
current request, `Answers` says that only an outcome or a failure arrives, and
`Waits` that a thread waits for its own request, a listening thread in its
callback, where no request to its own service can have been entered.
`Posted`, `HeadLeaves`, `HandedOn` and `FirstTaken` say what happens to the queues
when a message is sent, taken by the daemon, handed on and received;
`SendMessageMakes`, `CallbackReturnsRuns` and `ReturnsTells` map the three actions
that the contract sees to its steps.

`PayloadProofs` shows all four properties of `Payload`, for every set of bytes,
codes and lengths and every number of requests. `HeapByStage` says which block
exists between which two calls, and `OnItsWay` what the reply and the caller's
block then say, as equations with the callback's answer: `Copied` is what
`replyToMessage` made of it, `Claimed` the length it wrote beside it.
`Delivered` says exactly what arrives of an honest answer, the library's text for a
missing payload included; `ArrivesIntact`, what a caller may rely on, follows from it
and from where the zero is (`TextIsFound`). From this `IntactOnArrival`, `AlwaysTerminated`, `NothingLeft` and `HonestReadsInside`
follow by cases on where the zero is. `strlen` is the least position of a zero,
and that there is one is `LeastExists` of `NatLeast`, which follows from
the library's `WFMin` and takes the place of induction in this and the next
proofs: the library's induction theorems cannot be instantiated. The assumption `NullAssumption` says
that NULL is neither an answer nor a reply.

`XmlAttributesProofs` shows `ListsHold`, `Spec => []IInv`: the list of every
element is one circle through its sentinel. `Circular` says it with two auxiliary
variables, `owner` and `rank`, the place along the circle;
`FindMeetsAllHolds` is that the walk of `Find`, a least closed set, is the whole
circle: the attribute of least position that it misses would have a predecessor
that it meets. `WalksHold` is the same for a walk with `Next` or `Previous`,
which ends at what looks like the sentinel.

That the lists implement their contract, `ListsImplement`, is shown with the
sequence itself and not with how it is computed. `XmlAttributesWalks` defines what is
met along the pointers as a function on the places `1..n`; `Listed` says which attribute
is at a place and `Spelled` what it has for a name and a value, and `rank` makes the
one a permutation of the members. Each call then has a lemma that it changes the
circle of one element as the contract's call changes its sequence: nothing
(`Set` of a value is an update at one place), one place more at the end, or one
place less, where every later place moves down by one. `Set` adds a name
only to a list without an empty one, as `Add`'s assertion requires, and `NotNamed` says
that the sequence has none then either. A copy is the only call that
reads one list and writes another, and stops early at what looks like the
sentinel (`CopiedIsVisible`).
`LookupsAgreeHolds` then says that what `Find` returns is what the sequence has under
that name.

`XmlStringProofs` shows `StringsOwnBuffers`, `Spec => []BuffersOwned`, and
`StringsImplementContract`, for every set of strings, buffers and characters
that satisfies `StringAssumption`. The invariant is inductive as it stands: an
operation either exchanges the buffer of one string for one that nobody has, or
writes within the capacity of its own, which `SwappedKeeps` and its counterpart
say once for all operations. It is also what the refinement needs: two strings
that share a buffer would change together.

`XmlTreeProofs` shows `TreeHolds`, `Spec => []IInv`, and `ErrorsReach`,
`Spec => []ErrorsReachTheDocument`, for every set of addresses and values. `IInv`
is inductive as it stands; the work is in what it is stated with. The family of a
node, the nodes that a clone copies and those that a climb passes are least closed
sets (`Reach`, with `ReachWithin`, `ReachClosed` and `ReachBelow`), and where a proof
would go by induction along the children `HasFirst` and `LastIsGreatest` take the
child of least or greatest position. Three shapes of change cover every
operation: a loose tree `Spliced` into a `Gap` between two siblings
(`SplicedWhole`: the links at the end, before and after a child, and, after the
old child is taken out, `ReplaceChild`), a tree `CutOut` and cleared (`CutOutWhole`:
`RemoveChild`, the destructors, `Clear`), and `CopyMade` (`CopyWhole`, `CopyApart`:
`Clone`, assignment and what inserts a copy). The parser has a lemma for each step
that says which nodes wait, half linked, for it to return (`Waiting`). For the
error it is enough that the waiting nodes lie one below the other
(`OneDocument`): a climb passes no others and ends at one document.

`XmlChildrenProofs` shows `TreeImplements`, `ChainSpec => ImplementsContract`, for every
set of addresses and values. `ChainSpec` is `Spec` with one more variable, the sequences
that the pointers stand for, which no step reads. They are recursive functions of the
place, of which the prover gets an equation; the proof uses instead that they are `Rows`:
every linked node is at its own place in its parent's sequence, and nothing else is in one.
`ChainsAreRows` shows it of the chains and `RowsUnique` that a tree has one such way to
give sequences, so that for each call it is enough that the contract's new sequences
are rows of the new pointers. `SplicedRows`, `CutRows`, `SwappedRows`, `PrunedRows` and
`CopyRows` say it for the shapes of change of `XmlTreeProofs`. A family is a least closed
set in both modules, along parents in the one and along sequences in the other, and
`FamilyIsBelow` says that they are one. The hardest calls are the two that delete
and copy at once: `ReplacesWithCopy`, where the copy must not reach into the
tree that goes (`CopyKeepsFamilies`), and assignment (`BecomesCopy`), where what is
copied must not be what was cleared (`TreesApart`, `ClearedCopied`); a node of the
class that copies no children may keep its own (`LeafBecomes`). There is a lemma for each call,
and `NextImplements` puts them together with the steps of the parser, each of which is a
step of the contract or a stutter.

The module also shows `LookupsHold`, `Spec => []LookupsFollowTheOrder`. A lookup is a
walk, which is a recursive function of the node that it is at, and what the prover
gets of it is one equation. `UntilForth` and `UntilBack` do the induction: the node of
greatest (for a walk backwards, least) position at which the walk did not give the
foremost match would have a neighbour at which it did, and the equation leads from
the one to the other. `ForemostIs` and `HindmostIs` say that such a match is
determined by the set it is taken from, `HeadAndRest` that it is the head or in the
rest. From them follow the searches with and without a value (`NextIsForemost`,
`PrevIsHindmost`, `EndsAre`), the walk of the handles by index, where what is counted is
how many matches were passed (`NthIs`, `CountedIs`), and the two loops of
`IterateChildren` (`WalksMeet`).

Model-checked only: the liveness properties (TLAPS has no ENABLED); what holds of a session that is
connected twice or disconnected in its callback, apart from the types and the send
name; and everything
about texts, whose definitions are recursive (`XmlText`, `XmlStream`, `BaseFun`
and what uses them, `BusConfig` among it), where the provers have neither
induction nor the definitions.

## What is not modelled

- The lazily created singletons (`dbus_operate.cpp:26-33`): they exist. Two
  threads that make the first calls at once are outside the model.
- More names of a service list than the first: the code stores them and uses
  none.
- The daemon's policy: `BusConfig` says which policy it reads in the files, not
  what it allows by it.
- `pthread_create` leaving an unspecified thread identity when it fails: the
  old one is kept.
- Data races on the statics beyond reading an older or newer value.
- The kind of memory that an allocation failure inside tinyxml would leave: its
  `new` throws, and nothing catches it.
- `TiXmlAttribute::SetName`, with which an application can give two attributes
  one name; `SetUserData`.
- Within a text, words that the code compares as a whole are one token, so that
  a prefix of `version` that is cut off is not told from any other word; names
  are letters, digits and `-` only.
- Logging, the Windows variants (`libdbus.cpp:75-99` among them), the build.

## Plan

Done: everything in the order of the first plan: `Session` and its contract,
`Calls` and its contract, payloads, the helpers, the configuration files, and
the whole of tinyxml. What is left:

1. `Singleton`: two first calls at once, as soon as the header says whether it
   allows them.
2. `xml_tree` with five nodes, for a walk that is replaced in its middle while
   the parser is two levels down.
