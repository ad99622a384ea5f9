# A verification of the VMS broadcaster

The program sends text messages to roadside signs (VMS, variable message
signs). It reads the signs' addresses from an INI file, keeps a TCP connection
to each of them in a thread of its own, reads one JSON message about traffic,
decides which texts go to which group of signs, packs them, sends them, and
ends. It brings its own INI library (minIni) and JSON library (cJSON). This
directory holds TLA+ models of all of it, TLC configurations that check them on
small instances, and proofs for every instance.

## Inventory

| part | source | state | operations |
|---|---|---|---|
| server table | `VMSconnection_manager.c/.h` | groups of servers, a socket handle (or -1) each, one mutex | `vms_manager_init`, `vms_manager_cleanup` |
| connection manager thread | `VMSconnection_manager.c:203` | loop counters, a copy of one handle, the socket it connects | scan, check, close, invalidate, connect, store, sleep |
| sender | `reader.c:30` | group, position in it, copy of a handle, offset in the packet | lock, pick, send, give up, unlock |
| main thread | `reader.c:141` | the flag `keep_running_manager`, the list of messages | start the manager, sleep 10 s, read files, send all, stop, join, clean up |
| message decision | `VMScontroller.c` | a growing list of messages with payload and target groups | load settings, nearest group, add or merge, one pass over approaches and one over conflicts, free |
| packets | `VMSprotocol.c` | a byte buffer | text packet, image packets, UTF-16 conversion, checksums |
| message parser | `sds_json_parser.c` | a tree of C structs | parse each part, free all |
| INI library | `minIni.c`, `minGlue.h` | a file, a temporary file, a line buffer and a mark in the file | get, browse, put (in place, or by rewriting), erase |
| JSON library | `cJSON.c/.h` | trees of linked items; a parse buffer with a depth; a print buffer that grows | parse, print, minify; create, add, insert, replace, detach, duplicate, delete |
| build and data | `makefile`, `platform.mk`, `bin/` | – | – |

Interaction. `main` builds the table, starts the manager thread, and from then
on both threads use the table. The handles are shared under `vms_servers->mutex`;
the flag is a `volatile int` set once. The manager makes its blocking calls
(`connect`, the sleeps) and its `close()` *without* the mutex and has three
short critical sections per server; the sender holds the mutex for a whole
broadcast, through all its blocking `send()`s. What the threads share without
any lock is the process's descriptor table: each closes handles on its own, and
the kernel hands out the lowest free number again. Controller, parser, packet
and JSON code run in the main thread only, on data nobody else has, each on what
the one before returned. INI files are shared with whoever edits them: through
the file system, `flock` and `rename`.

What is hard here: the manager's close between two critical sections (double
close, reuse of the number by another socket or by a file), a connection lost in
the middle of a packet, connections made during a broadcast, shutdown while the
manager is inside a blocking call, descriptors lost in one of the many retries;
processes that read, rewrite, rename and crash on one INI file. In the
sequential parts it is partial failure (an allocation or a nested object that
fails after others succeeded), lengths estimated before what they measure is
known, 16-bit lengths, the ends of texts and buffers, and wrap-around.

What makes the parts correct:

- *manager, sender, main*: nobody closes or uses what belongs to somebody else;
  no descriptor is lost; signs get whole packets of their own group, in order;
  connected signs are not passed over; dropped connections come back; the
  program ends and leaves nothing open.
- *server table*: what is freed was built, once, also when building fails.
- *message decision*: payloads are unique, every target group of a merged
  message is kept once, conflicts come after approaches; the group of a heading
  is the nearest.
- *packets*: the length fields agree with what is written and with what was
  allocated; a sign can read back what was meant.
- *parser*: everything allocated is freed exactly once on every path.
- *INI library*: a put changes one setting and nothing else, a value reads back
  as it was written, readers see a file before or after a put, calls return.
- *JSON library*: links form lists, every item and every key has one owner; a
  text is accepted exactly when it is one, nothing is read or written outside a
  buffer, and what fails leaves nothing behind.

## Plan

Done:

1. `VMSConnections` with its inductive invariant proved, and the abstract
   specification it implements (`SignBroadcast`), proved.
2. `SdsParser`, `ServerTable`, proved.
3. `Bearing`, `MessageList`, `TextPacket`, `ImagePacket`, `Bytes`, proved, and put
   together in `MainThread`.
4. The INI library: `IniWrite` over `IniFile`, proved; `IniValue`, proved; and with several
   processes `IniStore`, which implements `AtomicStore`, proved.
5. The JSON library: `JsonTree`, which implements `JsonLists`, proved; `JsonParse`,
   `JsonString`, `JsonPrint`, `JsonMinify`.

Wanted still: proofs about the other parts of the JSON library; the output of
`MessageList` as the `Jobs` of `VMSConnections` in one state machine; the parts of
cJSON named under "Not modelled".

## Modules

| module | what it is |
|---|---|
| `VMSConnections` | the concurrent program: state, actions, properties |
| `VMSInduction` | the inductive invariant `IInv` and its named parts |
| `SignBroadcast` | abstract: links, streams, broadcasts |
| `VMSBroadcast` | the refinement mapping from the table to links and streams |
| `VMSConnections_proofs` | its types and control states; who owns which descriptor; what goes over the wires; the refinement |
| `SdsParser` | parsing and freeing a message: which blocks exist, which pointers refer to them |
| `Bearing` | the group nearest to a heading |
| `MessageList` | the payloads for each group, merged, sent and freed |
| `Decision_proofs` | proofs about these two |
| `Bytes` | bytes, little-endian fields and checksums |
| `TextPacket` | a text packet: UTF-16 conversion, lengths, allocation, framing |
| `ImagePacket` | an image packet from a file that may shrink; the buffer-init packet |
| `MainThread` | what runs in the main thread, put together |
| `Main_proofs` | proofs about packets, about `SdsParser` and about `MainThread` |
| `ServerTable` | from INI sections to groups of servers, and back to nothing |
| `IniFile` | what the reading functions return for a file |
| `IniBuffer`, `IniWrite` | `ini_puts` by one process, a turn of a loop at a time |
| `Recursion_proofs` | induction over numbers, and functions defined by recursion |
| `Settings_proofs` | proofs about the table and about `ini_puts` |
| `IniValue`, `IniValue_proofs` | a value by its characters: quoting, escapes, numbers |
| `IniStore`, `AtomicStore`, `IniStore_proofs` | a file shared by processes that crash; what they may count on |
| `JsonTree`, `JsonLists`, `JsonTree_proofs` | items and links in memory; the sequences they stand for |
| `JsonParse` | the recursive-descent parser over tokens |
| `JsonString` | a string literal by its characters, parsed and printed |
| `JsonPrint` | the printer and its growing buffer |
| `JsonMinify` | minifying in place |
| `MCVMSConnections`, `MCMainThread`, `MCSettings`, `MCIniStore`, `MCJson` | constants and compositions for TLC |

`MainThread` puts together what runs in the main thread, `MCSettings` what the
program and its library make of INI files, `MCJson` the parts of the JSON library.
The parts of each run one after another and share nothing but what the one before
returned, so a behaviour is one part with any input it may get, while the others
rest; interleaving them would add states and no behaviour.

### VMSConnections and the code

Variables carry the source's names. `socket_handle[<<i, j>>]` is
`groups[i].servers[j].socket_handle`; `mutex` is TRUE while the *sender* holds
the mutex – the manager's critical sections contain no blocking call and are
single steps, so they need only find it free. `i`, `j`, `local_socket_handle`,
`new_sock` are the manager's locals, `mgr` its place in the code; `main`, `job`,
`group_to_send`, `pos` (the sender's `i`), `current_socket_handle`,
`total_bytes_sent` are the main thread's. A local that goes out of scope is set
back to its initial value, which changes nothing the code can see.

`fdTable` says what each descriptor refers to: nothing (`Free`), a file of main
(`File`), or the socket to a server. `net[s]` is the state of the newest connection to
`s` as our end has it: `none`, `ok`, `lost` (the peer is gone and we have no
way of knowing) or `closed` (a FIN or RST has arrived, or a time-out ended it).
`unread[s]` says that the sign has sent something on it: the program never
receives except with `MSG_PEEK`, so the byte stays. `wire[s]` is a history
variable, what the kernel took for the newest connection as chunks
`[job, from, to]`: bytes `from+1 .. to` of packet `job`.

| action | code |
|---|---|
| `MgrScan`, `NextServer` | heads of the three loops, flag tests, the idle loop for no groups |
| `MgrRead`, `MgrCheck` | first critical section; `is_socket_alive_with_select` (`Alive`) on the copy |
| `MgrClose`, `MgrInvalidate` | `close()` outside the mutex; second critical section |
| `MgrAttempt`, `MgrConnectOk`, `MgrConnectFail`, `MgrStore` | flag test, `socket()`, `connect()`, third critical section |
| `MgrSleep` | the sliced sleep of a round |
| `MainCreate`, `MainWake` | `pthread_create` (which may fail), `sleep(10)` |
| `FileOpen`, `FileClose` | the JSON file, then each setting: minIni opens and closes `config.ini` for every value it reads |
| `MainParse`, `MainNextJob` | parse and decide, which may produce nothing; the loops over messages and groups, where a packet may fail to be made |
| `SendLock`, `SendPick`, `SendSome`, `SendFail` | the sender, one `send()` per step |
| `MainStop`, `MainJoin`, `MainCleanup` | shutdown |
| `PeerUp`, `PeerDown`, `PeerClose`, `PeerReply` | the signs and the network |

Abstractions, and why they lose nothing the properties tell apart:

- A packet is its number, its group and its length. Which packets there are
  comes from the constant `Jobs`; the parts that compute them (`MessageList`,
  `TextPacket`) touch no shared state.
- `select`, `recv` and `getsockopt` of one liveness check are one step. No
  other thread can make a dead socket live between them; that one dies
  between is the same as dying after the step.
- `inet_pton` cannot fail on an address `inet_ntop` wrote, so line 274's branch
  is unreachable; `pthread_join` of a joinable thread does not fail.
- `keep_running_manager` is read and written as a whole word, as the build does.
- `iconv_open`, which may open a file of its own, is called before any packet
  is sent to a sign as far as new descriptors go: the C library loads its
  conversion at the first call, when no `send()` has been made. The opening is
  one of the `NumFiles` openings.
- Descriptors below `FirstFd` (standard streams) are never closed.
- Bounds are constants, not guards: the number of servers, packets, files and
  descriptors is finite in every instance, and `wire` is reset by each new
  connection and grows at most by one packet per job. The signs may come and go
  without limit.

### SdsParser and the code

`live` is the set of allocated blocks and `ptr` the set of pointers that are not
NULL, each named as the block it was set to: `Conflict(k)` is both the block and
the field `conflict_pos` of entry `k`. Freeing a block takes it out of `live`;
whether its pointer is cleared is up to the code that frees. `doubleFree` keeps
what was freed when it was not allocated.

A message says only what steers the parser: whether the JSON and the header are
well formed, and for each entry whether its mandatory fields, its conflict
position, its host and its remote object are there and well formed, and whether
objects have way points. Any allocation may fail at any time. An object whose
way points are allocated and freed again within `parse_traffic_object` is as good
as one never allocated (`Parses`, `MayFail`); the field is NULL after both.

| action | code |
|---|---|
| `ParseJson`, `AllocMessage`, `Header`, `AllocList` | `sds_json_parse_message` up to its loop |
| `EntryConflict`, `EntryHost`, `EntryRemote` | `parse_approach_traffic_info_data`, part by part |
| `DeleteJson`, `UseMessage` | the end of the parse; the caller has the message |
| `FreeEntry`, `FreeMessage` | `free_sds_json_main_message` |

### ServerTable and the code

`ini` is the file as a sequence of sections; `section_idx`, `num_groups`,
`total_servers_configured` are the code's. `groups` is what the array has, which
is not always what `num_groups` says. An address is one of `Modulus` numbers
(2^32 in the program), an int has as many values, half of them negative. A name
gives a number or none (`IdOf`, the `sscanf`s). `Keys` is minIni's: the first
section with that name, whichever section is being read.

| action | code |
|---|---|
| `InitData`, `ReadSection`, `NoMoreSections` | `vms_manager_init`, its loop and what it passes over |
| `GrowGroups` | `num_groups++`, `realloc`, which may fail |
| `FillNothing`, `FillGroup`, `FillFails` | the range of addresses; `calloc`, which may fail, and does for a negative number |
| `UseTable` | main has the table (that is `VMSConnections`) |
| `CleanupGroup`, `CleanupData` | `vms_manager_cleanup`; `undefined` when it looks past the array |

The file does not change and can be opened whenever it was opened before. The
closing of handles in cleanup belongs to `VMSConnections`; during init all
handles are -1. A name must be equal to be the same (minIni ignores case).

The two models meet in `TableIsUsable`: what `VMSConnections` assumes of the
table (`TableAssumption`: as many groups as `NumGroups`, a natural number of
servers each) is what `ServerTable` promises of a table that is built. Two groups with the same
number, or empty ones, do come out of it; the run `groups` has both.

### Bearing and MessageList and the code

`Bearing` is `get_closest_target_bearing`: `CalculateBearing` normalises what
`atan2` gives, `FirstTarget` and `NextTarget` are `find_closest_bearing`, a step
per target: the difference of two bearings, wrapped at half the `Circle`, the
smaller one kept. A bearing may be `NaN`, which compares with nothing, so that
the first target is returned.

In `MessageList` the received message is a sequence of entries; a way point is
its group (which `Bearing` finds) and its speed. A payload is what its text tells
apart: which template, the direction code, the speed or the PET. `messages` is what
the array has, `count` what the list says; they differ while an element is made
room for and its strings have no memory (`Garbage`). `list_live` is the set of
allocated blocks.

| action | code |
|---|---|
| `NewList` | `vms_controller_determine_messages` up to its loops |
| `ApproachPass`, `ConflictPass` | the two loops; the `add_message_to_list` calls of an entry are queued in `calls` |
| `AddKnown`, `AddGroup`, `AddMessage`, `AddMessageFails` | `add_message_to_list` by its outcome |
| `Send`, `SendNext` | main's loops over messages and groups, where a packet may fail to be made |
| `FreeList` | `free_vms_message_list` |

### TextPacket, ImagePacket and the code

A byte has `Radix` values (256 in the program), so that a `uint16_t` has
`Radix^2`. The text of a payload is a sequence of characters, each of one to four
bytes in UTF-8 and of two or four in UTF-16 (`units`); a payload may be cut in the middle of
one, and `iconv` may fail or run out of room. The buffer `convert_utf8_to_utf16le`
allocates, the length field and the total are computed at their width.
An image file is measured, allocated for and read again, and may have shrunk in
between; its length is a `long`, the packet's a `uint32_t`. `undefined` is the
place after a write outside a block.

What the signs would read is a definition of its own (`SignReadsText`,
`SignReadsImage`), which takes the packet apart again, checksum and all.

### IniFile, IniWrite, IniValue and the code

`IniFile` says what `ini_gets`, `ini_getsection`, `ini_getkey`, `ini_hassection`,
`ini_haskey` and `ini_browse` return for a file that is a sequence of lines, each
shorter than `INI_BUFFERSIZE`, so that one `ini_read` takes a line. `ini_browse` keeps
the name of the section at the front of its buffer and reads behind it
(`minIni.c:503`): `BrowseTurn` is a turn of its loop, which reads a line or as much of
it as there is room for (`BrowseRoom`), and takes that for a line. What some of the
characters of a line are taken for is the constant `Piece`; `MCSettings` spells lines
out to say it. `IniWrite` is `ini_puts`: the two short cuts (the
setting is there already; the new line has the length of the old one and is
written over it) and the copy. Its steps are the turns of the three loops. Lines are
not kept: `cachelen` counts the characters between `mark` and the read position,
which are read again and written when the buffer is full (`CacheIsLines`).
`WritesEdit` compares the file that results with a definition of what a put
means (`Edited`), line by line and exactly: at the end of a file whose last line
has no terminator one is added, and at the end of one that has it there may be a
blank line more (`Terminable`; `cache_flush` does not say that it ended a line when
it wrote a single character, or nothing). The one request left out is `Headless`, see
"Seen, and not made a run".

`IniValue` takes one value through `writekey` and `getkeystring`, `cleanstring`
and the escapes, with a reader's buffer of any size; numbers go through
`long2str` and `strtol`, in a long of `LONG_MAX`. A `Blank` is what `skipleading` and
`skiptrailing` pass over: the space, and every control character, of which `Tab` is
one. A line feed in a value would end the line and is left out.

### IniStore and the code

`dir` says which file the name and the temporary name stand for, `content` what
each file holds, `locks` who holds which lock through which open file. A writer
is a step per system call that others can see: open, lock (which may wait),
truncate, write at close, rename, reopen; a reader likewise. `ini_openwrite` is
`fopen("r+")` (`OpenExisting`) and, when there was no file, `fopen("w")` in a step of
its own (`OpenTruncated`: `CreateNew`, `TempNew`), which cuts what has come into being
in between. A process may crash
anywhere: its locks go and what it had not flushed is lost; it does the same when the
assertion at `minIni.c:740` fails (`Aborts`: the file is gone that was to lose a
setting). It then makes its call again. The file may be removed. `MaxFaults` bounds crashes and deletions, `MaxReads` the calls of a
reader, `Inodes` the files at one time.

`AtomicStore` promises that a put takes effect at one moment and a get returns
a value that was current at one moment of its call; `Atomic` is the
refinement, under a mapping that reads the settings out of the file of the name.

### JsonTree and the code

`heap` has the fields of every item: `next`, `prev` (of a first item, the last),
`child`, `string`, the two flags and the allocated items and keys. Each exported
function that changes a tree is one action (`add_item_to_array`,
`cJSON_InsertItemInArray`, `cJSON_ReplaceItemViaPointer`,
`cJSON_DetachItemViaPointer`, `cJSON_Duplicate`, `cJSON_Delete`, the references and
the keyed variants); any allocation in it may fail. The caller makes legal
calls: it adds an item it owns, not below itself, and to no reference. A
reference for which the key has no memory belongs to nobody (`lost`):
`cJSON.c:2106` does lose it.

`JsonLists` has the same trees as plain sequences; `Implements` is the refinement.

### JsonParse, JsonString, JsonPrint, JsonMinify and the code

`JsonParse` reads a text of tokens (a literal, number or string that is good, one
that is not, brackets, blanks, a zero) and has the call stack of `parse_value`,
`parse_array` and `parse_object` as a sequence of frames, each with the list it has begun.
`LooksInBounds` asks whether what the code reads
without a test of its own is there. `ParsesValues` compares verdict and end with a definition of the
grammar.

`JsonString` takes a literal by its bytes through `parse_string` with `parse_hex4`
and `utf16_literal_to_utf8`, and a C string through `print_string_ptr` and back.

`JsonPrint` prints items of any shape as a sequence of pieces, each an `ensure`
followed by a write and perhaps an `update_offset` later; the buffer is the
caller's, or grows by `realloc` or by `malloc` and copy, or cannot. `PrintsText`
says also what a caller's buffer must have: the header asks for five bytes
more than the text, and one is enough. `JsonMinify` is the loop of
`cJSON_Minify` over two pointers, `Characters` at a time, in place.

## Runs

| run | module | question | instance |
|---|---|---|---|
| `connections` | `MCVMSConnections` | safety of the threads, with `IInv`; `KeepsBroadcast` | one group of two signs, packets of 2 and 1 bytes, 1 file, 4 descriptors |
| `groups` | `MCVMSConnections` | `AddressedOnly` | two groups with one number, two empty groups, four jobs, 2 files, 2 descriptors |
| `liveness` | `MCVMSConnections` | `Reconnects`, `DropDetected`, `Terminates` | one packet, main may sleep for ever |
| `mainthread` | `MCMainThread` | everything main does with a message: `MainIInv`, `MainNothingLeaks`, `MainInBounds`, `ListIsGrouping`, `OnlyFailedLost`, `SentOnce`, `WarningsLast`, `Nearest`, `SignReads` | five parts, see below |
| `settings` | `MCSettings` | the table (`IInv`, `GroupsMatchFile`), `ini_puts` (`WriteIInv`, `WritesEdit`, `ReadersAgree`, `Advances`), a value (`RoundTrip`) | three parts, see below |
| `store` | `MCIniStore` | `UpdatesKept`, `OneIInv`, `Atomic`, `AllFinish` | one writer of two settings, two readers of two calls, one crash or deletion |
| `json` | `MCJson` | `ListsLinked`, `OwnedOnce`, `JsonSafe`, `ParsesValues`, `StringRoundTrip`, `PrintsText`, `MinifyKeeps`, `Implements` | five parts, see below |
| `peeked` | `MCVMSConnections` | `PeekedMeansAlive`: violated | one packet |
| `freedonce` | `MCMainThread` | `FreedOnce`: violated | messages of up to two entries |
| `cleanup`, `sections` | `MCSettings` | `CleanupInBounds`, `CurrentSection`: violated | the files of `settings` |
| `iniblocked` | `MCIniStore` | `AllFinish` with two writers: violated | a setting each |

### Bounds

*Threads.* Two signs are needed for a number to move from one sign to another, and
for a broadcast to have a sign before and one after the failing one. A packet of
two bytes can be cut, a second packet can follow a cut one. Four descriptors are
one more than can be in use at once (two signs, one being connected or one
file); in `groups` two are too few, so that `socket()` and `fopen()` fail. One
file is enough to steal a number; two let a setting be read after the JSON file.
Nothing in the code depends on more than two servers at a time; the proofs cover
the rest.

*Main thread* (`Parts` of `MCMainThread`). For the parser two entries are enough: one
that is complete, or fails, before or after another; the walk over the list treats
each entry by itself. For the messages, two groups and two speeds let payloads
coincide, differ, or meet in one group again; of two entries that pass only those
are taken whose first point is one of the four, the others being the same under
another name. Bearings are whole degrees (`Circle` 360) against the four targets of
the code: the only numbers that are compared are differences and half a turn.
A byte has 4 values (`Radix`), so a `uint16_t` wraps at 16 and a `uint32_t` at 256;
payloads have up to 4 characters of up to 4 bytes, cut anywhere (`MaxPayload`, in
the program `PAYLOAD_MAX_LEN`), and image files the lengths around each boundary.

*JSON* (`Parts` of `MCJson`). JSON texts are all texts of up to three tokens and four longer ones damaged at any
place, with a nesting limit of 2; literals have up to three pieces; printed items
up to three levels, with a buffer that starts at 4 bytes, doubles, and meets
`INT_MAX` at 20, or is the caller's, of 1 to 22 bytes. Texts to minify are short
sequences of all pieces the loop tells apart.

*Settings* (`MCSettings`). Six addresses (`Modulus`) give ranges that are empty,
positive, negative as an int (three and more) and zero (all six); three sections
put one without a number, or with a name already used, between two others. Files
to be changed have up to three lines (`MaxLines`) of seven kinds, or four of the six
that are not blank, with or without an end on the last, and the buffer (`INI_BUFFERSIZE` 9) holds two or three lines, so
that every copy flushes once at least. One of the names is four characters long, so that
behind it `ini_browse` reads three characters at a time and splits most lines.
Values are all texts of up to five characters
of five kinds, and of up to four with `Tab` as a sixth; a reader's buffers have 1, 3 or
12; longs are of eight bits.

*Store.* One writer rewrites, overwrites in place or appends, and erases; two readers
may be on different files at once. `MaxFaults` is 1: one crash or deletion at any
place. `MaxReads` is 2: the second read of a reader must not be older than its first.
`Inodes` is nine: two names and two open files for each of three processes are never
more than eight (`InodesAssumption`).

*Trees.* Three items make a list with a first, a middle and a last one, a fourth is
put between, or is in another list; the limit of depth for copies is 2. With keys
there are three items, one of which may be a reference. These two restrictions
and `Small` keep the graph finite; the calls may go on for ever.

### What the properties say

Threads:

- `IInv` contains `TypeOK`, `HandleOwned` and `RetryOnlyWhenInvalid`. `HandleOwned`: a
  handle in the table is the server's own open connection, except between the
  manager's close and its second critical section; there the number may be taken
  by a file, never by another sign's socket. This rests on an order that nothing
  in the code states: the files are read before anything is sent, and only the
  manager opens sockets. The mutant that reads a setting between two packets
  breaks `NobodyElsesDescriptor`: the manager then closes the file.
  `RetryOnlyWhenInvalid`: the comment at `VMSconnection_manager.c:285` is right, and
  the `close()` at line 294 is never reached.
- `NobodyElsesDescriptor`: whoever closes, sends or reads finds its own there, or
  nothing. `NoDescriptorLeak`: whatever is open is still known.
- `StreamsFramed`, `AddressedOnly`, `BroadcastComplete`: what signs get.
- `SelectSafe`: handles stay small, so `FD_SET` at line 55 is in range when the
  table has fewer than about a thousand servers.
- `CleanShutdown`, `Terminates`: the end comes, and nothing is in use then.
- `Reconnects`, `DropDetected`: what the manager is for.
- `KeepsBroadcast`: all of this as one abstract state machine. A sign has a link
  while the table has a handle for it; `busy` is the mutex.

Main thread:

- `MainIInv`: the inductive invariants of the five parts.
- `MainNothingLeaks`: whatever is malformed and whichever allocation or call
  fails, each part leaves nothing but what it returns.
- `MainInBounds`: a message has no pointer to freed memory, and only a remote object
  that does not parse makes anything be freed twice (`TwiceOnlyAfterRemote`: the
  double free below has one cause); only filled elements of the list are freed; the
  UTF-16 buffer and the packet are large enough for every payload that fits the
  controller's; only an image of nearly 4 GiB makes a packet's length wrap.
- `ListIsGrouping`, `OnlyFailedLost`: merging by payload loses nothing and keeps the
  order of the first calls, of payloads and of the groups of each; a call
  that has no memory loses its own group for its own payload only. `SentOnce`,
  `WarningsLast`: what a group gets, and in which order.
- `Nearest`: across north too, ties to the first.
- `SignReads`: a packet taken apart again has the text, the place and the size, the
  file, a length and a checksum that agree.

Settings:

- `IInv` of `ServerTable`, `GroupsMatchFile`: the table is counted right and says
  what the file says; the exceptions are spelled out in the property (all addresses
  give none; equal names give the first section's range).
- `WriteIInv`, the inductive invariant of `ini_puts`: what is written, what is only
  counted (`CacheIsLines`: every seek of the copy lands on a line) and what is still to
  be read are together the file with the edit made as far as reading has come.
  `WritesEdit`: `ini_puts` changes what it was asked to change and nothing else.
  `Advances`: every call ends. `ReadersAgree`: after a put the value is read that was
  written and all others as before (`ReadsBack`), and the reading functions say the
  same of one file: `ini_browse` among them as far as no line is longer than what the
  name of its section leaves of the buffer (`Unbroken`), and it always gets to the end.
- `RoundTrip`: a long or truth value reads back as it was written; of a text,
  what is kept of it does (`KeptText`): all of it when it is written in quotes, else all
  but the blanks around it.
- `UpdatesKept`, `Atomic`, `AllFinish`: what processes that share a file may count
  on, through crashes. `OneIInv`: the invariant behind them, with `NeverTorn`, that no
  line is overwritten at a wrong place.

JSON texts:

- `JsonSafe`: parser, printer, string conversion and `cJSON_Minify` read and write
  inside their buffers and leave nothing allocated but what they return.
- `ParsesValues`: a text is accepted exactly when the grammar has it, the end is
  where the value ends, and the tree is linked and prints as the value.
  `StringRoundTrip`: a literal means what its escapes stand for, and print and parse
  are inverse. `PrintsText`: the printed text is the item's, in a buffer that has
  one byte more than it needs. `MinifyKeeps`: blanks and comments go, all else stays,
  but for strings that end in two backslashes, which are left out.

Trees:

- `ListsLinked`, `OwnedOnce`: links form lists; each item is in one list or the
  caller's, each allocated key has one item that frees it. `Implements`: the
  functions do to sequences what their names say.

Every property has a mutant of the code, an operator marked "Mutant" ahead of the
definition it replaces, under which TLC finds it violated. A property that joins
several has one for each of them.

### The violated ones

`PeekedMeansAlive` states the comment at `VMSconnection_manager.c:91`, "Data
peeked, so alive". When a sign has sent anything – an acknowledgement, say –
the check peeks at it in every round, and as nobody ever reads it, the end of
file or reset behind it is not seen. The closed connection is
kept until a `send()` fails, which costs the sign that packet. `DropDetected`
holds because it asks only about connections on which the sign was silent.

`FreedOnce` states the comment at `sds_json_parser.c:288`: what is freed there is
the partially allocated struct. When the remote object of an entry cannot be
allocated or parsed, `parse_approach_traffic_info_data` frees the entry's
conflict position and its host's way points but, unlike after a host that fails, leaves
the pointers; `free_sds_json_main_message` then frees both again.

`CleanupInBounds` states the comment at `VMSconnection_manager.c:336`: cleanup can
take a table that was not built. After a failed `realloc` it cannot: `num_groups`
counts a group that the array does not have, which may be no array at all.

`CurrentSection` states the comment at `VMSconnection_manager.c:131`: the keys are
those of the current section. They are those of the first section with its name.

`AllFinish`, with two writers, states what the comment at `minIni.c:735-737` is
about: the blocked writer reopens the file that was renamed under it. It does,
and waits with `LOCK_SH` for the file on which it has `LOCK_EX` through another
open file, which is its own temporary file under the new name: for ever, and the
readers with it. With one writer `AllFinish` holds (run `store`).

### Seen, and not made a run

- Two writers lose an update when the second read the file before the first
  renamed it (`minIni.c:640-645`, `733`); `UpdatesKept` is asked of one writer. A file
  that is removed while a writer waits is written under its temporary name only (`minIni.c:739-741`).
- After a section with a long name `ini_browse` gives its callback the pieces of a
  line, or nothing for a setting, although it should be "called for every setting"
  (`minIni.c:474`): a line there may have `INI_BUFFERSIZE` less the name's length.
  `ReadersAgree` without `Unbroken` is violated by the files of the run `settings`.
- A value that begins with a blank, or ends with one that is not a space, and needs no
  quotes for another reason, reads back without it: `check_enquote` looks for a space at the end only (`minIni.c:564`).
- An erase whose file is deleted after the temporary file is opened fails the assertion
  at `minIni.c:740`.
- `fopen("w")`, tried when `"r+"` found no file, truncates before the lock is taken
  (`minGlue.h:14-17`): of two writers one may cut the file that the other has just made,
  and is writing. With one writer it only ever makes a new file.
- `ini_hassection` ("1 if the section is found", `minIni.c:436`) asks for a first key: it
  says no for a section without one. To erase what stands before the first section
  (`minIni.c:651` with no section and no key), `ini_puts` skips the first line as if it
  were the header (`minIni.c:798`): a file that begins with a header loses that section;
  `WritesEdit` says nothing of such calls.
- `VMScontroller.h:28` has payloads without their `TXT=` part; the controller puts it
  in. `VMSprotocol.h:44` counts two bytes of UTF-16 a character; characters of
  four bytes have four, which the buffer has room for.
- `\uzzzz` parses as `\u0000`, as `parse_hex4` returns 0 for an error, and `\u0000`
  ends the C string; zeros are skipped as blanks by `cJSON_ParseWithLength`.
- `cJSON_Minify` takes the quote that ends a string in `\\` for an escaped one
  (`cJSON.c:2875`); `JsonMinify` has no such strings.
- `cJSON_PrintBuffered` with a buffer of 0 and no `realloc` copies a byte that is
  not there (`cJSON.c:535`); `Prebuffers` start at 1.

## Fairness

`LiveSpec` asks that each thread, when it can take a step, takes one. For
computing that is the scheduler's promise. For blocking calls it says they
return: `connect()` and the sleeps do; `send()` does when the sign
reads, closes or the connection times out. A sign that keeps its connection open
and never reads can hold the sender, the mutex and so the whole program for
ever; no fairness here denies that, it is what `Terminates` assumes away.
Waiting for the mutex needs weak fairness only because the sender's loop is
finite. Nothing is assumed of the signs.

`SleepySpec` lets main sleep as long as it likes, so that the manager is watched
for as many rounds as a property needs; under `LiveSpec` alone the flag comes
down and "reconnects unless the flag is down" says little. `Terminates` has the
fairness of main as its premise.

In `IniStore` each process is scheduled: weak fairness of each writer and each
reader. A lock is waited for, and its holder lets go of it within finitely many
steps, so weak fairness is enough; crashes and deletions need not happen.

## Proofs

For every server table, list of packets, number of files and range of
descriptors (under `TableAssumption`, `JobsAssumption`, `DescriptorAssumption`,
which say no more than what the C types and the parser give):

| theorem | statement |
|---|---|
| `TypeCorrect` | `Spec => []TypeOK` |
| `HandlesAreOwned`, `HandleInvalidAtRetry`, `NothingLeaks`, `DescriptorsAreOwn`, `ShutdownIsClean`, `HandlesAreSmall` | `Spec => []` of `HandleOwned`, `RetryOnlyWhenInvalid`, `NoDescriptorLeak`, `NobodyElsesDescriptor`, `CleanShutdown`, `SelectSafe` |
| `PacketsAreWhole`, `PacketsAreAddressed`, `BroadcastsAreComplete` | `Spec => []` of `StreamsFramed`, `AddressedOnly`, `BroadcastComplete` |
| `Inductive` | `Spec => []IInv` |
| `ImplementsBroadcast` | `Spec => KeepsBroadcast` |

The argument has three layers, each inductive given the one before.

1. *Control* (`TC == TypeOK /\ Control`). Where a thread is says what its
   counters hold: the manager's pair is a server whenever it touches the table,
   the sender's is one while it sends, the mutex is held exactly in its loop.
   Types alone are not inductive, as table accesses would not be in range.
2. *Ownership*. `HandleOwned` alone is not inductive: whether the manager's
   close is harmless depends on its copy. `CopyOwned` says the copy is the
   handle, or the sender has closed it *and no file is opened any more*; then the
   number is free until the manager closes it again, since only the manager
   itself makes sockets. `SenderCopy` says the sender's copy is the handle as
   long as it holds the mutex. `HandlesAreSmall` counts: below the lowest free
   descriptor there are sockets of *other* servers, one each as none is lost, and
   one file at most (`LowestIsSmall`, an injection of descriptors into holders).
3. *Streams*. Whole packets need that the offset of a send in progress is what
   the last chunk says (`OffsetInFlight`), that no chunk is empty, and that a
   connection about to be stored has carried nothing (`NewIsEmpty`): the sender
   only writes where the table has a handle, which it has not for a server being
   connected.

The refinement takes one more invariant, `JobsInOrder`: a stream ends in an
earlier packet than the one being sent, unless the sender has served that sign
already. Then each step is one of `SignBroadcast`: storing a handle is `LinkUp`,
giving handles up `LinksDown`, taking the mutex `Begin`, a `send()` `Deliver`,
leaving the loop `Finish` (by `BroadcastComplete`); passing a job over is `Skip`,
and the rest stutters.

For the parser (`Main_proofs`), for every set of messages (`MessagesAssumption` only
gives their type):

| theorem | statement |
|---|---|
| `TypeCorrect`, `ParserInvariant` | `Spec => []TypeOK`, `Spec => []IInv` |
| `NothingIsLost`, `PointersAreGood`, `OneCauseOnly` | `Spec => []` of `NothingLeaks`, `NoDangling`, `TwiceOnlyAfterRemote` |
| `FreedOnceWithoutRemote` | if no entry has a remote object, `Spec => []FreedOnce` |

Its invariant says which pointers may be set at each place (`Known`), that
entries not reached yet have none (`Fresh`: the `calloc` of the list), and that as
long as nothing has failed all pointers are good (`Verdict`).
`DanglingOnlyAfterRemote` is what makes `TwiceOnlyAfterRemote` inductive: a pointer
dangles for a while before it is freed again.

For the nearest group (`Decision_proofs`), for every circle and every list of targets
that is not empty: `BearingInvariant`, `BearingTyped`, and `NearestGroup`
(`BearingSpec => []Nearest`). The invariant says that `closest` is the first of the
nearest of the targets looked at so far (`NearestSoFar`).

For the list of messages (`Decision_proofs`), for every set of received messages and
whichever allocations fail:

| theorem | statement |
|---|---|
| `ListInvariant`, `ListTyped` | `ListSpec => []` of `ListIInv`, `ListTypeOK` |
| `OnlyFailedAreLost`, `CallsAreGrouped` | `ListSpec => []` of `OnlyFailedLost`, `ListIsGrouping` |
| `SentOnlyOnce`, `WarningsAreLast` | `ListSpec => []` of `SentOnce`, `WarningsLast` |
| `ListFreed`, `FreedInside` | `ListSpec => []` of `ListNothingLeaks`, `FreedInBounds` |

Its parts: `ListOwned`, what is allocated is what `messages` and `count` say;
`ListMerged`, payloads are unique in the list and groups in an element;
`SentInOrder`, what was sent is what stands before the place main is at;
`ListOrdered`, no call for a warning is made while calls of approaches are left, so
that warnings come last in the list, although a later call may add its group to an
earlier element; `ListComplete`, what the passes have come by is in the list, had no
memory, or is among the calls still to be made; `ListGrouped`, as long as no call was
without memory, the list groups the calls made so far (`Made`), and those left are the
last of the entry the pass is at.

For packets (`Main_proofs`), for every size of a byte, set of payloads and set of
image files:

| theorem | statement |
|---|---|
| `TextInvariant`, `TextTyped` | `TextSpec => []` of `TextIInv`, `TextTypeOK` |
| `BufferLargeEnough`, `PacketInBounds`, `TextLeavesNothing` | `TextSpec => []` of `Utf16Fits`, `InBounds`, `TextNothingLeaks` |
| `TextsAreRead` | `TextSpec => []SignReadsText` |
| `ImageInvariant`, `ImageTyped` | `ImageSpec => []` of `ImageIInv`, `ImageTypeOK` |
| `OutOnlyForHugeFiles`, `ImageLeavesNothing` | `ImageSpec => []` of `OutOnlyWhenHuge`, `ImageNothingLeaks` |
| `ImagesAreRead` | `ImageSpec => []SignReadsImage` |

The invariant of a text says, place by place, what is allocated (`Held`), how long
what was allocated is (`Sized`), and that the room left in the UTF-16 buffer is enough
for the bytes left in the payload (`Room`); that twice a payload never reaches the
wrap of a `uint16_t` is what makes the lengths agree. That a sign reads what was meant
takes lemmas on fields and checksums: a number below the width is what its bytes
stand for, and a sum of bytes modulo the width is that of the bytes before it plus
one byte more. `PayloadsAssumption` and `MaxPayloadAssumption` say that a payload is
UTF-8 and fits `PAYLOAD_MAX_LEN`; `FrameAssumption` that the frame of a packet is
shorter than 4 GiB.

`Main_proofs` carries these to `MainThread`: each of its steps is a step of one part
and leaves the others, so `MainSpec` implies the specification of every part
(`MainImplies`). `MainInvariant`, `MainLeavesNothing`, `MainStaysInside`, `SignsRead`,
`MainListIsComplete`, `MainListIsGrouped`: `MainSpec => []` of `MainIInv`,
`MainNothingLeaks`, `MainInBounds`, `SignReads`, `OnlyFailedLost`, `ListIsGrouping`.

For the table (`Settings_proofs`), for every file, `Modulus` and numbering of names:

| theorem | statement |
|---|---|
| `TypeCorrect`, `TableInvariant` | `Spec => []TypeOK`, `Spec => []IInv` |
| `TableIsUsable`, `NothingIsLost`, `OneWayOut` | `Spec => []` of `TableUsable`, `NothingLeaks`, `OutOnlyAfterRealloc` |
| `TableMatchesFile` | `Spec => []GroupsMatchFile` |

Its invariant relates `num_groups` to the array place by place (`Built`, `Torn`),
the memory to the groups cleanup has not passed (`Held`), and `num_servers` to the
servers where the table may still be used (`Full`). `num_groups <= section_idx` bounds the
groups by the sections, so that the types hold for every file. `MatchSoFar` and
`AllRead` say that the groups built are those of the sections read: the place of a
section's group is the number of sections up to it that make one.

For `ini_puts` (`Settings_proofs`), for every size of the buffer, every file whose
lines fit it (`Readable`: a line is not empty and shorter than `INI_BUFFERSIZE`, all
but the last end with a terminator), and every request whose lines fit too (`Fitting`):

| theorem | statement |
|---|---|
| `WriteInvariant`, `CacheHolds` | `WriteSpec => []` of `WriteIInv`, `CacheIsLines` |
| `OneSettingChanges` | `WriteSpec => []WritesEdit` |
| `CallsAdvance` | `WriteSpec => Advances` |
| `ReadersAreRight` | `WriteSpec => []ReadersAgree` |

`CacheIsLines` needs to know how far reading has come, and `WritesEdit` what is
written already, so the invariant adds `Begun`, `Searched` (no header before the read
position is the one looked for; then none of the lines since ends the search for the
key) and `Written` (the lines before `mark` are out, less what is erased; once the
change is made, the copy of the rest completes it). Sums of sizes increase strictly
from line to line, as no line is empty: so the place where the characters counted
from `mark` are used up is the place where reading stood (`Flushed`), although
the code keeps no line number. Then a flush copies whole lines, and the sequence
`out \o SubSeq(old, mark + 1, Len(old))` does not change by it.

`ReadersAgree` needs no invariant of its own: it follows from `WritesEdit` and what the
readers do with any two files of which one is an edit of the other. The proof goes by
the kinds of edit (`ReplacedReads`, `InsertedReads`, `AddedReads`): where the first
header of each section comes to stand, which lines are then in which section, and
which of them is the first with a name. What `ini_browse` reads is a recursion over its
turns (`BrowseIs`). Each takes a character at least, for the name of a section fits
a buffer with three to spare, as it was read from there (`TurnIs`), so that enough turns
get to the end (`BrowseEnds`); as long as no line is broken, turn `n` is line `n`
(`BrowsedWhole`), and later turns only add calls (`CallsStay`).

For a value (`IniValue_proofs`), for every text, blanks and all, length of the key, size of the two
buffers and width of a long: `ValuesReadBack`, `ValueSpec => []RoundTrip`. A call is two
steps, so the invariant only says that `text` and `read` are what the two functions
make of the value; the proof is about the functions. Each is a recursion over the
characters, and a lemma says that it has a value and unfolds it (`CellsAre`,
`SkipsAre`, `InQuotesAre`, `DequotedIs`, `DecimalIs`, from `Recursion`). `CellPlaces`
says where in the copy the cell of a character stands; from it, by induction over the
characters (`Inductively`): taking the escapes off gives back what was copied, wherever
it was cut (`CellsDequoted`), for a backslash of the text is never followed by a quote in the
copy but by that quote's own escape; and between the quotes every character counts as
quoted, so that no comment begins there (`QuotesHide`). A value is plain, quoted, or wants quotes
and has no room for them, and then one character at most is written (`PlainReads`,
`EnquotedReads`, `ShortReads`). What is left of a plain one is what stands between its first and its
last character that is no blank (`TrimmedAt`, `PlainCleaned`); a number has no blank
(`SolidReads`). The digits that `long2str` writes from the last to the
first are those that `strtol` reads from the first (`DigitsAre`, `DecimalIs`,
`LongReads`), for either sign. `LongTextAssumption` says that numbers fit the 32
characters that `ini_putl` has for them.

For the store (`IniStore_proofs`), for any number of readers, any requests and any
bound on faults:

| theorem | statement |
|---|---|
| `StoreInvariant`, `TypeCorrect` | `Spec => []` of `IInv`, `TypeOK` |
| `OneAtATime` | `Spec => []WriterAlone /\ WritesLocked`: who writes a file is alone with it, and only `fopen("w")` changes one without its lock |
| `FilesStandStill` | with one writer, `Spec => StandsStill`: no file changes while it is read or copied |
| `OneWriterInvariant`, `NoLineIsTorn`, `PutsAreKept` | with one writer, `Spec => []` of `OneIInv`, `NeverTorn`, `UpdatesKept` |
| `ImplementsAtomicStore` | with one writer, `Spec => Atomic` |

The first two lines hold for any number of writers. The others need that there is one
(`Writers = {w}`), and are false without it: two writers do lose an update, do cut each
other's files, and do wait for each other, see above. The invariant says of each place of a call which files and
locks the process has; that the file the writer looked its line up in is still the one
of the name, or nobody's (`SameFile`, `SameLine`); and that what it has in its buffer
is the file of the name with the one setting changed (`Pending`). The writer
crashes and files are deleted at any step, within the bound.

For the trees (`JsonTree_proofs`), for every finite set of addresses, every set of keys
and every `CJSON_CIRCULAR_LIMIT` (`LimitAssumption`: a natural number):

| theorem | statement |
|---|---|
| `HeapStaysSound` | `Spec => []IInv` |
| `ListsStayLinked`, `EveryItemOwnedOnce` | `Spec => []` of `ListsLinked`, `OwnedOnce` |
| `HeapImplementsLists` | `Spec => Implements` |

Neither invariant is inductive: what a call does to links says nothing about the items
of a list until one knows which list they make. `IInv` says that there are lists `L`,
one for each address, such that the heap is sound for them (`Sound`): the links are
those of `L`, forwards, backwards and around, in distinct items, an item in one list
only (`Represents`); the live items are those in a list and those somebody owns, never
both (`Owned`); a free address has nothing left of the item it was (`Blank`); and as
many keys are allocated as items will free (`Counted`). What the code sees of a list,
`Items`, is then `L` (`ItemsIs`): following `next` from the first item, never longer
than there are items, as they are distinct (`NotTooLong`).

The proof of a step has three parts. What the helper does to links is `L` with one
list changed (`AddIs`, `DetachIs`, `InsertIs`, `ReplacedIs`), the many cases of first,
middle, last and only item being there. What `cJSON_Delete` frees is the least set
with the item and what its links lead to (`ClosureIs`), which is the item and what is
below it in `L` (`DeletedIs`), so that what stays has no link into it. And
`cJSON_Duplicate` makes of each way down from the original, through references too, an
item of its own; there are finitely many as the ways have bounded length, and the copies
of the items of one list follow one another as these do (`CopiedIs`, `CopyLinks`). Each
action then makes sound lists of sound ones, `NextSteps`, and `Moves` says what it did
to them, which is what an action of `JsonLists` does, or nothing
(`StepsImplement`). That is the refinement, for `Sequences` is `L` (`ListsAre`).

What the proofs keep to: sequences come from the theorems of the library, induction
over positions is by a least counterexample (`Smallest`, `LeastOf`), and a recursive
function is unfolded by a lemma of its own (`RunExists`, `UnitsExist`, `Recursion`,
`GrowsExists`).

*Only model-checked.* Liveness and `ENABLED` are outside what the prover does:
`Reconnects`, `DropDetected`, `Terminates`, `AllFinish`. `JsonSafe`,
`ParsesValues` and `PrintsText` rest on operators that are declared `RECURSIVE`, as
nested values are, which the prover does not take. `StringRoundTrip` and `MinifyKeeps`
are not proved.

## Not modelled

- *JSON library*: the conversion of numbers (`parse_number`, `print_number`) but for
  where they begin and end; `cJSON_Compare`, `cJSON_SetValuestring`, the setters of
  numbers and the type queries; the skipping of a byte order mark; the hooks that
  replace `malloc`. An allocation that fails inside `cJSON_Duplicate` or
  `cJSON_CreateStringArray` and the like is taken to undo the whole call, as their error
  paths do. Callers add nothing to a reference, and do not use what they
  freed.
- *INI library*: the formatting of floating-point values (`ini_getf`, `ini_putf`).
  Lines are shorter than `INI_BUFFERSIZE`, which `getkeystring` and `ini_puts` take in
  pieces when they are longer; `ini_browse` does so sooner, and that is modelled.
- `iconv`, `flock`, the file system, TCP and `select` are external: modelled from
  how the code uses them.
- `Change_CVIBDirCode` only feeds a `printf`; logging is left out throughout.
- Half-open connections (`lost`, `VMSconnection_manager.c:94`) are modelled, but no
  property asks for their detection: without keep-alive or traffic the code
  cannot notice them.
- The output of `MessageList` is not fed to `VMSConnections` in one state machine;
  the latter takes any `Jobs`.
- The build files and sample inputs have no behaviour.
