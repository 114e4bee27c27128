# Verification of Friendly Logs

Friendly Logs is a Plesk extension. A PHP page starts a small C++ server,
`log-server`; the browser opens a WebSocket to it and asks for log files of a
domain; the server reads each file to its end and then follows it with `tail -F`,
and sends the lines to the browser as they come. This directory holds TLA+ modules
translated from that code, TLC configurations that check them on small instances,
and proofs that TLAPS checks for every instance.

The repository states its behaviour almost only in its source; the few comments
that promise something are quoted where a property is about them.

- [1 Inventory](#1-inventory): the components of the program
- [2 Plan](#2-plan): the modules and how they are composed
- [3 The modules](#3-the-modules): how state and steps correspond to the code
- [4 The runs](#4-the-runs): what is checked, bounds, fairness
- [5 The proofs](#5-the-proofs): what is proved, and how
- [6 Where code and comments disagree](#6-where-code-and-comments-disagree)
- [7 What is not modelled](#7-what-is-not-modelled)

Paths below are relative to `src/`.

## 1 Inventory

### 1.1 WebSocket server (`log-server/web_socket_server.cpp`, `.h`)

*State.* `clients`, a `std::map` from id to `Client`; `id_counter`; `clients_mutex`
and `clients_not_empty_cond`; the listening socket; `stop`, which nobody sets.

*Operations.* `Run` starts two threads and returns. `ListenConnections` accepts a
connection (blocking, TLS handshake included), takes the mutex, chooses an id
(`GenerateID`), inserts, and signals if the map has just got its first client.
`ListenMessages` waits until the map is not empty, collects the sockets under the
mutex, releases it, selects for at most two seconds, takes the mutex again and
visits every client whose socket is flagged: receive, hand messages to
`OnMessage`, and on failure `Disconnect`, `OnDisconnect`, erase.

*Interaction.* `OnMessage` and `OnDisconnect` are pure virtual and called with
`clients_mutex` held. Derived classes see `clients`.

*Hard.* The set given to `select` is used after the mutex was released and taken
again, while the kernel reuses descriptor numbers; ids are reused; the condition is
signalled only on the transition from empty to one; only the timeout gets a client
read that joined while `select` was waiting.

*Correct when* ids in the map are distinct; each client in it owns an open socket;
what select was asked about belongs to the clients that are visited; the reader
does not sleep while there are clients; what clients send is read; clients that
left are removed.

### 1.2 Client connection (`log-server/client.cpp`, `.h`)

*State.* `socket`, `tls_connection`, `handshaked`, the receive buffer `frame_buf`
with `frame_buf_pos`, the send buffer `send_buf`.

*Operations.* `Accept`, `SetNonBlocking`, `Receive` (with `Handshake`), `Send`,
`SendFrame`, `Disconnect`, `CloseSocket`.

*Interaction.* `Receive` and `Disconnect` are called by the message reader, `Send` by
the main thread, with no lock in common.

*Hard.* `SendFrame` waits without a timeout; `socket` becomes -1 under it; `send_buf`
and the SSL object are shared by two threads; data that TLS has already decrypted
is invisible to `select`; SIGPIPE is not handled.

*Correct when* every complete frame in the buffer is delivered once and in order,
partial ones are kept, nothing waits where `select` cannot see it, the buffer never
overflows and is never full when it is read into, and a send to a live client returns.

### 1.3 Log server (`log-server/log-server.cpp`)

*State.* `logs`, a `std::list` of `LogDescription` (name, descriptor, stdio stream,
pid of the tail, client id, time of the next line); `logs_mutex` and
`logs_not_empty_cond`.

*Operations.* `OnMessage`: `add <file>` opens the file and appends a description,
`del <file>` cleans up and erases the first one with that client and name.
`OnDisconnect` erases all of the client's. `Run` (the main thread) waits until the
list is not empty, selects on all descriptors for at most two seconds, and for each
flagged log looks the client up, reads a line (`GetNextLine`: from the file, at its
end from a new `tail -F`), and sends it.

*Interaction.* Lock order is `clients_mutex`, then `logs_mutex` (the reader calls the
handlers with the first held). `Run` holds `logs_mutex` while it sends, and looks
into `clients` without `clients_mutex`.

*Hard.* Everything that two mutexes and three threads can do to the two lists; an
iterator into the map kept across a blocking send; descriptors closed and reused
between filling the sets and `select`; `Cleanup` with `tail_pid` = -1; a log whose
read failed staying in the list with its stream closed.

*Correct when* a log is read while, and only while, its client is there; each line
goes to the client that asked; one client's log ends for no other client's reason;
descriptors are never shared; a request is always answered by reading.

### 1.4 WebSocket frames and handshake (`log-server/cwebsocket/websocket.c`, `.h`)

Stateless: `wsParseHandshake`, `wsGetHandshakeAnswer`, `wsMakeFrame`,
`wsParseInputFrame`. Hard: `inputLength - 6` wraps in `size_t` when the header has not
come whole; lengths of two and eight bytes are read without `ntohs`; the length of a
header field is kept in eight bits. *Correct when* a frame is taken for what the
browser sent, and only when it is there.

### 1.5 SHA-1 and base64 (`log-server/cwebsocket/sha1.c`, `base64_enc.c`)

Vendored from AVR-Crypto-Lib. Stateless.

### 1.6 Panel extension, server side (`friendly-logs/plib`)

`IndexController::init` runs `pgrep log-server` on each page load and starts the
server if there is none. The rest lays out a form. Hard: check-then-act between
page loads; a server that fails to bind stays alive in its main thread and is found
by `pgrep` ever after; tails inherit the listening socket. *Correct when* after a
page load some server accepts.

### 1.7 Panel extension, the log view (`friendly-logs/htdocs/js/uiScript.js`)

*State.* `logEntries`, `currentPage`, `pagesCount`, the check boxes, `workSocket`.
*Operations.* `SocketWorker` dials; check boxes send `add` and `del`; each message
is inserted (`addEntry`), pages are added and redrawn (`goToPage`). Hard: the page
is drawn before `pagesCount` is advanced; `clearAll` leaves `currentPage`; `findPlace`
searches a list that never has what it looks for; a box clicked before the socket is
open. *Correct when* there is a link for every page, what is drawn is part of what is
kept, the newest line is seen, lines keep their order, and sorted ones are in that of their
times (they are not: section 6).

### 1.8 Build and install (`log-server/Makefile`, `makescript.sh`, `plib/scripts`)

No state; the install scripts are commented out. `try/` is a scratch page.

## 2 Plan

In the order of what matters most to a user of the program: that lines reach the
browser that asked for them, and keep reaching it.

| module | what | status |
| --- | --- | --- |
| `WebSocketServer` | accepting and reading threads, map, select; open for a derived class | checked, proved |
| `LogServer` | extends it: list of logs, handlers, `Run`; shown to be a derived class | checked, proved |
| `Subscriptions` | abstract: who gets lines of which file; `LogServer` implements it | refinement checked and proved |
| `WsFrame` | the codec as operators on lengths and fields | proved about, through `ClientBuffer` |
| `ClientBuffer` | `frame_buf`, TLS records, `Receive` as called by the loop | checked, proved |
| `Mailbox` | abstract: messages come out as they went in; `ClientBuffer` implements it | refinement checked and proved |
| `LogReader` | one log: stdio buffer, end of file, start of `tail -n 0`, pipe | checked, proved, through `LineFlow` |
| `LogView` | entries and pages in the browser | checked, proved, through `LineFlow` |
| `LineFlow` | composes `LogReader` and `LogView`: a line's way from the file to the page | checked, proved |
| `Launcher` | page loads, `pgrep`, bind, crash | counterexample; proved that it is permanent |

*Composition.* `LogServer` EXTENDS `WebSocketServer` as the class extends its base.
`WebSocketServer` leaves the derived class open (`HandlersReturn`, `DerivedStep`), and
`Spec => WSSpec` says that `LogServer` fills that opening and no more, which is how
everything proved of the base class is true of `LogServer`. Its clients see less of it:
`KeepsSubscriptions` is its refinement of `Subscriptions`. `ClientBuffer` says that the
inbox of a connection, one value for a message in `WebSocketServer`, is a fair picture of
the bytes: `MessagesInOrder` is its refinement of `Mailbox`. `LineFlow` puts the reader
before the page; between them is the connection, a FIFO.

*What could come next.* A stronger `Subscriptions` with the lines themselves, numbered, as
`LineFlow` has them for one log; a run of `Launcher` for the invariant that is now only
proved; several logs on one page in `LineFlow`; the child that fails to exec.

## 3 The modules

### 3.1 What a step is

A step is what one thread does between two points where another thread can see a
difference: taking a mutex, waiting, blocking, or touching something shared without a
lock. `cl_pc`, `ml_pc` and `run_pc` say where the three threads are. A mutex is not a
variable: it is held exactly while a thread is at certain places (`ClientsFree`,
`LogsFree`), and a step that locks has that as its guard. A step that locks, works and
unlocks without blocking in between is one step (`FillFdSet`, `PushLog`,
`StopReadingLog`).

### 3.2 WebSocketServer

| TLA+ | code |
| --- | --- |
| `clients`, `id`, `socket`, `handshaked`, `id_counter` | the map and the members of `Client`; a client is identified by its connection, `id` is the key |
| `fds` | the process's descriptors, with the kernel's rule (lowest free number) |
| `link`, `inbox`, `sent` | the connection, what the peer has sent and the server not read |
| `left`, `stalled` | peers that closed, or sent what makes `Receive` fail; peers that do not read. A peer may be both: a send to it blocks until the kernel gives it up (`PeerResumes`) |
| `cl_pc`, `cl_conn` | `ListenConnections`: `accept`, `tls` (in SSL_accept), `lock`, `insert` (mutex held) |
| `ml_pc`, `fd_set`, `flagged`, `cur`, `text` | `ListenMessages`: `wait`, `asleep`, `woken`, `select`, `lock`, and with the mutex held `pass`, `recv`, `onmessage`, `disconnect`, `ondisconnect`, `erase` |
| `Accept`, `TlsAccepted`, `TlsRefused` | `Client::Accept`; a refused connection leaks its descriptor as in the code |
| `LockToInsert`, `GenerateID`, `Insert`, `Signalled` | insertion and signal |
| `SleepOnEmptyMap`, `FillFdSet` | `WaitUntilListIsNotEmpty` and the first loop; the emptiness is tested with `if`, not `while`, so that a spurious wakeup selects on nothing |
| `SelectReady`, `SelectTimeout`, `SelectFails` | the outcomes of `select`; on failure the set stays as filled and is used |
| `NextClient` ... `Erase` | the second loop |
| `ReceiveHandshake`, `ReceiveFails`, `Expected`, `AnswerFails` | `Receive` until the handshake is answered: the answer waits for a peer that does not read, or cannot be sent |
| `Disconnect` | the closing frame, which waits without a timeout and with `clients_mutex` held for a leaver that does not read, then the close |
| `SurvivesSend` | SIGPIPE, towards a peer that has left |
| `HandlersReturn`, `DerivedStep` | what is left to a derived class: handlers that return, and steps that change neither sockets nor anything the base class keeps |
| `alive` | FALSE once a signal has killed the process (SIGPIPE, abort); nothing happens after it |

A frame is one value in `inbox`. `Receive` may return "data available" or not after
each message (`ReturnFromOnMessage`), whichever the buffer would have made it say.

### 3.3 LogServer

| TLA+ | code |
| --- | --- |
| `logs`, `desc` | the list and the `LogDescription` of each node: `client` is `client_id`, `fd`, `phase` stands for `stream` and `tail_pid`, `lines` counts what waits to be read |
| `pipe0`, `pipe1` | `tailPipe` of `OpenTail`, between `pipe` and what follows `fork` |
| `desc[l].owner` | not in the code: the connection that asked. It lets properties say what `client_id` is meant to say although ids are reused |
| `hook`, `pend` | inside `StartReadingLog` between open and push; inside `DeleteRequestsFromClient` |
| `run_pc`, `read_fds`, `except_fds`, `todo`, `it`, `client_it` | `Run`: `wait`, `asleep`, `woken`, `select`, `relock`, and with `logs_mutex` held `pass`, `read`, `pipe`, `fork`, `send`, `write`, `hung`, `except` |
| `AfterCleanup`, `Drop` | `Cleanup` and erase; with `tail_pid` = -1, `waitpid` and `kill` speak of every child |
| `UseClosedStream` | `fclose` or `fgets` on a closed stream. That is undefined, and nothing is claimed after it (section 7). Every place that would do it does it here |
| `OpenLog`, `OpenLogFails`, `OpenLogLeaks`, `PushLog`, `StopReadingLog`, `LockToPurge`, `PurgeLog`, `EndPurge` | the handlers. `OpenLogLeaks`: the file is opened, `fdopen` fails, nobody closes the descriptor |
| `SelectOnClosedFd`, `SelectLogsReady`, `SelectLogsTimeout`, `SelectLogsInterrupted` | the outcomes of `select` and what `Run` does with each |
| `ClientFound`, `ClientMissing` | `clients.find` without `clients_mutex`: while the map is being changed the search may miss anyone (`MapChanging`). An insertion moves nodes only if there are two already, so that it takes three clients, or one being erased |
| `ReadLine`, `ReadTailFails`, `ReadClosed`, `CloseFile` | `GetNextLine`: a line; nothing from the pipe; a stream that was closed before; the end of the file |
| `MakePipe`, `PipeFails`, `ForkFails`, `StartTail`, `TailFdopenFails` | `OpenTail`, in steps because the other threads open and accept meanwhile |
| `StartSend`, `HangInSend`, `FinishSend` | `Send`: with `socket` = -1, at its first look or at a later one, it calls `select` with nothing to wait for and no timeout (`hung`) |
| `NoException`, `Exception` | the second test of the loop |

`Subscriptions` is what a client may count on, without threads, mutexes, ids or
descriptors: `members` are the clients in the map, `subs` the nodes of the list as
log, owner and file, `sending` the line `Run` is sending, if any, and to whom its iterator
points. A line goes to who asked for the file; a subscription does not end while a line of
it is on its way, and starts only for a member; a client leaves only when it has none. It
promises no line at all: that is `NewLogIsRead`, and false in general (section 6).

### 3.4 WsFrame, ClientBuffer, Mailbox

Bytes are counted, not spelled: a frame is its type and the length of its payload.

| TLA+ | code |
| --- | --- |
| `PayloadLength`, `Swapped16`, `Beyond` | `getPayloadLength`: two bytes are read in the wrong order, eight bytes give a number no smaller than 2^32, for which one value stands |
| `wsParseInputFrame(f, n)`, `Parsed` | the parser on the first n bytes of f, or on bytes that read as a frame of a given type and length; `PayloadMissing` is false when n is smaller than the header, because `inputLength-6-...` wraps |
| `wsMakeFrame` | the size and byte order of what the server sends |
| `wsParseHandshake(req, n)` | a request is its length and its fields, whose values are the wanted one, another, or one of length 0 in eight bits |
| `wire`, `sealed`, `records`, `fin` | the peer: bytes written, sent in TLS records, the ends of the records not decrypted yet, closed |
| `decrypted`, `read`, `parsed` | bytes OpenSSL has decrypted, `SSL_read` has returned, and `Receive` has taken out of `frame_buf`; `frame_buf_pos` is `read - parsed` |
| `at` | `select`, or in the do-while loop about to call `Receive` |
| `delivered` | what was passed to `OnMessage` |
| `ReceiveData`, `ReceiveRest`, `ReceiveNothing`, `ReceiveEnd` | `Receive` by what `SSL_read` returned: data; nothing with a rest in `frame_buf` or without; the end or an error |
| `TakeText`, `Refuse`, `Moved`, `Answer` | a text frame that fits; one that does not; the `memcpy` to the front; the handshake answered |
| `status` | `closed`: `Receive` returned an error; `dead`: an assertion failed or a copy of wrapped size ended the process |
| `garbled` | what is in `frame_buf` does not start with a frame, or is not what was sent |
| `Results`, `Garbage` | what the parser may make of the n bytes there are: of a frame, what it is; when garbled, anything in `Garbage`, for the masked payload of a frame is at the peer's choice |

The reader does not notice that it has misread a length: `Receive` returns that more may
be there, and the loop goes on parsing what is not the start of a frame and delivers what it
finds. So does the model. After an overlapping `memcpy`, which is undefined, the bytes may be
anything too; it may also come out right, as it does with the usual implementation, and
both outcomes are in the model.

`Mailbox` has the messages put in, those taken out, whether more can come, and whether it
is `sound`: then they come out in order, whole and once. It stops being sound with a message
that is not `Intact` (its length is one the parser misreads), which may come out altered, or
when two messages, or one and the request, are in it at once (the `memcpy`). Then it may let
out anything (`GetAnything`), but takes back nothing that came out.

### 3.5 LogReader, LogView, LineFlow

| TLA+ | code |
| --- | --- |
| `written` | lines in the file; a line is its number |
| `phase`, `stream` | what the `LogDescription` reads, and the lines in stdio's buffer |
| `tail`, `pipe`, `taken` | the child, its pipe, and how far the file, `stream` or `tail`, has been read |
| `Readable`, `Visit` | `select` and the visit it leads to: a regular file is always readable, a pipe when it holds something or has no writer; stdio's buffer does not count |
| `Buffered`, `FromFile`, `FromPipe`, `OpenTail`, `FirstFromPipe`, `TailFails` | `GetNextLine`; `fgets` takes any number of lines into the buffer and returns the first |
| `eof_at`, `tail_from` | history: where `stream` and `tail` found the end of the file |
| `logEntries`, `currentPage`, `pagesCount`, `shown` | the page; `shown` is what `goToPage` drew, in the order of `logEntries` |
| `addEntry` | with `sorting` checked a line without a time throws and is lost; `findPlace` returns 0, because the query for options of a `select` matches nothing in a list of `font` elements |
| `Time`, `Undated` | what `dateWorker` makes of a line. `findPlace` was meant to compare the times; as it compares none, `Time` occurs in the property `SortedByTime` alone |
| `onmessage` | the next line that `Send` was given comes to the page |

`FirstFromPipe` is a step of its own, not part of `OpenTail`, because the child runs between
the two. A `select` and the visit are one step: nothing takes away what `select` saw.

### 3.6 Launcher

`load` and `server` are the page loads and the server processes; `idle` is a process whose
`ListenConnections` has returned (`InitSSL` or `ListenSocket` failed) while `Run` goes on.
`port = "held"` is a port that nobody listens on and nobody can bind: connections of a dead
server that are closing, or a tail that inherited the socket.

The modules contain variants of some definitions with one mistake in them
(`GenerateIDUnchecked`, `EndPurgeEarly`, `MovedOnce`, ...), each just before the definition
it is a variant of. No behaviour uses them. They document, for each property, a plausible bug
that the property catches: PROJECT.json lists the pairs.

## 4 The runs

| run | module, cfg | asks |
| --- | --- | --- |
| clients | `MCWebSocketServer`, `WebSocketServer.cfg` | do the two threads share map and descriptors correctly under any derived class, is every frame read, is every leaver removed; do ids stay small; which descriptors are lost |
| two_clients | `MCLogServer`, `TwoClients.cfg` | with two clients that subscribe and leave: do logs go with their client, do lines go to their owner, does nobody end another's log, is `LogServer` a `WebSocketServer`, does it keep `Subscriptions`, when is a client not found |
| one_client | `MCLogServer`, `OneClient.cfg` | with up to three requests of one client and every failure: types, wakeups, descriptors and which are lost, hung sends |
| delivery | `MCLogServer`, `Delivery.cfg` | liveness: is a new log read, is a message handled |
| buffer | `MCClientBuffer`, `ClientBuffer.cfg` | does `OnMessage` get what was sent, however it is cut into records; does anything wait unseen; does the buffer keep its bounds |
| flow | `MCLineFlow`, `LineFlow.cfg` | from the file to the page: which lines are lost, in which order the others come, what the page shows |
| wedge, exception, tail_killed | `MCLogServer` | disagreements of section 6 |
| updates | `MCLineFlow`, `Updates.cfg` | section 6: lines that never come |
| sorting | `MCLineFlow`, `Sorting.cfg` | section 6: lines that are not sorted by time |
| launcher | `Launcher`, `Launcher.cfg` | section 6: a server that is there and does not serve |

*Properties and hazards.* `UniqueIds`, `SocketsOwned` and `FdSetCurrent` are about stale
identity: ids and descriptors are reused at once. `NoLostWakeup` and
`NoLostLogsWakeup` are about signalling only on the first insertion. `LogsHaveClients`
and `DeliversToOwner` relate the two lists, which have different mutexes, and the
iterator `Run` keeps while it holds neither the client nor its mutex. They hold because
`OnDisconnect` needs `logs_mutex`, which `Run` holds, before the node can be erased: the
map's entry outlives the send although nothing in `Run` says so. `LogsOwnDescriptors`
says that closing and reopening by two threads never gives two logs one number.
`OnlyOwnLogsEnd` is an action property over the handlers, and `WSSpec` and
`KeepsSubscriptions` are refinements.

`IdsStayLow` is why the loop of `GenerateID`, which may run to `INT_MAX`, never overflows
`id_counter + i` and never returns -1: the last id or the next one is free. `LeakedByRefusals`
and `LeaksAreFailures` say which paths lose descriptors (a failed `SSL_accept`; a failed
`fork`, and an `fdopen` that fails for a file), and that no other does. `HangsOnLeaver` and `HangIsForGood` delimit what `wedge`
shows: who a send hangs on, and that afterwards all three threads are stuck.
`MissingOnlyInRace` answers a comment in `Run` (`log-server.cpp:435`, "Maybe it's worth deleting this check as
we delete all requests from client when he disconnects"): the only use of the check is to
misfire, when the map is searched while it is being changed. No comment denies that race, and
it takes three clients or an erasure, so that no run shows it. `LinesAfterHandshake` is the part of the unlocked sharing of `send_buf` that holds:
no line meets the answer to the handshake.

`NothingStranded` and `MessagesArrive` are about the loop in `ListenMessages`, which goes
on by what `Receive` returned about the frame before: data below `select` would wait for
the peer's next record. `MessagesInOrder` and `DiesOnlyInHeader` say what holds up to
a misread length or an overlapping copy, and what still holds behind it: what came before
stays, and bytes that start no frame end the process only when fewer than 14 of them are
there. `RoomToRead` holds because a message is refused long before it
fills `frame_buf`; it relates two constants of different files. `DiesOnlyInHeader` says
when the wrapped subtraction is harmful. `OnlyTheGapIsLost` states what of the
file is not sent, and that nothing else is: it holds though stdio and `tail` both run
ahead of `select`. `NewestShown` and `PageIsFilled` state when the page may lag: only for
the first line of a page (`PageJustBegun`). `PageKeepsFileOrder`: whatever is sorted
in, dropped or cleared between them, no line stands twice, and unsorted lines stay in the
order of the file. The order that sorted lines should have is `SortedByTime`, and false.

*Bounds, and why they are enough.* Two connections are the fewest with a stale id, a
reused descriptor, or a bystander; the second can take the number and the id of the
first. `Log` has two nodes: one that goes and one that stays, or two for the same file.
Each connection sends `MaxSends` text frames (1 with two clients, up to 3 with one:
add, add, del). `MaxLines` = 1 distinguishes a log with a line waiting from one without,
which is all the code tests. `Fd` has as many numbers as the instance can use or
fewer: `one_client` has 4 so that `pipe` fails, `clients` has 2 so that accept finds none
after a leak. A connection is dialled once; a browser that reconnects is another
connection. `two_clients` has no stalling peers: `stalled` only keeps steps from happening,
and a specification without fairness need not take them, so that stalls add nothing to its
properties. Where they do, in liveness (`clients`, `delivery`) and in what hangs
(`one_client`), peers stall. `two_clients` uses symmetry of connections and of logs; its properties are
invariants and action properties, for which that is sound, and distinguish none.

In `buffer` the sizes are scaled: `BUF_LEN` 40 for 8192, `MSG_LEN` 26 for 2048, with the
margin `MSG_LEN + 14 <= BUF_LEN` that the proofs need and the code has. The payloads are
one that is empty, one that fits, one that fits `frame_buf` but not a message, one
that fits neither, and 256 bytes, whose length is read as 1. Two frames and a request can
share a record or be cut in the header and behind it (`Splits`). Of the frame types
`text` and `closing` are in the run; the others take the path of `closing`. Garbled bytes read as
a message that may be there, as one announced much longer than what is there, or as a frame
the server refuses: one for each branch of `ParseFrame`. In `flow` a page has
2 entries for 400 and there are 6 lines, so that a page is full, begun, and left behind;
the pipe holds 2 lines so that `tail` has to wait; three clicks are enough to sort, clear and turn a page.
Lines 2 and 5 have no time, and line 4 has the earliest, as that of a long request may.

*Deadlock* is not checked: the system stops when every peer is done and `Run` hangs, when
`alive` is FALSE, or when all bounds are used up. That it does not stop too early is what
the liveness properties say.

*Fairness.* The threads are scheduled (weak fairness of their steps). `select` with a
timeout returns. pthread mutexes are not fair, but each is released again and again, so a
thread that keeps trying finds it free infinitely often and in the end gets it (strong
fairness of the locking steps). A peer that stalls reads again in the end, or TCP gives it up
and the send fails, also when it has left; while it may stall again and again, the room it
makes stays until the blocked send has used it (strong fairness of `FinishSend`, `Disconnect`,
`ReceiveHandshake`). Until then `Disconnect` blocks the reader and, with `clients_mutex`, the
accepting thread: `LeaversAreErased` and `FramesAreRead` say that it comes out of that.
Nothing is assumed of a peer inside SSL_accept, which can hold the
accepting thread for ever, nor of spurious wakeups and interrupted selects, which can
always happen and never have to. In `delivery` no peer leaves and nothing fails: with a
leaving peer the property is false, which is the run `wedge`.

In `buffer` the reader runs (`Receive`, `SelectReady`); nothing is assumed of the peer, which
need not finish a record. In `flow` `Run` visits readable logs, `tail` follows its file, the
browser runs its events; nobody has to write a line or click. That a line in stdio's buffer
comes is claimed only if `tail` has written another (`LinesArrive`); that it always comes is
false (`updates`). In `launcher` PHP, new processes and the kernel go on.

## 5 The proofs

The proofs hold for every value of the constants that the named assumptions allow.
The module with the theorems of `M` is `MProofs`: `WebSocketServerProofs`, `LogServerProofs`
(on top of it), `CountingProofs` (on top of the first: ids and leaked descriptors),
`DeliveryProofs` (on top of the second: `Subscriptions`, hung sends, lost descriptors),
`ClientBufferProofs` (the codec and `Mailbox` too), `LineFlowProofs`
(the reader and the links), `LogViewProofs` (on top of it; what is drawn) and
`LauncherProofs`. The first four hold for any sets of connections,
descriptors, texts, logs and files and any bounds, from the assumptions named in the
modules: the special values (`NoConn`, `NoText`, `Opening`, ...) are not ordinary ones,
descriptors are positive, requests have an operation and a file, the bounds are naturals.

| theorem | says |
| --- | --- |
| `WSTypeCorrect`, `TypeCorrect` | types |
| `IdsAreUnique` | `UniqueIds` |
| `SocketsAreOwned` | `SocketsOwned` |
| `FdSetIsCurrent` | `FdSetCurrent` |
| `WakeupIsNotLost`, `LogsWakeupIsNotLost` | no lost wakeup, for both conditions |
| `LogServerIsAWebSocketServer` | `Spec => WSSpec` |
| `LogsGoWithTheirClients`, `LinesGoToTheirOwner` | `LogsHaveClients`, `DeliversToOwner` |
| `DescriptorsAreOwned` | `LogsOwnDescriptors` |
| `ClientsEndTheirOwnLogs` | `OnlyOwnLogsEnd` |
| `LogServerKeepsSubscriptions` | `LogServer` implements `Subscriptions` |
| `RunHangsOnLeaver`, `HangEndsService` | `HangsOnLeaver`, `HangIsForGood` |
| `MissingIsARace`, `HandshakeComesFirst` | `MissingOnlyInRace`, `LinesAfterHandshake` |
| `DescriptorsLostByFailures`, `LeaksAreRefusals` | `LeaksAreFailures`, `LeakedByRefusals` |
| `IdsStayBelowClients` | `IdsStayLow` |
| `LengthsReadRight` | which lengths the server reads as the browser wrote them: those up to 125 and those of two equal bytes |
| `MadeFramesAreInNetworkOrder` | the missing conversion in `wsMakeFrame` never shows: `send_buf` is too small |
| `BufferTypeCorrect`, `BufferHasRoom`, `NothingIsStranded`, `ProcessDiesOnlyInHeader` | `TypeOK`, `RoomToRead`, `NothingStranded`, `DiesOnlyInHeader` of `ClientBuffer` |
| `MessagesComeInOrder` | `ClientBuffer` implements `Mailbox` |
| `FlowTypeCorrect`, `ReaderLosesOnlyTheGap`, `PagesAreCounted`, `PageOrder` | `FlowTypeOK`, `OnlyTheGapIsLost`, `PagesCoverEntries`, `PageKeepsFileOrder` |
| `ShownIsKept`, `PageZeroShowsNewest`, `LinkedPageIsFilled` | `ShownIsPart`, `NewestShown`, `PageIsFilled` |
| `AtMostOneServes`, `StuckForGood` | of `Launcher`: one server at most has the port; servers without it keep any other from starting for ever |

*The base class.* None of the properties is inductive alone. `WSInv` adds what the place
of a thread says of its variables and that the two threads are never both inside the
mutex (`ThreadsOK`), and which connections have sockets (`SocketsOK`: exactly those
between accept and close, each its own, each marked as a socket in `fds`). `FdSetCurrent`
rests on that: while the reader selects nothing closes a socket, because only the
reader does. `UniqueIds` rests on `GenerateID` looking at the whole map with the mutex
held. Each part is preserved by each step of `WSNext`, `DerivedStep` included.

*LogServer.* `LInv` adds to `WSInv`: where the reader is in a handler (`HookOK`), where
`Run` is in the list and on the way from a file to its tail (`RunOK`), that an open log and each
end of a pipe under way has a descriptor of its own, marked as one the server opened
(`FdsOK`), and the three properties. The order of the argument:

1. From `FdsOK`, everything `LogServer` closes is its own, so each of its steps is a
   step `WebSocketServer` allows (`Implements`). Hence `WSInv` is preserved, by the lemma
   about the base class and without looking at its parts again, and `Spec => WSSpec`.
2. A purge and a pass of `Run` exclude each other and handlers change the list only when
   `Run` is not in it (`HandlersLeaveRun`), so `RunOK` is preserved.
3. `UniqueIds` makes `client_id` mean the owner: what a handler removes for `id[cur]` is
   `cur`'s, and when a purge ends nothing of `cur` is left (`HandlersList`). Hence
   `LogsHaveClients`, and `OnlyOwnLogsEnd`.
4. The client `find` returned has the id of the log's owner, which is in the map by 3, so
   it is the owner (`DeliveryStep`).

*Counting.* `IdsStayLow` needs how many clients there have been: `IdsCounted` says that
`id_counter` is below that number, and that no id in the map is above `id_counter`, so that
the search of `GenerateID` ends at its start or one further. An insertion adds one to the
number, and only then can `id_counter` grow by one. `LeaksCounted` counts both sides of
`LeakedByRefusals` and follows `Leaked`, socket by socket, through accept, refusal and close:
a number that is given out again was not leaked, and `SocketsOK` has each open socket owned
or leaked. Both are counted with the theorems about finite sets, for any finite or infinite `Conn`.

*Subscriptions.* `LInv` is enough. A step of the base class is `Join`, `Leave` or nothing;
`Leave` is allowed because `LogsHaveClients` has no log of the client left at `erase`. A
handler's step is `Subscribe`, `End` or nothing, and the log it ends is not the one being sent,
since `LogsFree` is its guard. In `Run`, `ReadLine` is `Send` because `client_it` is the
owner (`DeliversToOwner`), a finished send is `Sent`, and a drop ends a subscription with
nothing on its way. Two nodes are never one subscription (`SubscriptionsDiffer`).

*Delivery.* A send finds no socket only if the client is past its closing and, by
`LogsHaveClients`, still has this log, so that the reader is at the purge and has not got
`logs_mutex` (`SocketlessIsLeaving`): that is `HangsOnLeaver`, and from it every action but
those of peers, tails and files is disabled by its guard (`HangIsForGood`). `HandshakeOK` adds to
`LinesAfterHandshake` that a message is handled only for a client that has shaken hands.
For `LeaksAreFailures` each step is followed through `Unowned`: a descriptor is closed and
forgotten, or opened and recorded, in one step (`UnownedSame`, `UnownedDrop`), but for the pipe
that gets no child and the file that gets no stream.

*Launcher.* `OneServes` is inductive with the types. `Stuck` (a server without the port is
there, none accepts, none is on its way) is closed under every step, since `pgrep` finds
that server; with `CrashLeavesStuck` this makes the counterexample of the run `launcher`
permanent and true for any number of loads and servers.

*ClientBuffer.* From `BufferAssumption` (`BUF_LEN` exceeds `MSG_LEN` by the largest header, 14,
and is smaller than a length read in the wrong order) and `PeerAssumption`. `BInv` adds to
the properties: that frames follow the request and each other without gaps (`Contiguous`), that
records end in what was sent (`RecordsOK`), and that while the connection is open and not garbled
`parsed` is where the frame that is due starts, or the request has not been read whole
(`InSync`). What the parser says of any bytes (`ParsedFacts`) bounds what it may say when garbled
(`ResultFacts`), for any `Garbage`. A frame the parser takes has its bytes in
`frame_buf` (`ParseFacts`); one it calls incomplete leaves room, or `Receive` fails, hence
`RoomToRead`. `NothingStranded` follows since each return to `select` is either with an empty
`frame_buf` or after parsing found the front frame incomplete with nothing left to read.
For `MessagesInOrder` each step is mapped: the peer's sending is `Put`; `TakeText` is `Get`,
`GetAltered` if the length was misread, or `GetAnything` when garbled (`TakeBox`); a request whose
rest is moved over itself is `Slip`; whatever ends the connection is `Close`; the rest
stutters.

*LineFlow.* `RInv` says of the reader that what was sent, what is in stdio's buffer and what is
in the pipe are, one after the other, the lines due, up to `taken` (`InOrder`): every step only moves a
line from one to the next. Since `Due` increases, `sent` does (`SentIncreases`). `FInv` adds that the page
holds lines that came (`Kept`); the line that comes next is later in the file than all of those
(`NewLine`). `PageKeepsFileOrder` is not inductive, since it does not say where the sorted lines
are: `LinesInOrder` has them at the front, the last first.

*LogView.* `VInv`, together with `FInv`: what is drawn stands in `logEntries`, one entry after the
other (`Part`), and where page 0 or a linked page may lag, said without remainders:
`logEntries` is then one longer than a number of full pages (`NewestDrawn`,
`PageDrawn`; `FirstOfPage` turns it into the remainder `PageJustBegun` speaks of). Both
rest on `PagesOK`: `addEntry` draws from the counter of before the line, which is right
unless the line opens a page. From the `ASSUME` that a page holds at least one entry.

What only TLC checks: the liveness properties `FramesAreRead`, `LeaversAreErased`,
`NewLogIsRead`, `MessageIsHandled`, `MessagesArrive` and `LinesArrive` (liveness under
fairness is beyond the prover) and the counterexamples of section 6.

## 6 Where code and comments disagree

Each is a run that TLC ends with a trace.

- **wedge** (`log-server.cpp:454`, comment at 407). `Run` has found the client of a log and
  holds `logs_mutex`. The reader finds that this client has left, and `Disconnect` sets its
  socket to -1; it then waits for `logs_mutex` in `OnDisconnect`, holding
  `clients_mutex`. `Send` calls `select` with nfds 0 and no timeout, or, if the socket was closed
  after its first look at it (`client.cpp:350-363`), without the socket, for ever. No log is
  read, no message handled and no client accepted any more. The comment promises that
  a new log is read within two seconds. That it is for ever is a theorem (`HangEndsService`).
- **exception** (`log-server.cpp:418`, comment at 406). A log is stopped after the sets were
  filled; `select` fails with EBADF and leaves both sets as they were filled. The failure
  is logged and the sets are used: every other log counts as exceptional and is dropped.
- **tail_killed** (`log-server.cpp:57`, comment at 60). A log stopped before its end of file
  has `tail_pid` = -1. `waitpid(-1)` returns 0 while other tails run, so `kill(-1, 9)` ends
  them all, and everything else the user may signal.
- **updates** (`log-server.cpp:147`; `descriprion.txt:19-20`, in Russian and cp1251: "log files are
  opened in such a way that the data in the panel are updated as new records are added to
  these files"). A line written after `fgets` came to the end of the file and before
  `tail -n 0` looked for it is never sent. A line that `fgets` took into stdio's buffer
  together with another is not seen by `select` and waits until `tail` writes the next.
- **sorting** (`uiScript.js:163`; label of the check box, `IndexController.php:180`: "Use time
  sorting for old entryes."). `findPlace` (163-169) compares times, but looks for its entries among
  `option`s of a `select`, while `goToPage` appends `font` elements to a list (111-114). It finds
  none and returns 0, and each line goes to the front (87) whatever its time.
- **launcher** (`IndexController.php:30`, comment at 29: "Check working of log server and start
  it if needed."). A server that could not bind goes on without accepting; `pgrep` finds
  it, and once the server that accepts has ended none is started again (`StuckForGood`).

## 7 What is not modelled

- `Stop` and what follows it: nothing calls it. `GenerateID` returning a
  negative id: by `IdsStayLow` it never does.
- What happens after a signal has killed the process, and after undefined behaviour
  in stdio or OpenSSL: the models stop there (`alive`, `status`). In particular a stream used
  after `fclose` may be the memory of another log's stream by then, and the program may go on.
  Nothing bounds what it does, and every property of `LogServer` speaks of the run up to there;
  the guards of `ReadClosed`, `Drop` and `UseClosedStream` show how it is reached.
- The answer to a bad request: `ReceiveFails` stands for a bad request, a refused frame and
  the end of the stream alike, with one blocking send for the answer and the closing frame.
- Of the codec: `wsGetHandshakeAnswer`, unmasking, the memory of `struct handshake`, the
  order of fields, the top-bit check of eight-byte lengths (which looks at the wrong byte and
  never fails for a message below 4 GiB).
- In `LogReader`: lines longer than the buffer or not yet finished, NUL bytes in a line,
  rotation and truncation of the file (`tail -F` follows them; what it repeats or skips then is
  its own affair), the pacing of lines (`next_send_time`), which delays and reorders nothing.
- A child that fails to exec `tail` and goes on in `Run`: a second process would double every
  variable of `LogServer`.
- In the page: colours, the parsing of dates, and several logs at once, whose lines come
  interleaved in the order they were sent.
- What the peer receives when two threads use `send_buf` and the SSL object at once: OpenSSL
  promises nothing about it. `LogServer` lets the process end there.
- The order of the list of logs: `Run`, `del` and the purge take members in any order, which
  allows more than the code does.
- SHA-1, base64, the form, styles, and the install scripts.
