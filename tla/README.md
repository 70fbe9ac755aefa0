# A TLA+ model of Dazibao

Dazibao is a file format for public notice boards, and a set of C programs around it: a
library that reads and changes dazibao files in place, a command line, a server that notifies
clients when a file changes, and a web server. This directory holds a TLA+ model of the parts
of it that are hard to get right and hard to test, the TLC configurations that check it on
small instances, and proofs, checked by TLAPS, that hold for every size.

All paths below are relative to the root of the repository, where `src/` has the C code.

## 1. The system

### Components

| Component | Code | State | Operations | Model |
|---|---|---|---|---|
| dazibao files | `src/mdazibao.c` | a mapped file: bytes, length `d->len`, mapping `d->space` | create, open, close, add, remove, compact, walk, check an offset | `TlvBytes`, `TlvLayout`, `Mdazibao`, `DazibaoContent` |
| what a file promises | `src/mdazibao.h` | the TLVs, as trees | add, remove, compact | `TlvStore`, `TlvNodes` |
| sharing of files | `dz_open`, `dz_create`, `dz_close`, `dz2tlv`, `cli_mk_tlv`, `reliable_watch` | flock of each process on each file, sizes on disk | one system call at a time | `DzLock`, `SharedFiles` |
| TLVs in memory | `src/tlv.c` | none | guess a type, build from inputs, measure, split long TLVs | `TlvBytes`, `TlvGuess`, `TlvInputs`, `Making` |
| command line | `src/cli/` | none between two commands | add, alt-add, rm, compact, create, dump, extract | `DzCommands`, `DzReading`; sessions of `Mdazibao` and jobs of `DzLock` |
| notification server | `src/notifier/notification-server.c` | the table of clients, one mutex per slot, a hash per watcher | watch, broadcast, accept, refuse, exit | `Notifier` |
| notification clients | `src/notifier/notification-client.c`, `-stupide.c` | a buffer | read, cut in messages, show | `NotifClient` |
| web server | `src/web/` | one open dazibao, one request, a static buffer | read a request, route it, answer | `HttpStream`, `HttpForm`, `Routing`, `Daziweb` |
| web pages | `public_html/dz.js` | offsets and the last hash | poll, add, delete, compact | `Daziweb` |
| HTML | `src/web/html.c` | none | which TLVs a page shows | `DzReading` |
| MIME, hash, logging, options | `mime.c`, `src/notifier/hash.c`, `src/logging.c`, `src/utils.c` | none | tables, arithmetic, messages | not modelled |

### How they interact

Programs share dazibaos through the file system only, and `flock(2)` is the only
synchronisation between them: a program locks a file from `dz_open` to `dz_close`, shared to
read and exclusive to write. Files opened to write are stretched to whole pages with
`ftruncate`, mapped shared, changed in place, and cut to `d->len` on closing. The notification
server takes the shared lock to hash a file. Inside the server one thread per watched file, the
main thread, which accepts clients, and the SIGINT handler share the table of clients. The
server and its clients share a stream socket. Browsers talk to the web server, which opens the
dazibao for each request, and they name TLVs by the offsets they were given in a page.

### What is hard

* In-place changes: pads are merged, files truncated, TLVs moved inside containers, all by
  offset arithmetic over bytes that are being changed.
* Processes interleave between two system calls, give up in the middle of opening, and die with
  a file stretched and mapped.
* `dz_close` truncates a file to a length read long before: it must still be the length.
* Commands that lock a second file with the first locked wait for each other.
* Sizes are computed by one function and bytes written by another: a TLV of several inputs, dated
  and long, moves twice inside its buffer before it is whole.
* Requests arrive cut at any byte, and a static buffer carries what is left of one read to the
  next, and to the next request.
* A page names TLVs by offsets it was given long before, and learns of changes by polling.
* The SIGINT handler of the web server closes the dazibao in the middle of whatever the request was
  doing with it; SIGPIPE ends it without closing anything.
* Threads write to sockets with a mutex held, block there, and are interrupted by a handler that
  wants the same mutexes. Clients die in the middle of a broadcast and their slots are reused.

`PROJECT.json` lists these hazards at their lines, with the property that covers each.

## 2. The modules

### TlvBytes, TlvLayout, Mdazibao: the file operations, on bytes

`TlvBytes` has the types of TLVs, the sizes of their headers, and how many parts a long value has.
`TlvLayout` holds the functions that walk a chain of TLVs (`NextTlv` is `dz_next_tlv`,
`PadSerieStart` and `PadSerieEnd` the searches for pads, `DoEmpty` is `dz_do_empty`,
`CheckTlvAt` is `dz_check_tlv_at`). They work on a sequence of bytes, the mapped region.
Lengths take one byte instead of three, dates one instead of four, and the greatest value is
`MaxValue` bytes: every size of the code is computed from these, as in `tlv.h`, so that a long
TLV, or a padN of the greatest size, fits a file of a few dozen bytes.

`Mdazibao` has the state of an open dazibao: `mem` is `d->data` (the file itself when closed),
`len` is `d->len`. Its actions are whole operations: `Open`, `AddTlv`, `RmTlv`, `Compact`,
`Close`, and `Crash`, which leaves the mapped pages in the file. `session` records what the
program that has the file open has done, because no program of the repository mixes adding,
removing and compacting between an open and a close (`cli_add`, `cli_rm_tlv`,
`cli_compact_dz`, one route per request in the web server).

Two parameters keep known flaws from hiding everything else. With `RmParts = FALSE` callers do
not name the parts of a long TLV; with `ShortRests = FALSE` a removal whose emptied part ends in
a rest too short for a padN is not taken. The runs `dazibao_parts` and `dazibao_rest` set one of
them to TRUE and show the flaw. A file left `torn` by a crash after a compaction is not opened
again.

### TlvNodes, TlvStore, DazibaoContent: what the bytes mean

`TlvStore` is the abstract specification: an ordered store of TLVs, each named by an offset,
some holding others. Adding appends one and disturbs none; removing takes one and what it
holds, and every other keeps its value, place and offset; compacting may move TLVs and change
containers, but keeps the data and their order. `DazibaoContent` reads the bytes as such trees
(`Content`) and instantiates the store with it: `ImplementsStore` is the refinement.

### TlvGuess, TlvInputs, Making: making TLVs

`TlvGuess` is `tlv_guess_type`: the table of signatures, and the automaton that takes UTF-8 apart
byte by byte (`CharSize`, one disjunct per range of first bytes). Beside it stands the reference
the code quotes, table 3-7 of Unicode (`IsUtf8`), written from the table and not from the code.

`TlvInputs` is `tlv_from_inputs`, in the two halves of the code: `Room` computes how long the TLV
will be and where each header goes, `FromInputsIn` writes into a buffer of that size, headers
moving what is behind them when they turn out to be long. `Outcome` compares the two, as
tlv.c:736 does. The `tlv_create_*` functions of the alternate commands are there too; they write
lengths modulo what fits in a length field, and do not check.

`Making` gives both of them inputs (`Give`): lists of byte strings, with a date or without, as `cli_mk_tlv`
does when no types are named. Two properties speak of every such list.

* `GuessedText` compares the automaton with the table, for inputs that do not begin as a signature: UTF-8
  without control characters is guessed to be text, and what is guessed to be text is UTF-8 in a loose sense
  that names the gaps there are (NULs, stray continuation bytes, code points past the last). One exception
  stands in the property, `HasHangul`: the code takes the second byte behind ED to be 90..9F (tlv.c:179)
  where the table it quotes has 80..9F (tlv.c:128), so texts with a Hangul syllable from U+D000 to
  U+D3FF are turned away.
* `RoomIsEnough`: the bytes written never pass the room that was computed. They are fewer, and the TLV is
  refused, exactly when the date takes a compound over a limit: the compound is measured with
  the date's header in it (tlv.c:647), and gets room for a part it does not have.

### DzReading: dump, extract, and the page

Three walks over a dazibao: `Dump` and `ExtractDz`, which open long TLVs by copying their parts into
a buffer with offsets of its own, and `Dz2Html`, which does not. After a long TLV, `dump` and
`extract` ask for its total length of a `tlv_t` that has been overwritten by its last part
(cli.c:341, 596): the walk goes on wherever the bytes of that part, or what stands behind it in
memory (`stale`, a parameter), say. `lost` marks the walks that went astray, and the properties
speak of the others. The page takes a text of no bytes for one that it cannot read (mdazibao.c:232), and
one failure gives up the whole page (html.c:268, 359): there is none for a dazibao with such a text, wherever
it stands. `ListedAreThere` says that there is one otherwise, and what it shows.

### DzCommands: the command line on the file operations

`DzCommands` extends `DzReading`, and so the file operations of `Mdazibao`. A command is
several actions: it checks its arguments and opens the dazibao (`CliAdd`, `CmdAdd`, `CliRmTlv`),
makes TLVs and adds them one by one, or removes (`CliAddMade`, `ActionAdd`, `RmMade`), and
closes it (`Finish`). `Make` is a step of `Making` instead of any command. `alt-add` takes options and arguments in any order and remembers positions
(`Parsed`); main passes the path of the dazibao itself as one more argument (cli.c:856), so the
dazibao is itself added, as a TLV, by every call with a type too many, and a call as the manual
shows it is refused.

What was asked for is written from `docs/manual.md` and apart from the code, as trees (`AskedOfAdd`,
`AskedOfAlt`), and what a reader finds in the file is read back as such trees (`Meaning`): `MadeReadsBack`
compares them. Where the code does otherwise the property names the case, and keeps what can be said
of it: the date of a short dated TLV is reversed (`DateReversed`), the type of a text is guessed, or the number of
types miscounted (`Mistyped`), and `--date` behind `--compound` dates the parts of the compound one by one
(`PartsDated`); the values, what holds them and their order are as asked. That `alt-add` takes its
dazibao for a source is in the calls of the run: they have one type too many. `wrapped` is history: a length
that did not fit its field.

### DzLock, SharedFiles: sharing files

One action per system call of `dz_create`, `dz_open_with_size`, `dz_close`, and of the commands
between them. A file has a size (missing, empty, exact, or padded to pages), a header or not,
and a version instead of its contents. A writer remembers the version it saw with `fstat`
(`snap`, which stands for `d->len` and what it leads to): a change writes that version plus one,
and `dz_close` writes it again, because it cuts the file to a length that follows from it. So a
lost update, in the model as in the code, is a version computed from a stale one. `Crash` and
`GiveUp` end a process at any step where the code can end; the kernel then drops its locks and
keeps what it wrote. `dz2tlv`, called by `action_add` with a dazibao open, is the same steps
once more with `nested` set; and so are the steps of `cli_mk_tlv`, which `add` runs with its
dazibao locked: it opens each file it takes, reads its size (`Peek`), then waits for a shared lock on
it, and adds nothing when the file is empty or came into being since it could not be opened. The
size is read before the lock, so a dazibao that another program has open is taken with the
zeros it is stretched with, or with a length it no longer has: `PaddingUnseen` does not speak of
it, and no document promises better. An addition takes one file here, which is a bound: `add` may take
several, and keeps the shared locks of all of them until it has made its TLV (cli.c:57-128), so that other
additions may also wait for one of the earlier.

`SharedFiles` is the abstract specification: files that are made and never removed, processes that
open them, change them and close them, each in one step. A change is made on the last version, by a
process that is alone to have the file open; a process finds one version in a file, the last; and a
file is half changed (`torn`) only where a process that had it to itself died. `DzLock` instantiates it
with the number of changes made as the version (`commits`, not the bytes: a change that got lost would show),
and with what a process may find in a file it has open (`Sees`: the version of its length, that of the
bytes, and the next one if another process has begun to write it). `ImplementsShared` is the refinement.

### Notifier: the notification server

One action per step of a thread that others can see: taking and leaving a mutex, `write(2)`
with its outcomes (done, EPIPE, blocked, and ECONNRESET after having blocked), taking a slot,
refusing a client. A file is a version, which stands for its hash; a client's socket is the
number of messages in it; `told` and `owed` are history. `Interrupt` runs `ns_exit` on top of a
thread, which goes on only if the handler returned, which it never does.

### NotifClient: the clients of the notification server

The stream is a sequence of bytes. `Send` writes a line, as `notify` and `send_message` do, and
`Die` ends the server in the middle of one. `Read` takes some of the bytes that have come;
`Handle` is one turn of the loop over the lines of the buffer, and `Incomplete` is its end, when
no line is whole. The two programs differ in two places: `notification-stupide` reads again after
every line, and does not know the messages of kind E. What a message says is abstracted to its
length and its first byte. `NothingLeft` is about `notification-client` wherever it waits for more: the
messages it has not shown are as many as the lines that end in the socket. `sent`, `written` and `consumed` are history.

### HttpStream, HttpForm, Routing: a request

`HttpStream` is `parse_request` over `next_header`: a symbol stands for bytes that no property
tells apart, CR and LF are symbols of their own, and a read takes any number of symbols there are.
What a call of `next_header` leaves in its static buffer is `rest`; it is emptied on every way out
of `parse_request`. Two flaws of the code are history variables, so that the properties can say that
nothing else goes wrong: `split`, a read that ended between a CR and its LF (the line is found, but
one byte of what follows it is lost, request.c:248), and `late`, a blank line that was all there
was to read (its CR LF is put in front of the body, whose end is then missing, request.c:302).

`HttpForm` takes a multipart body apart with the offsets `parse_form_data` uses; browsers' forms are
built by `Form`. `Routing` has the table of routes, in order, and the handlers. Here a dazibao is a
sequence of slots, each a TLV or a pad: what `Mdazibao` says of bytes is not said again, but the
freedom it leaves is kept (`PadStarts`: how many of the pads at the end a removal takes off). A
wrong method is always answered with 404, never 501 as the code sets out to (routing.c:92). A text of no bytes
makes the page and the TLV itself unreadable (`NoPage`, `GetMediaTlv`), and a compaction drops it. The
answer to a POST without a body (routes.c:240) is left out because `parse_request` lets none through: it
refuses a POST without a length, and makes a body for any length (request.c:150-170).

### Daziweb: the server, a page, and other programs

`Daziweb` extends `Routing` with the loop of `main`: accept, read the request, open and lock the
dazibao, route, close, answer. It has no action for what only writes an answer: that is the step
the answer is decided in, and `direct` says whether the dazibao is still open then. The page
(`Ask`, `CheckHash`, `HashCallback`, `Callback`) is `dz.js`: it deletes what it shows, by offset,
and announces a change when two polls differ. Other programs open, change and close the file
(`OtherOpen` to `OtherClose`), remove and create it. `SigInt` may run between any two steps, and in
the middle of a handler (`MidRoute`, `HalfCompacted`); `RequestDies` and `TellDies` are SIGPIPE;
`PageAborts` is the end the C library may put to a server that frees twice the page it could not make
(html.c:269, routing.c:163); a dead server may be started again. `traced` is whether enough `-v` were given: the routes are
registered, and the dazibao closed, in arguments of LOGTRACE (daziweb.c:253, 301), which are not
evaluated otherwise. `news`, `why` and `since` are history: what has happened since the last hash,
what it brought, and what has moved TLVs since the page was made. `CreateDz` is one step, where `dz_create`
makes the file and locks it in two: a file half made, which `dz_open` gives up, counts as none, and the
server then goes on as if the file were not there (`DzLock` has the steps).

What the model shows of the code besides the properties:

* without enough `-v` the server keeps its lock, and the next request waits for it (`WaitsForItself`);
* a request whose dazibao cannot be opened is served from the mapping of the one before
  (daziweb.c:291): `ServedAsAsked` and `OthersKept` speak of the others only;
* a SIGINT that arrives while `dz_open` waits for the lock cuts the file to the length of an earlier
  request, with no lock held (daziweb.c:45). In that one case what others have added is lost; `OthersKept` then
  says that what the remembered length takes in is kept;
* the length of a text is not checked and wraps (routes.c:248): a text too long is added as its beginning, or
  as nothing, and a dazibao with nothing for a text has no page;
* a page announces a change when there is none after a poll that failed, or was overtaken by the page's
  own file, and it announces its own texts, deletions and compactions: `NewsOnly` names these, and says that
  a file the page has sent itself is never announced for itself, and that there is nothing else;
* an offset that the page shows may name another TLV once the dazibao has been cut, compacted or created anew
  (`since`).

## 3. The runs

| Run | Instance | Shows |
|---|---|---|
| `dazibao` | pages of 8 bytes, values up to 8, files up to 28, 4 changes, 6 kinds of TLV (text of 0, 1, 3 bytes, compound with a pad, dated compound, long) | `TypeOK` (nothing outside the mapping), `ChainWhole`, `ImplementsStore`, `CompactSaves`, `CrashKeepsContent` |
| `dazibao_nesting` | same | violated: `CompactKeepsNesting` |
| `dazibao_truncate` | same | violated: `RmTruncatesPads` |
| `dazibao_rest` | same, `ShortRests` | violated: `EmptiedIsPads` |
| `dazibao_parts` | same, `RmParts` | violated: `LongTlvsWhole` |
| `commands` | values up to 20 bytes; 3 operations, 13 calls of `add`, 10 of `alt-add`; or a list of inputs: one of up to 4 bytes of 22, or up to three of all lengths about the limits | `MadeReadsBack`, `GuessedText`, `RoomIsEnough`, `ChainWholeUnlessWrapped`, `ExtractGivesBack`, `ListedAreThere` |
| `commands_date` | the same calls | violated: `DatedNow` |
| `dzlock` | 3 processes, 2 files, 10 commands | `LengthCurrent`, `NoUpdateLost`, `PaddingUnseen`, `ImplementsShared`, `EndsOrStuck` |
| `notifier` | 3 clients, one of them slow, and 2 slots: either one client on the table, one dazibao watched and newcomers; or a dead client on the table, another in the backlog, and 2 dazibaos that have changed | `TypeOK`, `OneWriter`, `NoneForgotten`, `WritesToClient`, `SlotKept`, `NoFalseAlarm`, `Answered`, `Announced`, `ExitsOrWaits` |
| `notif_client` | buffer of 4 bytes, 3 messages of 5 kinds, both programs | `TypeOK`, `StreamKept`, `ShownAreSent`, `EndsWhenClosed`, `FailsOnlyOnLong`, `NothingLeft`, `AllShown` |
| `web` | reads of up to 6 symbols, one of them short, values up to 3, 2 slots a page, 15 requests, 3 of them made, and one change, one end or one client that leaves | `TypeOK`, `ParsedAsSent`, `ServedAsAsked`, `DeletesWhatIsShown`, `OthersKept`, `NewsOnly`, `Answers` |
| `notifier_exit` | 1 file, 1 client | violated: `Exits` |

Why the bounds are enough. *Dazibao*: four changes make two TLVs, remove them in either order,
and add over what is left; the longest file holds a long TLV with its two parts and a TLV
beside it, and spans four pages, so mappings grow; every kind of container has something, a pad,
or nothing in it at some point. *DzLock*: a flaw of the protocol takes a process that reads a
length, one that changes it, and one that looks; with three processes and two files all pairs of
imports and additions, and a third process waiting behind them, are there. Processes are alike, so only
ordered assignments of commands are explored. *Commands*: with values of up to 20 bytes an input,
a compound, and the dated TLV around it can each be just short of long, just long, or long, which
are the cases `tlv_from_inputs` tells apart; long values end in a large and a small byte, so walks
after them stay and stray; the calls of `alt-add` put each option before, between and after the
arguments. Inputs of four bytes are the longest character and what decides it, each taken from the
ends of the ranges of Unicode's table and from what signatures begin with; inputs of any number and length
are proved about. *Web*: a read of 6 symbols holds a whole small request, or ends in
any part of a larger one, and one short read puts that end anywhere; a form has
a value that looks like an end of line, one too long, and one that fits. Three calls are a load, a
change and what comes of it. Two constraints keep the run small, and lose no case: `Quiet` does not
interleave steps that commute, and `Few` bounds calls and disturbances together
(calls + 2 × changes + 2 × (short reads + ends + leaves) ≤ 5). Pages of two slots are the smallest
that a file both fills and overflows, so that a delete that is killed half-way leaves the file as
long as it was, with its last TLV cut. *Notifier*: two slots give a loop a first and a
last iteration, and a capacity of one message makes writes block; versions up to 2 are one
change per file. The table is full with two clients and the third is refused. The two beginnings of the run are
states the server can be in, and between them hold what it takes a longer run to reach: a table that fills while
a change is announced, and a dead client whose slot is given away between two broadcasts. *NotifClient*: with
four bytes the buffer may hold two lines, a line that fills it, or the start of one that does not
fit; three messages put a line before and after each.

Deadlock is not checked anywhere: commands end, imports may wait for each other, sequences of
changes and calls are bounded, and the servers exit. What must not stop is said by liveness properties
instead.

### Disagreements between the code and its documents

Six runs expect a violation; `findings` in `PROJECT.json` gives the lines and the words.

1. `dz_compact` compares a limit computed from the writing offset with the reading offset, and
   TLVs leave the compound that holds them (`dazibao_nesting`).
2. Pads at the end of a dazibao are not always truncated: pads behind a top-level TLV are not
   merged with it, and before it a pad that follows a pad is
   forgotten (`dazibao_truncate`).
3. `dz_do_empty` writes a short rest over what it has emptied (`dazibao_rest`).
4. Parts of a long TLV can be removed (`dazibao_parts`).
5. SIGINT may stop the notification server for ever instead of ending it (`notifier_exit`).
6. `add --date` turns the current time to network order twice (cli.c:35, and `tlv_set_date`), so that a short
   dated TLV does not have the time it was added at (`commands_date`).

Others stand as named exceptions in properties, or in what the runs call:

* texts with a Hangul syllable from U+D000 to U+D3FF are not guessed to be text (`HasHangul` in `GuessedText`);
* an input of `add` that is no file is not always a text TLV (manual.md:59): its type is guessed, as a
  file's is, and a text too short to guess has the type 255 (`Mistyped` in `MadeReadsBack`);
* types that `add` is given in excess are ignored and a missing one is an error, where the manual says that both
  make it guess (manual.md:62-65; `Mistyped`);
* `alt-add --date` behind `--compound` dates the parts that follow, not the compound (manual.md:85-87;
  `PartsDated`);
* `alt-add` takes the path of its dazibao for a source as well (cli.c:856): the calls of the manual are
  refused, and those it takes add the dazibao to itself;
* the web server serves nothing without enough `-v`, which the manual calls a matter of verbosity
  (daziweb.c:253; `traced`), and a second request waits for ever (daziweb.c:301; `WaitsForItself`);
* a path with the wrong method is answered with 404, where route_request sets out to say 501 (routing.c:92,
  `NoHandler`).

## 4. Fairness

*DzLock* assumes that a process that can take its next step takes it (weak fairness of each
process), which is what the kernel's scheduler gives; no process has to die. `flock` need not be
fair: every command locks a file a bounded number of times, so nobody is overtaken for ever.

*Notifier* assumes weak fairness of each watcher, of the main thread, of the handler, and of
clients that are not slow. A pthread mutex need not be fair, and none is assumed to be. No file
has to change, no client to come, leave or be accepted, no one to press Ctrl-C. `Slow` clients
may never read again: liveness then holds up to the thread that waits for them, and the
properties say so (`Stuck`). The model has no time: sleeps are left out and stand behind weak
fairness.

*NotifClient* assumes weak fairness of the client's steps. The server need not send anything more,
and `AllShown` holds all the same, because `notification-client` empties its buffer before it
reads. `notification-stupide` does not: what it has in its buffer waits for the next message, as
`docs/report.md` says, so `AllShown` and `NothingLeft` are about the other.

`EndsOrStuck` says every command ends unless it waits behind additions that wait for each other:
that is the deadlock of `dz2tlv` and `cli_mk_tlv`, which lock a second file with the first locked,
and the property shows there is no other.

*Daziweb* assumes that the server, when it can go on, does, and that other programs close what they
have opened. No client has to call, to say more, or to leave, and nobody has to press Ctrl-C.
`Answers` speaks of every server, up to the wait of one without enough `-v` for its own lock, and of requests
that were not `split`, since a server that has lost a header may wait for a body it has already read. `Flock` is enabled again and again only if other programs close
the file and do not take it for ever, which the bound on changes gives: weak fairness is enough.

## 5. The proofs

| Module | Proves | About |
|---|---|---|
| `DzLock_proofs` | `TypeOK`, `LengthCurrent`, `NoUpdateLost`, `PaddingUnseen`, `ImplementsShared` | sharing files |
| `Notifier_proofs` | `TypeOK`, `OneWriter`, `WritesToClient`, `NoneForgotten`; `SlotKept`, `NoFalseAlarm` | the threads of the notification server; its table of clients, and what they are told |
| `NotifClient_proofs` | `TypeOK`, `StreamKept`, `EndsWhenClosed`; `ShownAreSent`, `FailsOnlyOnLong`, `NothingLeft` | the buffer of its clients; the lines in that buffer |
| `Making_proofs` | `GuessedText`, `RoomIsEnough` | what is taken for text, and the room for what is made of inputs |
| `Routing_proofs` | lemmas | the handlers of the web server, and how they change a dazibao |
| `Daziweb_proofs` | `TypeOK` | requests, and the lock of the web server |
| `Parsing_proofs` | `ParsedAsSent` | what is understood of a request |
| `WebPage_proofs` | `NewsOnly`, `DeletesWhatIsShown`, `OthersKept` | what the page announces and deletes, and what the server spares |

They hold for any number of processes, files, commands, clients and slots, any messages, any length of
the buffers, any dazibao at the start and any length of a page, inputs of any number, bytes and length, and
any largest value of four bytes or more. They assume what the modules' named
assumptions say of the constants, and nothing else. Those that say more than that a bound is a number
are `MakingAssumption` (inputs are bytes), `PublicFilesAssumption` (no directory of `public_html` begins as a route does: a route would hide it)
and `CallsAssumption` (a call whose path begins as a route does is a call of that route, as the links of
the pages are; the page's own polls are not among the calls).

*DzLock.* The inductive invariant is `IInv`. A lock is where the step of its process says it is
(`LocksInv`): a process has the lock of a file from `Flock` to `Unlock`, and of the outer file
throughout `dz2tlv`. Two processes never both have a lock of which one is exclusive
(`Exclusive`), so a writer is alone (lemma `WriterAlone`), and what another process has open
(lemma `OpenedIsHeld`) cannot be what a writer changes. That gives `LengthCurrent` (a change of
a file leaves the versions others have read of it alone, since no other has it open), from it
`NoUpdateLost`, and `NoTornRead` from `MidInv`: who has begun a change is at it still, or died
there. `PaddedInv` says whose doing a padded size is; with `Exclusive` it yields
`PaddingUnseen`. `StepsInv` is needed because an addition of a file to itself would otherwise
break `LocksInv`: it never gets past `Flock`. `HeldMode` says which lock a process has on what it
holds: an `add` writes its dazibao, and reads what it takes.

*DzLock implements SharedFiles* (`LocksShare`). In every state of `IInv` what a process may find in a file
is one version, that of all changes made, if it has the file open, and none otherwise (`SeesLast`, from
`LengthCurrent`, `NoUpdateLost` and `NoTornRead`). So a step maps to the step of `SharedFiles` that opens,
changes or closes what it does (`SharedStep`): `Stat` and `WriteHeader` open, `EndChange` changes, `Read` and
`Sync` close, `GiveUp` and `Crash` leave, and all others stutter. That a change, and a half change that
`Crash` leaves, are of a process alone with the file is `WriterAlone` again.

*Notifier.* `MutexInv`: a thread at work on a slot has its mutex. So two threads are never at
work on one slot (`Exclusion`, which is `OneWriter`), and what a thread found in a slot stays
there until it is done with it (`TakeInv`, `WritesToClient`). `OwedInv` is the invariant of a
broadcast: who was there when it began, and got nothing yet, has left or is in a slot still
ahead. A client keeps its slot unless it has left, and new clients only fill empty slots, so at
the end of the loop nobody is ahead, which is `NoneForgotten`. `LoopInv` says that loops start
at the first slot.

*NotifClient.* `StreamKept` is inductive with the types: what a read takes from the socket, and a
line from the buffer, is cut from a sequence whose two parts joined are the whole (lemma `Cut`),
and concatenation is associative. `EndsWhenClosed` needs `RoomInv`: a client that reads has room
to read to, since a buffer that is full either holds a line, which leaves it, or ends the client.

*The table of clients.* `TableInv` strengthens the invariant of `Notifier` with the places of the
clients: each is in the backlog, in the hand of `accept_client`, or on the table, and nowhere twice
(`OnceInv`, `PlaceInv`). A client that was accepted and has not left is then in one slot, which is
`SlotKept`. For `NoFalseAlarm`, no client was told of a version its watcher has not seen (`HashInv`,
`ToldInv`), and those a broadcast has still to come to were told of an older one (`NewsInv`): this rests
on the slots, because a client that moved to a slot still ahead would be told twice.

*The lines of a stream.* `ShownAreSent` needs to know where the lines of the stream begin, which is a
fact about all of it. `LinesInv` says that there is a function that gives where each line ends in the
bytes written (`Frames`), and that what the client has consumed ends with one of them (`DoneWith`):
a function whose every value depends on the one before stands for the recursion, and what has to be
shown by induction (the ends grow; no line ends in between) is shown by a least counterexample.
`ScanInv` adds that `notification-client` reads only when its buffer holds no end of a line. So the ends of
the lines of the messages it is not done with are all in the socket, and are the only ends of lines there
(`EndsGrow`, `EndOfLine`): a bijection between the two counts them (`LinesLeft`), which is `NothingLeft`.
A full buffer without one holds the start of one message too long for it, which
is `FailsOnlyOnLong`.

*The web server.* `StateInv` is the invariant of requests and of the lock. `StreamInv` follows a request
through the buffer: until its first line is read, what is in `line`, `rest` and `wire` starts with that
line, so that the method and the path that are understood are those of the call (`Understood`).
`ServerInv` says where a call is in the server, and `LockInv` that the server has the lock, and the
length of the file, from `flock` to `close`. A call that deletes or compacts can then only come from a
call of the page to do so.

*What is understood of a request.* For `ParsedAsSent` the invariant has to say what is still to come. `SentInv`
does, as long as no CR was split from its LF: at the first line, at each header and at the blank line, what
is in `rest` and on the `wire` is that line, or the end of it, and then what a client sends behind it
(`LineAt`, `EndAt`); in the body, what has come and what is still to come are the body, or more of it when
the blank line was all there was in the buffer (`late`), whose CR LF is then in front. A read may end
anywhere, so each line has three buffers to be shown for (`ScanSymbol`, `ScanEnd`): one that holds its end,
one that ends with the CR, and one that ends before. In the second the next buffer begins with the LF, and
that is `split` (`ScanSplit`). That the length is known when the headers end is a part of the invariant
(`HeadersAt`), since the body is read up to it.

*What the page announces.* The hash of a file is a function of its length, so `NewsOnly`, which says after which
events a page may announce a change and that a file of its own is none of them, needs that
nothing but an event of `news` changes what the page knows against what there is. `NewsInv` has this for the
last hash and for the one that is on its way, with the exception that makes it hard: a file the page has
sent itself, for which it forgets the hash only once it is answered (`Owed`). `HashInv` says that a poll
that is waited for is one poll.

*What the page deletes.* `ShownInv`: as long as nothing has moved TLVs (`since`), what the page shows at an
offset is still there, or is a pad that does not end the file; an addition begins at the end of the
file or over its last pads, so it never takes such an offset. `TailInv` says the same of a program that
adds from the length it read. The attempt to prove `ShownInv` found that it was false: a delete that
SIGPIPE kills leaves its file stretched, and where it happened to cut as much as the stretch adds, the file
has its old length and the page's last TLV is gone, which `since` did not record. TLC shows it with pages of
two slots and not with three. `Dies` now records the cut, and the run has pages of two slots.

*What the server spares.* `OthersKept` counts the slots that hold a value. It is shown with an injection
(`Moves`, `Spared`): every slot of the file before, but the one that is deleted, has a slot after with
the same value, and no two the same. Each handler gives one (`AddedSpares`, `RemovedSpares`,
`CompactedSpares`), and so do a file that is stretched and left unclosed (`UnclosedSpares`) and a compaction
that is interrupted half-way (`HalfSpares`), where the first slots are those of the compacted file and the
others those of the old one: a TLV that has been moved is found at its new place, the others where they were.
Where the handler interrupts the wait for the lock the file is cut to a length, and the slots before that
are the same (`CutKeeps`).
`MovesCount` turns injections into numbers.

*What is taken for text.* `LooksLikeText` and `IsUtf8` are recursive functions that cut an input in characters
from the front, and the provers know neither what they compute nor how to do induction on them. So both are
related to something without recursion: a set of places, `Cuts`, from each of which all that follows can be
cut. For any choice of characters there is such a set (`CutsExist`: a least number of bytes at the end
for which there is none would be a contradiction), and it makes a function that satisfies the recursive definition,
so that the function the definition chooses does (`TextIsCut`, `Utf8IsCut`). What then has to be shown is about one
character: the table's are the code's, but for controls and the Hangul (`TableIsTaken`), and the code's
are the table's, loosely (`TakenIsLoose`); a last place at which the two sets differ would again be a contradiction
(`CutsMore`). The attempt found two things: inputs that begin as a signature have to be left to the
signatures (a file that begins with BM and goes on with anything is a picture, and one that begins
with a byte order mark a text), and the Hangul.

*The room for what is made.* `RoomEnough` says of `tlv_from_inputs` what the run shows for values of 20 bytes
and up to three inputs, for all of them. It is arithmetic about divisions by a constant that
is any number: `ChunksAre` says what `NbChunks` is without division, and that it grows
(`ChunksGrow`) and is two or more exactly when a value does not fit (`ChunksTwo`). Recursive functions come in
at three places, the sum of the inputs' sizes and what `FlattenSeq` puts together, of inputs and of parts;
`Recursion` shows that such functions exist, `UpTo` what holds of their values, and `FlatLength`
how long the result is. So cutting a value adds one header for each part (`SplitLength`), and an input is as long
as was counted (`InputIs`). A buffer keeps its length as long as nothing is written behind it (`WriteLength`),
which each of the writing steps has to be shown of (`FilledIs`, `EndCompoundIs`, `EndDatedIs`). What is left
is one lemma for the room (`RoomOf...`) and one for the writing (`MadeOf...`) of each of four
cases, one input or several, with a date or without. The last is the one where the two disagree:
there the room is computed for at least as many parts as are written, and for more exactly when the
sizes with and without the date's header take different numbers of parts. The lengths in the code are `int`s, and
those in the model numbers: sums past 2^31 are not spoken of.

### Only model-checked

* Liveness (`EndsOrStuck`, `Answered`, `Announced`, `ExitsOrWaits`, `AllShown`, `Answers`):
  out of the prover's reach.
* Everything about the bytes of a dazibao (`Mdazibao`, `DazibaoContent`, `DzReading`, `DzCommands`), and what
  `tlv_from_inputs` writes in the room it has (`MadeReadsBack`): the functions walk a file recursively, and several of them are RECURSIVE operators, of
  which the provers know nothing.
* `ServedAsAsked` of the web server: what a form's body is taken apart into is a recursive function of its
  separators (`PartsFrom`). With `ParsedAsSent` the body that is taken apart is the one that was sent.
* The refinement `ImplementsStore`, which is about bytes.

## 6. Plan

What is left is to prove more, in this order:

1. `ServedAsAsked`: from `ParsedAsSent`, with what `PartsFrom` makes of a form with one value in which no
   separator occurs.
2. The walks of `TlvLayout` as recursive functions instead of RECURSIVE operators, and with them
   `TypeOK` and `ChainWhole` of `Mdazibao`.

## 7. Not modelled

* `alt-extract`: main calls it with arguments it always refuses (cli.c:860); what is behind that is
  dead code. `extract` with offsets, and the checks of output directories.
* Formatting (HTML, headers of answers, dumps, dates), tables of MIME types, the sizes of images, the
  hash functions, logging, the parsing of options into variables.
* Failures of memory allocation and of system calls that do not depend on other processes.
  Descriptors and mappings are not counted, so that leaks do not show.
* The watcher by ctime, the sleeps of the watchers, start-up of the two servers, and a second SIGINT.
* Files that are no chain of TLVs, except those the programs themselves leave; a dazibao removed
  while a program has it open; multipart forms with several files, which the page never sends, and
  nested boundaries.
* Templates, modals, desktop notifications and delays of the page.
