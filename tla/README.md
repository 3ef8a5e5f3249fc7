# PU850 Wi-Fi module: specifications and proofs

The repository is the firmware of the ESP8266 module that puts a PU850 scale
("PU") on the network, and the host tools that update and read it. The scale is
the master of a serial line; the module answers it, asks it for weights, files
and reports, and offers them to browsers. This directory holds TLA+ modules of
the firmware, the TLC configurations that check them and the proofs that `tlapm`
checks. It has two halves: what the device and the scale say to each other over the
serial line, and what the world says to the device: uploads and downloads of
firmware by the host tools, a Telnet user, the settings.

## 1. The system

### Components

| component | state it keeps | operations | modelled in |
|---|---|---|---|
| Bulk buffer (`LocalLib/UART.cpp` 1279-1382) | `BulkBuffer`, its size, two indices, two U16 totals, `CurrentDataSize`, `FinalDataSize`, `BulkDetected`, `BulkOverflow` | `BulkReset`, `WriteToBulk`, `WriteBulkTerminator`, `ReadFromBulk`, `GetBulkRemain`, `BulkWriteStringTo` | `BulkRing`, `BulkBuffer`, `BulkFifo` |
| UART frame parser (`UART.cpp` 1527-1700, 1770-2182) | `eProcessState`, `eSubProcessState`, `ePrefix`, `eSuffix`, `ePart`, `eWiFiPack4Byte`, `initStatus` | one processor for each state, `SendCommand`, `WaitForSerialProcessing`, and when PU counts as initialised | `UartParser` |
| File download from PU (`pu850-esp.ino` 757-978, `UART.cpp` 150-339) | the bulk buffer, `dataTimeOut`, `eMasterStatus`, `eOldMasterStatus`, the GWP pin, the web server's connections | `/file/download`, `/file/cancel`, response callback, `onPoll`, `onDisconnect`, `Request_GiveFile`, `Cancel_FileReceiveOperation` | `FileTransfer` |
| Requests to PU (`UART.cpp` 20-148, 342-839, 1386-1480) | `timeOut`, `eResponsePrefix/Suffix/Code`, `eProductStr`, `initStatus` | `Request_*`, `ReadEP*`, `WriteEP*`, initialisation, reboot | `UartRequests` |
| Receipts and reports (`UART.cpp` 400-560, `.ino` 285-349, 661-700) | the bulk buffer | `Request_GiveReceipt`, `Request_GiveReport`, chunked response | no; their frames are in `UartParser` |
| End points (`UART.cpp` 841-1277) | some sixty named numbers and strings | push, pop | no: one assignment each |
| Main loop and web routes (`pu850-esp.ino`) | time stamps, web sockets, `eSendingWeigh` | `loop`, routes | what touches the serial line, in `FileTransfer` and `UartRequests`; the restart after an update, in `UpdateDevice` |
| Firmware update (`LocalLib/AsyncOTA.cpp`) | the `Update` object, `_rebootRequired`, `updateProgress`, what PU was told | chunk handler, end handler, call-backs, restart | `UpdateDevice`, `FirmwareSlot` |
| Firmware download (`LocalLib/FirmwareTransfer.cpp`) | none between requests | range parser, flash reader, route | `HttpRanges`, `FirmwareDownload` |
| Build (`build.sh`) | the `.bin` and its manifest | compile, compress, hash, publish | `BuildFiles` |
| Host tools: upload (`Tool/Go`, `Tool/C++`, `Tool/C#`, `Tool/upload.js`) | hashes, address, attempt | read, validate, resolve, ask, post, retry, verify | `FirmwareUpdate` |
| Host tools: download | `.part` and published file | HEAD, resume, GET, check, publish | `FirmwareDownload`, `TransferTool` |
| Host tools: watch | identities seen and handled, pending events | poll, event, debounce, validate, send | `BuildWatch`, `TransferTool` |
| Settings (`pu850-esp.ino`) | `flashSettings`, the driver's configuration, the EEPROM library's buffer, flash | read, write, `ConfirmSettings`, setup | `Settings` |
| Telnet (`LocalLib/Telnet.cpp`) | input state, delayed greeting | bytes in, connect, disconnect | `Console` |
| Shell (`LocalLib/Shell.cpp`, `Commands.cpp`) | line, cursor, escape sequence | keys, submit, commands on settings | `ShellLine`, `Console` |
| Sessions (`LocalLib/Sessions.cpp`) | eight logins | add, find | no: nothing in the build calls `addSession()` |
| SSDP (`LocalLib/SSDPDevice.cpp`) | the queue of what shall be sent, the addresses it was announced with | join, leave, announce, refresh, answer | `SSDPDevice`, composed in `Services` |
| MNDP (`LocalLib/MNDP.cpp`) | a time stamp | announce | no: a time stamp and a datagram without an answer |
| `puff.c`, crash handler, file system, build files, sources that are not compiled | - | - | no: vendored, pure I/O, or not in the build |

### How they interact

Everything in the firmware shares globals. There is one thread, and a handler
runs to its end before another begins, but "to its end" includes loops that wait
for PU and call `SerialPortReceiveProcess()` inside. So a frame that arrives
while `Request_GiveFile` waits is dispatched in the middle of it. Four parties
meet at the bulk buffer:

- the parser writes a string, a report or a file into it, byte by byte;
- the response callback of a download reads it, when the web server has room;
- `onPoll`, `onDisconnect`, `/file/cancel` and two time-outs in the parser close
  it and tell PU to stop;
- the next request opens it again.

The other half meets at fewer places. Uploads of firmware by several clients share one
`Update` object, which knows of no request; what it does is told to PU (Busy, Ready)
and to `loop()` (progress, restart). A host tool reads files that a build may be
writing, asks the device what it runs, posts, and asks again until the device
comes back with the new image; the device may lose its supply or change its
address meanwhile. A download goes in requests, between which the device may be
given other firmware, and leaves a `.part` file for the next run. Discovery sees the
network's addresses change and is not called during an upload. The console's
user and PU change the same settings, in RAM, and save them in flash.

PU is told when to stop sending by the GWP pin, set from the number of bytes in
the UART and in the ring together, and by commands. It answers when it likes or
not at all.

### What is hard

- Between any two bytes of a frame anything else may run. `SendCommand` uses the
  parser's own globals as scratch.
- Bytes can be lost; frames have no checksum, strings no length.
- PU can be silent, slow, or late: an answer can come after the ESP gave up.
- Nobody owns a transfer: the callbacks of a finished response look at the same
  flags as those of a new one.
- U16 totals and U32 sizes are compared; a full ring holds one byte less than its
  size; allocations fail.
- A cancelled transfer leaves bytes on the line that were meant for it.
- The calls of two uploads mix as their packets do; one request's refusal changes
  the other's hash.
- The old firmware answers until the restart, a request without an answer may have
  been carried out, and the tools must not send a body twice.
- Files change between the time they are validated and the time they are sent.
- A commit to flash may fail, or be cut short; what is read back is a copy in RAM.
- What discovery announces, refreshes and answers waits in one queue of thirty-two slots,
  ordered by a clock that wraps and whose value 0 means a free slot; the device's
  address changes while answers for the old one wait.
- Keys come byte by byte, escape sequences and negotiations may be cut short, and a
  connection is reported before its socket counts as connected.

`PROJECT.json` lists these hazards at their lines, with the property that covers
each, or the reason that none does yet.

### What makes each component correct

- Bulk buffer: a bounded queue; indices in bounds; totals and contents agree.
- Parser: what it acts on is what was sent; it finds its way back after damage; once PU
  is initialised it waits for nothing for ever.
- File download: a response carries its own file; a transfer is taken for complete
  only when the browser has the whole file; PU is not left sending; a request ends; the device becomes
  ready again; flow control keeps a buffer with headroom from overflowing.
- Requests: what a request reports is what PU holds; what is taken for known about
  PU, and for told to it, belongs to the PU that is there, also after a reboot.
- Firmware update: the boot loader is given whole images only, each of one upload, with
  the hash it was announced with; PU is not left Busy.
- Host tools: what is reported as accepted or verified is so; nothing is sent twice.
- Firmware download: the published file is one version of the firmware, which ran
  during the run; a resumed download never mixes two, throws nothing good away, and
  is not stuck with a bad file.
- Watch modes: no build is replayed, and none is overlooked.
- Settings: once saved or discarded, RAM and flash agree, and the driver runs with what
  `WiFi_Setup` made of them.
- Discovery: whatever is searched for, the device goes on announcing all that it is,
  and is known under its present address only.
- Console: the line on the terminal is the line the shell works on; a greeting goes
  once to the connection it is for; device and client agree what is a command.

## 2. The modules

| module | what it is |
|---|---|
| `BulkRing` | the bulk buffer as a value and the functions of `UART.cpp` that work on it; no variables |
| `BulkFifo` | the abstract specification: a bounded queue with an overflow flag |
| `BulkBuffer` | the buffer with its operations in any order; implements `BulkFifo` |
| `BulkRingProofs`, `BulkBufferProofs` | proofs about the operations of the ring, and about `BulkBuffer` |
| `UartParser` | the parser, composed with the buffer, a lossy line, and the other users of its globals |
| `UartParserProofs` | proofs about it |
| `FileTransfer` | one or two downloads, composed with the buffer, PU, the line and the web server |
| `FileTransferProofs` | proofs about it |
| `UartRequests` | requests with their waits, the start-up, a PU that answers late, refuses and reboots |
| `UartRequestsProofs` | proofs about it |
| `FirmwareImages` | images, their files and hashes; no variables |
| `FirmwareSlot` | the abstract specification of an update: the device runs whole images only |
| `UpdateDevice` | `POST /update` call by call, the restart; implements `FirmwareSlot` |
| `BuildFiles` | the files a build leaves, step by step, and how each tool reads a manifest |
| `FirmwareUpdate` | one run of a host tool against the device, a rival client and a build |
| `FirmwareUpdateProofs` | proofs about it |
| `HttpRanges` | ranges as the device parses them and as RFC 9110 defines them; no variables |
| `FirmwareDownload` | `/firmware/download` and the four tools' resumed downloads |
| `BuildWatch` | the four watch modes against builds that go on |
| `TransferTool` | a tool that downloads or watches |
| `TransferToolProofs` | proofs about it |
| `ShellLine` | the line editor and the terminal it draws on; no variables |
| `Settings` | the four copies of the settings, commits, losses of the supply |
| `Console` | Telnet, the shell and the settings composed |
| `SSDPDevice` | discovery: the queue, announcements, searches, changes of address |
| `Services` | the console and discovery, both served by `loop()` |
| `ServicesProofs` | proofs about them |
| `MCBulkBuffer`, `MCUartParser`, `MCFileTransfer`, `MCUartRequests`, `MCFirmwareUpdate`, `MCTransferTool`, `MCServices` | values of the constants for TLC |

`BulkRing` is a module of operators because three components hold the same
globals: each `EXTENDS` it and keeps the buffer in a variable `bulk`, a record
whose fields are the globals (`rd` is `BulkReadCounter`, `current` is
`CurrentDataSize`, and so on). Constants name the sizes of the code: `MinBulk` is
`FCSTS_ + 8` (23), `MaxBulk` is `FBPS_ * 4` (2048), `CounterMod` is 2^16.
`PointerSize` is not a parameter: `WriteBulkTerminator` takes `sizeof` of a
pointer where it means the buffer, and the model does what that does. A slot
nobody has written holds `Junk`, what `malloc` leaves; `WriteOutcomes` is a set
because a write after a failed allocation divides by zero, which the build may
compile away or trap (the chip restarts).

`UartParser` reads one byte per step. A state of the parser is a string for each
constant of `UART.h`; `eSubProcessState` counts the four data bytes. Suffixes are
one for each kind of treatment (`Status` stands for all orders that read `ePart`,
`Weigh` for those that read `eWiFiPack4Byte`); a frame that is acted on appends to
`acted` what it was acted on with, which is the history the properties read. The
replies `EOT_Processor` sends are left out: they overwrite globals of a frame that
is over. Time is one flag, `stale`: nothing has arrived for two seconds, and so a
`WaitForSerialProcessing()` that begins now reads nothing (`!SerialProcessActive`) and
finds nothing waiting. `initStatus` is the code's: `InitializeUARTService` sets it, a
granted reboot (`Request_RebootPU`) clears it, and a frame is given up only while it is
set. When PU is initialised is left open. The browser takes bytes of whatever bulk data
is there (`ReadByBrowser`), also of a string, whose dispatch is then marked `torn`. An
overflowing file is two actions, `FileOverflows` and `FileOverflowEnds`, because
`Cancel_FileReceiveOperation` ends in `Request_GivePUStatus`, which processes what
arrives before the call goes on; `unfinished` counts the calls that are in there.
`NumberPrefixes`, `TimeoutStates` and the like are sets as the `switch` lists them.

`FileTransfer` takes whole frames (the parser's part) and marks each byte with the
request it answers. `cpu` says which waiting loop the thread is in: none, the one
in `Request_GiveFile`, or the one in the response callback. `dataTimeOut` is its
age: `zero` as assigned, fresh, a second old, two seconds old. `Cancel` is
`Cancel_FileReceiveOperation` with both of its paths; how much of the line it
throws away is a choice, as it depends on how fast the bytes come. PU is external:
it begins the file, says it does not have it (`GiveNotFound`), refuses with another code
and is sent a cancellation (`GiveRefused`), or is silent (`GiveTimesOut`). A download that
finds the device busy asks for PU's status before it is refused (`AsksMeanwhile`, of
`WaitForPU_Ready`). The link is initialised throughout. The metadata exchange before a
transfer, ranges and HEAD are not in this module.

`UartRequests` too takes whole frames. The requests of `UART.cpp` wait in two ways: for
`eResponseCode`, when the answer names the prefix and suffix they expect
(`expected`), or for a flag that a frame sets (`eProductReady`). One end point,
`HideWeigh`, stands for the numbers that are written and read; `basic`, `serial`,
`status`, `reboot` are the requests of the start-up. `call` is the request that waits:
`settle` is `WaitForSerialProcessing()`, where a half-received frame is processed
before the command is sent, `wait` the loop after it. `thread` says whether `setup()`
or `loop()` is in `InitializeUARTService()`; its delays let handlers run, a waiting
request does not. A time-out may come at any moment of a wait, since PU is as slow as
it likes. The question for PU's program version and language, which stands beside
that for its serial number, is left out, and so are the other users of the two
waits. PU is external: it takes commands in order, may refuse a value or a reboot,
loses what waits when it reboots, keeps its values, and says that it is there again.

`FirmwareImages` makes a hash the identity of what it was taken of: an image `i` is
`Raw(i)` as it runs and `Gz(i)` as it is sent.

`UpdateDevice` takes a `POST /update` apart into the calls of the chunk handler: the
first one (`FirstCall`: refusal, hash, `Update.begin`), a piece (`WriteUpdate`), the
last one (`Finish`), which the web server may make with the last piece or without
one. The operators are functions of the `Update` object (`ota`: open, error, target
hash, pieces written, and what its call-backs have told PU and `loop()`) because one
object serves all requests; the actions are `Upload(p)`, `Respond(p)`, `Break(p)` for a
request `p` in any order. A hash agrees when the pieces are those of the image named,
in order (`Mismatch`). `staged` is what the boot loader will copy: an image, or `Torn`
when a later upload has written over it. `Crash` is a reset, which keeps the order for
the boot loader, or a loss of the supply, which does not. Flash failures are choices.

`BuildFiles` has one step for each command of `build.sh` that changes the firmware or
the manifest, each of which may be the last; the old `.bin` and manifest are gone before
the compiler runs. A manifest is a sequence of records, and
may also be one that was copied or edited by hand (`OddManifests`). `CppManifest`,
`GoManifest`, `CsManifest` and `NodeManifest` are the four parsers.

`FirmwareUpdate` gives each tool its own steps, named for it, because they differ in
the order of reading, in what ends a run and in what may be tried again: which
reads validate which hash, when an address is looked up anew (`Lookup`, `RefreshOnce`),
and which failures of a POST allow a second one. `post[First]` and `post[Second]` are the
attempts; a tool's request is `Connect`ed to the device if the address it has is the
device's. A tool gives up or loses its connection at any point; a deadline is a
choice. `Rival` is another client. Histories: `stagedBy` is the image that a request's last
call accepted, `disturbed` the requests another one's calls came between, `booted`
what restarts have put in place.

`HttpRanges` has a number of a header as "none", "junk" or a value, and `WellFormed`,
`Fits` and `Named` as what RFC 9110 says of it. `FirmwareDownload` has the bytes of an
image as pairs `<<image, place>>`, so that a file made of two images shows. `run` is
the running tool; `Start` begins another on the files that are there, `Install`
changes the device's firmware between any two steps, `Kill` ends a tool. `Answer` is
the route for any header, used by the tools and by `Browse`.

`BuildWatch` knows files by stamps (how often each was written, which stands for size
and time), by events (the flags `changed` and `pending`), or by content, as each tool
does. The transfer is one step. `sent` counts, for each `.bin`, how often it was sent.
`TransferTool` composes the two: a behaviour is of a download or of a watch.

`ShellLine` is the editor as functions of a session and of the screen: each operator
gives the new session and what its output makes of the terminal line (`Put`, `Move`,
`ClearAfter`), so that a key that redraws only part of the line can go wrong.
`Console` feeds it bytes through `TelnetProcessByte` (`ParserAfter`); `client` is where
the client is in its own stream. A line's command is a constant `CommandOf`, so that
editing and commands meet. `Settings` keeps `ram`, `effect` (the driver's current
configuration), `ee` (the EEPROM library's buffer) and `flash`; all settings are one
value. `WiFi_Setup` clears what the driver has and tries mode, soft-AP and station in
turn, whatever comes of each (`pu850-esp.ino` 125-203): it disconnects what is off, and a
soft-AP whose password is too short stays cleared. So the constant
`Installed` gives, for each value, the set of what the driver may be left with, and
nothing is assumed of it but that it is not empty. A single change (`PushToEndPoint`,
`SetParameter`) gives the driver the new value, which it may refuse.

`SSDPDevice` has one action for `handleClient()` and one for what WiFi does between two
calls. The parts of `handleClient()` are operators in the order of the code: leave the
group if an address that was announced is no longer the device's (`Left`, `Withdrawn`,
`KeptQueue`), try to join (`MayJoin`, `Joined`, `JoinedQueue`), answer one datagram
(`Answered`), send what is due (`DueNow`, `Sent`). `queue` is the set of what the used
slots hold, since no code asks which slot; an entry whose time is 0 is not in it, as the
code takes its slot for free (`Placed`). `Due` is the signed difference of the code on
a clock of `Wrap` values. Which response an announcement displaces from a full queue is
left open; `PostHolds` proves that it never happens, as there is room. `advertised` is the
history of what others were told and not withdrawn, `silent` of addresses that were given
up (`Abandoned`) with a goodbye that could not be sent, which nothing sends again, `lost`
of what is no longer refreshed. `MaxLag` bounds
the time between two calls: during an upload `loop()` makes none. `Services` adds nothing
but a variable that says which of the two services a behaviour is of, as they share
nothing.

## 3. The runs

| run | what it shows | bounds |
|---|---|---|
| `bulk_buffer` | bounds, totals, and the refinement of `BulkFifo` | rings of 4 and 5 slots, 3 byte values, totals modulo 6: both the indices and the totals wrap at different times |
| `parser_numbers` | dispatch, recovery; under fairness: on an initialised link no header is waited for without end | 3 frames out of a kind each that reads `ePart`, reads `eWiFiPack4Byte`, is not ended, is a text; SOH and EOT among their data bytes; 1 lost byte, 1 command of the ESP's own at any point; PU initialised, and rebooted, at any time and any number of times |
| `parser_bulk` | dispatch and recovery for every kind of frame | 2 of 20 frames, among them texts, reports and files that fit and that overflow a ring of 9; 2 lost bytes, 1 silence, a reader at any point |
| `parser_number_stuck` | a disagreement, see below | 1 frame, 2 lost bytes |
| `parser_file_overflow` | a disagreement, see below | 1 frame |
| `file_one` | whole files, PU stopped, headroom; under fairness: the request ends, the status recovers | 1 request, files of 2, 5 and 9 bytes around rings of 4 to 8 and a threshold of 3, PU silent twice or refusing, answers that may be late |
| `file_two` | own file, PU stopped | 2 requests for files of 3 bytes, PU silent once, any number of cancellations |
| `file_paused` | a disagreement, see below | as `file_one` |
| `requests` | honest writes, fresh reads, initialisation and settings of the right PU | 2 requests of web handlers (read, write, status, reboot), 1 initialisation after the first, 1 reboot, 1 loss, 1 repeated status request; symmetry over the two values |
| `firmware_update` | honest answers, no replay, verification, PU and loop told, the device implements `FirmwareSlot` | each of four tools, 2 images of 2 pieces, 3 requests, 2 addresses, 1 fault, 2 disturbances (an upload by another client, a broken connection; a build counts for two), 1 build; symmetry over the images |
| `transfer_tool` | downloads: whole, aligned, retained, converging; ranges; under fairness: watch modes | images of 2 and 4 bytes, flash of 8, 32-bit limit 8 and numbers to 9; 3 runs, 2 installations; 2 builds |
| `services` | console: the line is shown, in step, RAM, flash and driver agree; discovery: everything stays announced, at one address | lines of up to 3 bytes, two letters which also end escape sequences ("D" is an arrow, "~" a function key), all control keys, 2 values of the settings, one of which the driver may be left without; a queue of ten slots for nine announcements and three answers each to one control point, a clock of seven values, one station address and the soft-AP's, one failing send, of an announcement or a goodbye, whose loss has not been made good |

Why these bounds are enough: a ring of four slots has the cases empty, one, full
but one, full, wrapped and not, and one more slot makes size and totals wrap
apart. Damage to a frame of the runs reaches at most into the next one but one (this is
what `BoundedLoss` says), so three frames show it and two show it for the longer kinds.
Two downloads are the fewest with an old response and a new one; files of two
bytes end within one call of the callback, of five take several, and nine do not
fit the largest ring, so flow control decides. Two requests are one whose answer is
late and one that meets it; a reboot, a loss and a second initialisation then meet
each other in every order. Without its exceptions `WriteHonest`, `InitHonest` and
`SettingsKnown` are violated within these bounds.

An update of two pieces has a first call, a last one and, with the empty final call, one
of neither kind; two requests mix and a third belongs to the tool's second attempt.
One fault is a restart in an upload, or a move of the device between two requests.
Images of two and four bytes differ in size both ways when one replaces the other,
and leave a partial file that is shorter than, as long as and longer than the image;
a third run meets what two have left. The limit of 8 is passed by 9. Two builds are
the fewest where one is overtaken. A line of three bytes has a cursor at its
beginning, in the middle and at the end, with room left or none. Ten slots are one more
than a join needs and fewer than a join and a search, so the queue fills; a clock of seven
wraps within four refreshes, and every time an entry may have falls on 0.

Deadlock is checked for the buffer and for `services`. The parser stops when everything
sent has been read, the others when nobody asks again or the bounds are used up.

Each property has a mutant in `PROJECT.json`, an operator next to the definition
it replaces (`...NoRestart`, `...Never`), that TLC finds to violate it.

### Fairness

`parser_numbers`, `file_one` and `transfer_tool` check liveness. The first two assume what
the code schedules and nothing about PU or browsers sending more:

- `loop()` calls the parser each time round, so a byte that is waiting is read;
- every request to PU starts with `WaitForSerialProcessing()`, and somebody makes
  one now and then (without that the firmware itself never gives a frame up, as
  `loop()` only reads; so `NoStateForever` and `StatusRecovers` are about a device
  that is in use);
- time passes, and a line with nothing on it stays silent for the two seconds;
- that PU is ever initialised, or again after a granted reboot, is not assumed, and
  `WaitForSerialProcessing()` gives nothing up before it is (`UART.cpp` 1681): a header cut
  short then, with PU silent, is waited for without end, `loop()` only reads, and
  `InitializeUARTService` ends with a `WaitForSerialProcessing()` that fails. Only PU's
  next bytes end that. So `NoStateForever` and `NumberGivenUp` are about an initialised
  link, and `file_one` about one throughout;
- PU takes the commands it is sent and sends while the pin lets it, and may answer
  with silence `MaxSilences` times;
- the web server closes a response it has all bytes of, and `onPoll` is called while
  a connection is open. A browser is not assumed to read or to leave.

`NewestTried` assumes that each watch mode's loop, timer or task goes on (`WatchFairness`):
C++ and Go poll, Node has its timer, C# its delay. A transfer is assumed to end, either
way; a build is not assumed to.

### Properties

- `TypeOK` (one for each module), with the bounds of both ring indices. Those of
  `FileTransfer` and `UartRequests` are proved and not run.
- `TotalsAgree`: the two U16 totals differ by what the ring holds.
- `RefinesFifo`: the ring is `BulkFifo`.
- `DispatchIntegrity`: what has been acted on is a subsequence of what was sent,
  each with its own suffix and value (a string up to its capacity; the parser skips ENQ in
  strings and reports, so the property does). It excuses what no receiver could notice (a
  text that lost a byte, or whose suffix was lost), the value of a string of which the browser
  has taken bytes (strings use the buffer a response reads: `pu850-esp.ino` 305, 931) and,
  when the ESP has sent a
  command into a frame, actions of that command's kind: that is what the overwritten
  globals turn the frame into.
- `BoundedLoss`: when all has been read, each lost byte, silence, overflow or
  command has cost at most two frames, and a diagnostic frame the one behind it. The runs
  check it with lost bytes too; `ParserRecovers` proves it for any number of frames on a
  line that loses none. It is not so for every frame: where the last of the four
  data bytes is SOH, one lost byte makes the parser wait for the end of the frame beyond
  it, take that SOH for a start, EOT for the prefix and the next frame's SOH for the
  suffix; it then misses the next frame too, whose own last byte starts the same again.
  With frames `SetNum(0, 0, 0, 1)` back to back and one lost byte TLC finds three of three
  missed, and it goes on until the line is silent. A file whose last byte is SOH does the
  same. A silence within a frame starts such a chain just as a lost byte does: with
  `Order(Weigh, 0, 0, 0, 1)` three times and one pause TLC finds all three missed. The
  theorem therefore is about frames that are `Recoverable`, as those of the runs are.
- `NoStateForever`: on an initialised link the parser stays in no state the time-out lists
  (but `WaitforFourth_`, which is none: see below).
- `OwnFile`: a response holds bytes of its own file only. The exception it names
  (`overlapped`) is real: when a transfer has been cancelled or timed out and its
  response is still open, a new download is accepted and the old callback reads its
  bytes. With answers that come after the ESP gave up (`Late`), PU's start of file
  for the first request is taken for the second's; `file_two` therefore sets `Late`
  to FALSE.
- `WholeFile`: the callback takes a transfer for complete, and returns the buffer without
  a cancellation (`pu850-esp.ino` 937-941), only when the browser has the whole file. Its
  other branch (943-947) cancels and returns the buffer with part of a file.
- `PUStopped`: PU sends only while someone receives, or a cancellation is on its way,
  or a response is open that will send one.
- `Headroom`: with more room than the threshold and what may be on the line, the
  ring does not overflow.
- `RequestEnds`, `StatusRecovers`: leads-to.
- `WriteHonest`, `ReadFresh`: "ok!" means PU holds the value asked for, and a value
  reported is PU's. The exception (`clean`) is real: answers carry only the kind of
  request, so a late one is taken for the next request's. A late value can also
  arrive between `Request_ShowHideWeight`'s assignment and its command, which then
  sends the old value back.
- `InitHonest`: the initialisation ends with the serial number of the PU that is
  there. Two exceptions are real: PU's answer to a reboot request came too late, so
  the ESP does not know of the reboot; and a reboot granted inside the
  initialisation's own delay, whose loop then finds `Booting_` and the old serial
  number and reports success.
- `SettingsKnown`: `eMultiSettingsSent` is about the PU that is there.
- `RefinesSlot`: the device implements `FirmwareSlot`. A restart puts a whole image in
  place; only an upload that begins between acceptance and restart can spoil it
  (the code does not refuse one).
- `HonestOk`: "ok!" names the image that was given to the boot loader. Requests between
  whose calls another one came are excepted, and that is real: a POST refused as too
  large has by then set its own hash, and with an empty final call another
  request's "ok!" may be about the wrong image.
- `ToldAsItIs`: PU is Busy only for an open update or a reboot that is due. An upload
  that is broken off leaves the update open, so PU stays Busy and discovery silent until
  the next POST: the code has no other end for it, and the property says no more.
- `NoReplay`, `VerifiedBooted`: a tool sends its body once; what it calls verified has
  booted. A forced upload of the image that already runs verifies before the reboot;
  the property's condition excepts it.
- `PublishedWhole`, `PartAligned`, `PartRetained`, `RetryConverges`: the file published is
  one image that ran during the run; bytes are in their places; what was fetched is kept
  (except by the C++ tool when a body was shorter than announced), and of two undisturbed
  runs in a row that must succeed (`MustSucceed`: those of the C++ and the Node tool, and
  those of any tool that do not resume) at most one fails.
- `RangeServed`: every well-formed range whose numbers fit is answered as RFC 9110 says. A
  number of 2^32 or more gets 416 though a range may be satisfiable.
- `NotReplayed`, `NewestTried`: C++ sends no build twice; Go, which reads the files again
  after recognising them, may send one twice. Node and C# may send a failed build again
  on a late event and promise nothing. When the builds come to rest the newest has
  been tried.
- `LineShown`: between two bytes the terminal shows line and cursor, and a connection
  without its greeting has it to come.
- `InStep`: text is taken for text. The library drops what has arrived when it reports
  a connection; if that was the beginning of a command (`cut`) the two are out of step
  until the next one.
- `KeepsAdvertising`: while the device is in the group, each of its descriptions waits to
  be announced again within half of max-age. Two exceptions are real (`lost`): a refresh
  that could not be sent is not put in again, and one whose time falls on 0 is in a slot
  that counts as free, which nothing in the code guards against.
- `OneLocation`: what has been announced and not withdrawn, and what waits, names the
  present address. Withdrawn means that the goodbye was sent. The exception is real
  (`silent`): one that cannot be sent (`SSDPDevice.cpp` 377-389) is not tried again.
- `NotPostponed`: a repeated search does not put off the answer that waits. Proved, not
  run.
- `SettingsAgree`: once saved or discarded, RAM and flash agree, and the driver runs with
  something `WiFi_Setup` may leave it with when given just these: no discarded change and
  no older value stays in effect. That the driver has all of the settings is not promised,
  since `WiFi_Setup` ignores what it refuses: RAM and flash may hold a soft-AP password
  shorter than eight, and the driver no soft-AP. Excepted besides: after a failed commit,
  "Discard (Restore from flash)" (`pu850-esp.ino` 2091) restores the values that could not
  be saved, from the EEPROM library's buffer; with unreadable flash, what the driver runs
  with is taken.

### Disagreements found

1. `parser_number_stuck`: `WaitForSerialProcessing` switches on `eProcessState` and
   lists `WaitforFourth_`, a value of `eSubProcessState`; the state is
   `Waitfor4Num_`. A number frame that ends before its fourth data byte is
   never given up (two lost bytes are enough).
2. `parser_file_overflow`: `FileDataProcessor` goes on after its cancellation, finds
   both sizes 0 and reports `OK_`.
3. `file_paused`: 0xfe, "paused due to disconnect", is sent with the browser
   connected.

Seen while modelling, with no line that says otherwise and so no run: a status
frame that says Busy is turned into Ready by the `_ResetReceiveProcess(OK_)` that
ends the same frame once `initStatus` is set (`Promote`); `Request_GiveBasicData`
always reports failure (`BasicDataEnds`); a PU that says Ready but whose serial
number comes too late leaves `initStatus` unset and the status Busy, and nothing in
`loop()` asks again until PU speaks or `/pu` is called, which is why no liveness
property of the start-up is stated.

## 4. The proofs

`tlapm` proves the theorems below, for every value of the constants that the named
assumptions allow; TLC evaluates the assumptions in the runs. The values of the code
satisfy them.

| theorem | statement | of |
|---|---|---|
| `RingSound`, `TypeCorrect`, `TotalsCorrect` | `Spec => []IInv`, `[]TypeOK`, `[]TotalsAgree` | `BulkBuffer` |
| `RingImplementsFifo` | `Spec => RefinesFifo` | `BulkBuffer` |
| `ParserTypeCorrect` | `Spec => []TypeOK`, any frames, losses and commands | `UartParser` |
| `ParserDispatches` | `Spec => [](lost = 0 => DispatchIntegrity)`, any frames, silences and commands | `UartParser` |
| `ParserRecovers` | `Recoverable => (Spec => [](lost = 0 => BoundedLoss))`, any number of frames, silences, overflows and commands | `UartParser` |
| `FileTypeCorrect` | `Spec => []TypeOK`, any number of downloads | `FileTransfer` |
| `WholeFileCorrect`, `PUStoppedCorrect`, `HeadroomCorrect` | the safety of one download: `Requests = {r}`, any PU | `FileTransfer` |
| `OwnFileCorrect`, `WholeFileTogether`, `PUStoppedTogether`, `HeadroomTogether` | all four safety properties, any number of downloads: `Late = FALSE` | `FileTransfer` |
| `RequestsTypeCorrect`, `WriteHonestCorrect`, `ReadFreshCorrect`, `SettingsKnownCorrect`, `InitHonestCorrect` | all safety properties of the run `requests` | `UartRequests` |
| `UpdateTypeCorrect`, `ToldCorrect`, `SlotCorrect`, `NoReplayCorrect`, `BootedCorrect` | those of `firmware_update`, `SlotCorrect` being the refinement | `FirmwareUpdate` |
| `HonestCorrect` | the part of `HonestOk` about the hash that was sent, any number of builds | `FirmwareUpdate` |
| `HonestOkCorrect` | `Spec => [](builds <= 1 \/ Kinds \subseteq {"cpp", "node"} => HonestOk)` | `FirmwareUpdate` |
| `TransferTypeCorrect`, `PublishedWholeCorrect`, `PartAlignedCorrect`, `RangeServedCorrect`, `NotReplayedCorrect`, `RetryConvergesCorrect` | the invariants of `transfer_tool` | `TransferTool` |
| `PartRetainedCorrect` | its action property | `TransferTool` |
| `ConsoleTypeCorrect`, `LineShownCorrect`, `InStepCorrect`, `SettingsCorrect` | the console's properties in `services` | `Console` |
| `KeepsAdvertisingCorrect`, `OneLocationCorrect`, `NotPostponedCorrect` | discovery: both invariants of `services`, and an action property | `SSDPDevice` |
| `ServicesRefine` | `ServicesSpec => Spec /\ DiscoverySpec`: what is proved of either holds of both together | `Services` |

### The ring

Assumptions `BulkBytes`, `BulkSizes` (`PointerSize <= MinBulk <= MaxBulk <= CounterMod`),
`SizesAssumption`. `TypeOK` alone is not inductive: that a byte read is a byte, not junk,
needs that every slot between the counters was written since the ring was opened
(`BulkHoldsBytes`), and that the terminator, which writes outside that range, leaves it
alone. `TotalsAgree` is kept by a write because the ring is not full and
`MaxBulk <= CounterMod`. `SoundRing` is the conjunction. `BulkRingProofs` has the
arithmetic of the wrapped indices (`WrapStep`, `WrapDifference`, `DifferenceGrows`,
`DifferenceShrinks`) and what each operation keeps (`ResetSound`, `WriteSound`,
`ReadSound`, `TerminatorSound`); three modules build on it. For the refinement `Contents`
is shown to be a sequence to which a write appends and of which a read takes the head,
and `StepRefines` maps each action: `Reset` to `Open`, `Write` to `Put` or `Drop` (or
`Open(0)` when the chip restarts), `Read` to `Take`, `Terminate` to a stutter.

### The parser

Assumption `WireCarriesBytes`, beside the ring's: what travels are bytes, and the ESP's
commands are made of bytes. `TypeOK` does not say what the line carries, so `TypeInv` adds
that, and has the ring sound. One lemma for each group of processors (`HeaderTyped`,
`DataTyped`, `EOTTyped` and the ends by prefix that it cites) shows that the parser moves
between states it knows and that `ePart` stays an index of the four data bytes, though
any byte may have been lost and any of these globals overwritten by a command of the
ESP's own (`OthersTyped`).

`ParserDispatches` is about a line that loses nothing; everything else may happen in any
order: silences, time-outs, full buffers, reads by the browser, commands of the ESP's own.
It rests on three rules about what PU sends, which are assumptions of `UartParser`:
`NoFrameInside` (nothing within a frame looks like a start of one, for nothing is escaped),
`FramesFollowRules` (four data bytes, no EOT in a text, a file as long as its order says)
and `StringsFit` (a string has room in the buffer). The bytes on the line do not say where
a frame begins, so the invariant has to: `PlaceInv` says there is a place, byte `p` of
frame `f`, from which on the line holds the rest of what was sent (`At`), and at which the
parser's state makes sense. Either it is in step (`InStep`: its state, prefix, suffix,
data bytes, and for a text or a file what has been kept and how much of it has been read
before, are those of frame `f` up to byte `p`), or it is out of step and harmless
(`OutOfStep`: it waits for a start, or has taken SOH inside a frame for one and will reject
the prefix, or runs to the next EOT of a frame it will not act on). `Serves` says what has
been acted on matches frames before `f` in their order; out of step, frame `f` counts as
gone by, so that an action on it can no longer happen. `HistoryInv` has the types of the
histories. That a file or text is whole needs a count of what the reader has taken away
already, as the browser reads while the parser writes: `Fetched` and `Kept` (how many of
the first `i` bytes of a text are not ENQ) are related by `KeptNext`, one byte at a time,
so no induction over data is needed. Of a string only one that nobody has read from is
held whole (`fetched` empty). The steps follow the processors (`SOHPlaces`,
`PrefixPlaces`, `SuffixPlaces`, `NumberPlaces`, `BulkPlaces`, `FilePlaces`, `EOTPlaces`),
then giving up, commands, reads, silences and PU (`GivenUpPlaces` to `PausePlaces`).
A command of the ESP's into a frame puts the parser out of step there, with the exception
`DispatchIntegrity` names.

`ParserRecovers` bounds what such a parser misses. Its hypothesis `Recoverable` says what
it takes of the frames: at the end of one that has to be understood, or whose prefix no
one knows, a parser that began to look for a start anywhere in its first bytes waits for a
start again (`Firm`); texts hold no SOH, and strings no Null; a file is shorter than the
counters go and nothing else follows its frame; and what the ESP sends into a frame is a
command with four bytes, but neither an order for a file nor a diagnostic, as `loop()` and
the status requests send none. `MCUartParser` assumes it of the frames of the runs, so
every parser run evaluates it. Without `Firm` the theorem is false (see `BoundedLoss` in
section 3). The invariant is a balance. `Credit(h)` is what the pauses, full buffers,
commands, cancelled files (`excused`: what had been sent) and diagnostic frames so far
pay for, less the frames that have
gone by (the first `h - 1`) and were not acted on: how many more may be missed. `RecoverInv`
says there is a place (`At`, as above) where this is enough for what the parser's state
will still make it miss (`Due`): in the frame from its beginning it is nothing (`Tracks`),
out of it one or two frames unless the rest of this one leads back to waiting for a start
(`Strays`), and the same between two frames (`Between`). `CountsInv` relates the counters
to each other. Each processor then either acts on the frame or leaves its place with one
credit less (`SOHDue`, `PrefixDue`, `SuffixDue`, `NumberDue`, `BulkDue`, `FileDue`,
`EOTDue`); a cancelled file and one that overflows (`CancelDue`), a time-out or a silence
(`TimeOutDue`, `SilenceDue`) and a command (`CommandDue`) pay for the place they leave it
in; reads and PU's next frame cost nothing (`ReadDue`, `SendDue`). When all has been read
the place is the end, and a balance that is not negative is `BoundedLoss` (`DueIsLoss`).

### Downloads from PU

Assumptions `SizesPositive` and `FlowConstants` beside the ring's. `TypeInv` types the
line, PU and the waiting request and has the ring sound; `GotInv` says a response is
answered before it is filled and never longer than announced. For one download `OneInv`
has five parts: at most one of the command, PU's answer and its data is under way and
belongs to the one request (`OneFile`); the size of the transfer is the length of the
response, which has been handed all that was read (`OneLength`); what PU still has, what
the line holds and what was written add up to no more than the size (`Counted`);
whoever could leave PU sending has a cancellation on its way or an owner that will send
one (`Watched`); and ring and line together stay below threshold and line length, the
ring alone below the threshold while the pin is low (`Flow`). `Flow` is why a file that
is larger than the ring arrives whole. Nothing is assumed of file sizes but that they
are positive, so the theorems also cover a size above `CounterMod`, which never
completes.

With several downloads these statements are false when PU answers after the ESP has
given up: the start of file of the first request opens the ring for the second. With
`Late` set to TRUE in `FileTwo.cfg` TLC finds `OwnFile` and `PUStopped` violated, and
`WholeFile` too once there are files of two sizes. The theorems about any number of
downloads therefore assume `Late = FALSE`, as the run `file_two` does; PU may still say
nothing at all, give up a file or lack it. The argument has three parts. `AnswerInv`: a request waits for at most one answer, which is a command
of PU's, a start or a refusal on the line, and while anything of it is left the handler
that waits has neither timed out nor seen a transfer; so outside that handler nobody is
owed an answer (`Answered`). `OwnInv`: unless a response was left open (`overlapped`), at
most one request is served (`Serves`: asked for, or streaming and not closed), and for it
the ring, the line from the file's start on and PU hold its bytes only (`RingOf`,
`LineOf`). A cancellation may leave any end of the old file on the line; what keeps it
from the next response is that it has no start in front of it, and that the state is no
longer `File`. `TogetherInv` adds the numbers: `Counted` and `Flow` are those of one
download, `Measured` has the length and what was read of the response that is served,
`Taken` says that a size is taken from one answer, and `Attended` says who stops PU: the
request that waits, or an open response whose buffer is marked on a busy device. The
mark and the status matter, because without them the cancellation of the next download
would be left out (`NothingToCancel`, and the guard of `Download`). `PUStopped` and
`Headroom` have no exception for overlapping responses, and need none.

### Requests to PU

Assumptions `RequestConstants` (`MaxReboots \in Nat`) and `RequestsAreBytes`.
`RebootInv` is about an ESP that has not missed the answer to its reboot request: a
reboot is asked for once (`AskedOnce`) and answered once (`AnsweredOnce`); the answer that
grants it lies behind every frame of the time before (`OutdatedFirst`), since the line
keeps its order; and while ESP and PU disagree about which PU is there, that answer is on
its way (`Lagging => Granting`). `EndPointInv` is about the value: while a write waits,
what lies on the line is its own command and answer (`Writing`), and likewise for a read
(`Reading`), if nothing was under way when it began; and what was reported stays true
until somebody asks for something else (`Written`, `HasRead`).

### Firmware update

Assumptions `ImageConstants`, `DeviceConstants`, `ToolConstants`. `DeviceInv` has the types,
`ToldAsItIs` (strengthened: after an error PU is not Busy) and that an open request has
a hash; the lemmas about one call (`CallSound` and those it cites) give what the call
leaves of the `Update` object and when it accepts an image. The forty steps of the four
tools are first classified (`ToolStep`: gives up, skips, learns, sends, retries, is
answered, verifies, goes on), so that each invariant is proved against eight shapes
instead of forty actions. `ReplayInv` says that a second request is opened only when the
first was never connected; `BootedInv` that an answer naming a new image came from a
device that has booted it; `PostsHonest` and `TookHonest` carry the hash from the
request through its calls to the boot loader, and `BodiesHonest` the file that its pieces
come from. That both of a tool's hashes are of the image it sent is `HonestOk`. The C++ and
the Node tool check both against the bytes they send. The Go and the C# tool read the
firmware three times, and the theorem follows what a build can do in between (`InDoubt`):
if the second reading finds another image than the compressed hash names, the build has
replaced the first one, and the third reading does not find it again (`Lost`), so that
the device refuses what is sent. With a second build it could come back, which is why
the theorem speaks of states with `builds <= 1`: with a manifest whose raw hash is of
another build, a build of that one between the first two readings and a build of the first
one before the third, `HonestOk` is false (TLC finds this with `MaxBuilds = 2` and
`MaxDisturbances = 4`). No build script writes such a manifest.

### Downloads and watch modes

Assumptions `WidthConstant`, `DownloadConstants`, `BuildConstants`. `DownloadInv` says
that a run's expected hash, its answer and its place are those of images that ran during
the run (`RunOk`), that the partial file is aligned, and `PublishedWhole`; its lemmas are about writing an aligned body behind an
aligned file. `CourseInv` is about a run
that nothing disturbs and that has to succeed: it finds nothing to object to but what was in
the file before (`OnCourse`), and if it fails all the same it leaves a file that is a
beginning of the image that runs (`Pure`), on which the next one cannot fail. What holds
of every run, disturbed or not, is `Truthful`: which image ran, what was announced, how
long file and body are. `PartRetained` follows from that alone.
`ReplayInv` says that every stamp a tool remembers is one that has been
(`IdsOk`), that the C++ tool has handled what it sent (`CppSent`) and that the Go tool
has sent at most once what it has not handled (`GoSent`). The range lemmas
(`ParseDecimalIs`, `BoundedRangeIs`, `SuffixRangeIs`, `ParsedNamed`, `ParsedInside`)
compare the parser with the reference, and `WordsInFlash` shows that the aligned reads
stay inside the chip.

### Console

Assumptions `LineConstants` and `SettingsConstants`. `ShownInv` strengthens `LineShown` by the
types; one lemma for each key shows that what it draws (`Put`, `ShellFixCursor`,
`InsertAt`, `RemoveAt`) gives the screen of the line it leaves. `StepInv` is `InStep` with
the types of both parsers; `SettingsInv` adds to `SettingsAgree` that the buffer agrees with
flash if no commit failed, and that what a settled RAM may be installed as is in effect;
it uses nothing of `Installed` but its type.

### Discovery

Assumption `DiscoveryConstants`: the queue has room for a join's announcements (it has
thirty-two slots, a join posts at most twelve), no wait is longer than half a turn of the
clock, the two rounds at the start have different times, and the station is not given
the soft-AP's own address. `DiscoveryInv` strengthens `KeepsAdvertising` and `OneLocation`
by the types, by which `m_` addresses go together, by an empty queue outside the group and
by how far ahead an entry may lie. `PostIs` says what `post()` leaves when nothing has to
make room, `PostHolds` that what waits stays unless it is a response, or is replaced by
its earlier self. `RoundPosted` and `AnnounceIs` carry this through the announcements of a
join, `AnswersKept` through a search's answers, `SentKeeps` through the refresh;
`HandleClientKeeps` puts them together in the order of the code. The bound on `Wrap` is
what makes the signed difference of two times the order of the times; without it the
refresh of an entry could look due when it was put in.

### Only model-checked

All liveness, since the prover has no rule for fairness or ENABLED: `RequestEnds`,
`StatusRecovers`, `NoStateForever`, `NewestTried`. Of the parser `DispatchIntegrity` and
`BoundedLoss` on a line that loses bytes. The first is about few losses there: with
`MaxLoss = 8` and two number frames TLC finds it violated, as eight lost bytes in a row
join the beginning of one frame to the end of the next and nothing in a frame would tell.
The second is about the frames of the runs there (see its entry in section 3): a byte lost
late in a frame can leave the parser where `Firm` says nothing of it. So with losses they
hold for the bounds of the runs and not for every value of the constants.
Downloads that overlap with answers that come too late (`Late`), but for the types.

## 5. Not modelled

- `BulkIsBusy`: its condition `GetBulkRemain() >= BulkBufferSize` is never true, as the
  ring holds at most `BulkBufferSize - 1` bytes (`RefinesFifo` has that capacity).
- Files of 65536 bytes and more are not run: `BulkTotalWrite` is U16 and never reaches
  `CurrentDataSize`, so such a file times out after all its data.
- Receipts and reports: `Request_GiveReceipt` takes the next bulk data for its receipt
  (`UART.cpp` 424), a string frame resets a buffer that is being streamed (`UART.cpp`
  1793), and the response callbacks (`.ino` 284-349, 661-700) wait in a loop
  `while (!writtenLength)` that nothing ends when PU falls silent. The frames are in
  `UartParser`. What a response ought to hold then depends on which strings PU sends on
  its own account, which nothing in the repository says.
- Empty files, and an answer of PU without data (`result_Success` alone): the files of
  `FileTransfer` hold at least one byte. A file PU has also has a name: if PU sent none, the
  handler would answer 500 and return without a cancellation (`pu850-esp.ino` 873-878).
- Downloads on a link that is not initialised: `FileTransfer` begins after the start-up and
  has no reboot of PU, so a file that falls silent is given up.
- Values of end points, wording of messages, LCD mirroring, debug output.
- The web server, lwIP, the `Update` library and PU: modelled only from how they are
  used.
- HEAD and Range of `/file/download` and the metadata exchange before a transfer.
- The update of the file system, which takes the path of the firmware's; its download
  of the whole flash, which a release build answers with 403.
- `build.sh` writes `~local.h` beside the sketch, the tools look for it beside the
  firmware; their test for a `.gz` finds one only while another file is missing too. Both
  are left out.
- The host tools' options, menus, listing of devices, backup before an upload, and
  stopping of a watch mode. The WinHTTP call-backs of one request are one step. Three
  builds in a row (A, B, A), after which the C# tool may skip the last one:
  `WatchUploader.cs` 63-94 remembers as uploaded what it read before the upload read
  the files again.
- Telnet: NUL, the answers to negotiations, upper case, the pager, the serial shell,
  `ShellBroadcastLine` (no caller). Sessions (nothing adds one).
- Single settings: `SetBaudRateIndex` (`UART.cpp` 1501) has no `break` between its cases and
  always ends with 115200.
- Discovery: MNDP (a time stamp and a datagram), the description that is served as XML,
  the text of messages, the bytes of a search, `update()` (no caller).

## 6. What could come next

- A receipt streamed to a browser while PU sends strings, once somebody says what PU may
  send on its own account.
- Answers of PU that name their request: what would have to change in the protocol for
  `WholeFile` and `OwnFile` to hold without exceptions.
