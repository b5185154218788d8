# A TLA+ model of `ts`, the terminal simulator

`ts <devid> <number>` simulates `number` devices: its parent process forks one
child per device, and each child plays a terminal server's client against a
TCP server, session after session. This directory holds TLA+ modules that
model the program's control, TLC configurations that check them on small
instances, and proofs, checked by TLAPS, that the main properties hold for
every value of the constants. Line numbers are those of `src/`.

## 1. Inventory

| Component | State it keeps | Operations | Module |
|---|---|---|---|
| Parent (`mMain.c`) | `i`, `existChild`, `pid`, `ok.txt`; the kernel's state of each child | fork loop with a reaping loop, a wait at the limit, a retry of `fork()`; `ok.txt`; final wait | `Spawner`, `Fleet` |
| Child and `ClientSimulate` (`mMain.c`, `mClient.c`) | connection, `recvHeader`, `sc_iden`, `sendBuf`, the two counts, the row of `ts_count.xls`, open descriptors | connect, receive, identify, generate, send, `Label_OK`, `Label_ERROR`, sleep | `Client` |
| Sockets (`mSocket.c`) | the connection, `SendBuf`, `haveRecvd`, `haveSend` | `CSocket`, `RecvN`, `SendN`, alloc and free | `Client` by messages, `Stream` by bytes |
| Messages (`mProtocol.h`, `mProtocol.c`) | - | types, headers, bodies; `IsOldVersion`, `IdenN2H`, `OutOfDate` | `Protocol`, `Answer` |
| Token cipher (`mEncrypt.h`, `Identify`, `GenIdentify`) | a constant table | XOR from a drawn place on | `Cipher`, `Answer` |
| `CPU_RAM.dat` (`SetCPURAM`, `remove()` in `Label_OK`) | one file shared by all children | two shell commands, a read, a removal | `CpuRam` |
| Terminal numbers (`GenTermInfo`, `SetTerminal`, `GenSubTermInfo`) | numbers, two arrays of marks | draws with `rand()`, marking loops | `Terminals` |
| Configuration (`mConfig.c`, `ts.conf`) | the place in the file, `configFile`, flags of the keys read | scan keys and values, assign, replace by defaults | `Config` (the scanner), `Terminals` (the bounds) |
| Arguments (`mArg.c`) | `devidArray`, `devidNum` | parse, allocate, free | constants of `Spawner` |
| Log (`mLog.c`) | `ts.log`, a stdio buffer per open stream | `LogStr`, `LogData`, `LogState` | `Log` |
| Other packages (`Gen...` of `mProtocol.c`) | - | copy `/proc`, data files and constants | header, failures and leaks in `Client`; `/proc/net/dev`, `/proc/stat`, `/proc/meminfo` in `Counters`, `Answer` |

How they interact: `main()` parses arguments and `ts.conf`, forks the children
and from then on only waits. Parent and children share nothing but the process
table; a child shares with the other children the files of the working
directory (`CPU_RAM.dat`, `ts_count.xls`, `ts.log`) and with the server its
connection. `ClientSimulate` calls the Gen functions of `mProtocol.c`, which
fill a `SendBuf`, and returns to the child's loop of `main()` the time to
sleep. There are no threads and no signal handlers.

What is hard: children exit, are stopped and are continued between any two
system calls of the parent; `fork()` fails; the server sends requests ahead,
closes, resets or dies in the middle of a message; `read()` and `write()` take
any part of what they are asked for; memory and files run out in the middle of
a package; several children write, read and remove one file, and append to
another through buffers; local variables and buffers are read before they were
assigned, or with what an earlier turn left in them (`pid`, `sc_iden`,
`configFile`, `ethInfoBuf`); divisors and array positions come from drawn
numbers; versions, random numbers and tokens come in the order of the network.
The list with its lines is in `PROJECT.json` under `hazards`.

What makes each component correct:

* parent: every device gets its child, once and in order; the number of
  children is bounded; the parent reaps every child and then ends; it never
  plays a child;
* terminal: in a session, the answers come in the order of the requests, each
  one fits, nothing is answered that must not be; the row agrees with what the
  server got; nothing is held from one session to the next; sessions end;
* sockets: whole messages, in order, however the bytes come; `sc_iden` holds
  what was received, in the order of the host;
* identification: the verdict on a version is the order of versions, the one
  on a token is the server's; the server can read the answer;
* packages: the numbers in them are those of the files of `/proc` they are
  asked from;
* `CPU_RAM.dat`: what a child reports is true unless others interfered; the
  file is tidied up;
* numbers: every number is in its range, arrays are not left, the package and
  the row agree, loops end;
* configuration: what a line says is what its field gets, and the end of any
  file is found;
* log: no record is lost, repeated or mixed up; short ones stay in one piece.

## 2. Modules

`Protocol` - messages as records `[type, ID, body]` and `[type, ID, num]`. The
body of an IDENTIFY is what the client finds out about it: `old` (the version
is below the minimum), `genuine` or `forged` (the token) - `Answer` says how.
`num` is the number the client also puts into its row: terminals or screens.

`Dialogue` - the abstract specification of a terminal as the server sees it:
`up`, the requests `asked` and the answers `answered` of the session.

`Client` - one child and its connection; it implements `Dialogue`. `pc` is the
place in the code:

| `pc` | code |
|---|---|
| `socket`, `connect` | `CSocket` (mSocket.c:15-37) |
| `recv` | `RecvN` of a header and the switch (mClient.c:38-51) |
| `body`, `check` | the body of an IDENTIFY and its three tests (52-85) |
| `gen` | the Gen function of the case (79-212) |
| `send` | `SendN` (219-229) |
| `ok`, `error` | `Label_OK`, `Label_ERROR` (232-255) |
| `sleep`, `exit...` | mMain.c:56-75 |
| `sigpipe`, `segv` | the process was killed |

`conn` is the connection as the child's kernel has it: `fin` (the server has
closed; what it sent still arrives), `rst` (reset while it was open), `broken`
(reset after a send that followed the close). The server is part of the
module: it asks, closes, dies in the middle of an IDENTIFY, or is reset with
any part of its messages lost. `asked`, `answered` and `tally` are history
variables of its side. `held` collects what the process has to give back.
Undefined behaviour is a choice: an uninitialised `sc_iden` is `garbage`, and
`OutOfDate`, which reads a `u_int` as a `time_t`, may find any year or crash.

`Channel` - the abstract specification of a connection: the server sends
requests and hangs up, the client receives them in order.

`Stream` - a session by bytes; it implements `Channel`, and so justifies the
one step per message of `Client`. A byte is its message and its place in it.
`Read(n)` is one `read()` of `n` bytes into `buf + haveRecvd`; the loop of
`RecvN` ends at `Wanted`. `Decoded` is what the fields of a header say: those
of a request if the eight bytes are the header of one, anything at all if not.
`host` are the bytes of `sc_iden` that `IdenN2H` has converted. `Write` is one
`write()` of any part from `haveSend` on. The server is cut off at any byte.

`Spawner` - `main()` with the process table. A child is the index of its
device. Children exit at any time, also by a signal, and are stopped and
continued; `waitpid(WUNTRACED)` reports a stop once. `limitReaps` and
`stopReports` are history variables that explain what `existChild` counts.

`Fleet` - `Spawner` with what its children do (`life`): a session, a sleep, the
next session; a child leaves `main()` only if `ClientSimulate` returned `ERROR`
or `quitAfterSucc` is set (mMain.c:56-75), or by a signal. Each of its steps is
one of `Spawner` or changes nothing there, so that it implements it.

`CpuRam` - the file with its name, its inodes and the descriptors on them. A
shell's redirection opens (and truncates, or appends) in one step and its
command writes in another; `remove()` takes the name away while descriptors
stay. `system()`, the opening and the writing may each fail, which `SetCPURAM`
does not look at (`NoTrunc`, `WriteNoCpu`, `NoAppend`, `WriteNoRam`). A child
may be killed anywhere (`Abort`); a command it has started goes on (`Then`).
`seen` and `aborted` are history variables: what happened to a child's report,
and who left without `Label_OK`. A line is `C` (the CPU's), `R` (the RAM's) or
`r` (what is left of a RAM line after a CPU line was written over its
beginning).

`Terminals` - what `ConfigParse` makes of the four bounds, then any number of
calls of `GenTermInfo` and `GenSubTermInfo`. `rand() % n` is any number below
`n`. One turn of `SetTerminal`'s loop is a step, so that its retries are
visible. `actVScr` is drawn from 0 on, `screenIDs` are the IDs that the screens
of the package get, from 1 on. The numbers of the source are constants with
assumptions; the source satisfies them (`Lo`, `Hi`, `Default` = 3, 10, 5 / 10,
50, 28 / 1, 3, 3 / 4, 16, 10; `ASYNC_NUM` 8 is not above `V_TERM_NUM` 16 and
below 10; 50 is not above `IP_TERM_NUM` 254 or 270), and the run
`terminals_source` evaluates them.

`Config` - the scanner over every file up to a length. A character is white
space, the end of a line, `#` or a letter. `NextCfgKey` and `NextCfgValue` are
one step each; what they put back with `ungetc()` is where `pos` stays.
`cfgValue` is the array with what earlier values left in it, of which `Assigned`
gives `debugCfg` the first `DEBUG_NUM` characters.

`Log` - the appends to `ts.log`. A record is a number of units of text which
`fwrite()` collects in the stream's buffer; a full buffer, and `fclose()`, are
written to the end of the file in one step (the file is open for appending).
`LogStr`, `LogState` and `LogData` differ in the length of the record only. A
child may be killed anywhere and takes its buffer with it.

`Cipher`, `Counters` - pure operators: the cover of a text by the table;
`SkipNonNum` and the reading of the files of `/proc` through one buffer, in
which the end of a longer line stays behind a shorter one.

`Answer` - what the client makes of the data of an IDENTIFY, a SYSINFO or an
ETHINFO, with `Cipher` and `Counters`. `GenEthInfo` and `GenSysInfo` send their
package also when a file could not be read. Numbers of several bytes are pairs,
least significant byte first in the host and most significant first on the
network. A file of `/proc` that cannot be opened is `<<>>`; the field it would fill is
then what `malloc()` left there (`Garbage`). `LinesFit` says that no line of
these files is cut by `fgets()`.

`MCTerminals`, `MCCpuRam`, `MCConfig`, `MCAnswer` - definitions for TLC.
`FleetProofs` (of `Spawner` and `Fleet`), `ClientProofs`, `StreamProofs`,
`TerminalsProofs`, `CpuRamProofs`, `LogProofs`, `ConfigProofs`, `AnswerProofs` -
inductive invariants and theorems.

Mutated forms of some definitions stand before the definitions they mutate,
marked as such; no specification uses them. Each one is a plausible mistake in
the code that one of the properties must catch.

## 3. Runs

| Run | What it shows | Bounds |
|---|---|---|
| `fleet` | what `existChild` counts; order of forks; `ok.txt`; limit before the first wait; parent stays parent; healthy children keep the fleet at the limit for ever; with `quitAfterSucc` everyone is simulated and reaped | 4 devices, limit 2, so that two children are forked after the limit was met; 2 stops |
| `client_session` | accounting of requests, row against server, nothing held, refinement of `Dialogue`; if the server reads, every request is settled; if it listens and closes, every session ends | 3 requests out of 7 types that differ in how the client treats them |
| `cpuram_shared` | a false report needs interference or a failed command, the file is tidied up unless a child was aborted | 2 children, symmetric, any number of sessions, failures and kills: the state space is finite as it is |
| `terminals_draws` | ranges, consistency, arrays, the only way to the crash; the marking loops end | ranges on a small scale in the relations of the source; values below, in and above each range; 2 lines of `ts.conf` |
| `stream` | refinement of `Channel`, packages without gaps, what `sc_iden` holds; everything sent arrives | 3 requests, headers of 2 bytes, bodies of 0 to 2, packages of 1 and 3; 1 of 2 bytes of the body converted |
| `log` | what is kept of the records, which stay whole, where the others are torn | 2 children, 2 records each, shorter than the buffer, as long, and two and a half times as long |
| `config` | a key is asked for at the beginning of a line only; fields against a definition of the file's meaning by lines; the end is found | every file of up to 7 characters over 5; keys of 2 letters, values of 2, so that both are cut; a `debugCfg` of 2, so that a value of one letter leaves its second place to `Nul` and an empty one to an earlier value |
| `answer` | version, token, cover; numbers of the interface, CPU times and memory | see below |
| `spawner_limit`, `client_interval`, `cpuram_two`, `terminals_source` | findings 1 to 4 | |

Bounds: `MaxAsks`, `MaxMsgs` (requests per session), `MaxStops` (stops of
children), `MaxLines` (lines of `ts.conf` with a bound), `MaxRecs` (records of
a child), `MaxFile` (length of `ts.conf`). Three requests are enough for one to
be answered, one in hand and one in the queue, and for a short IDENTIFY between
two long ones; the queue is not bounded otherwise. The number of sessions is
not bounded. Two children are enough for all that one can do to the file of
another; the proof is for any number of them. The theorems of section 5 hold for
all values of these constants.

`answer` computes with bytes of two bits (`BASE` is 4), a table of 5 entries
whose places are drawn modulo 3, so that both reductions matter; a `u_int` has
two bytes there. Its minimum version is 2.1.1 instead of the source's 2.0.0,
with which the sub versions, being unsigned, never decide. The lines of
the files of `/proc` have numbers of one to three digits in columns of two, so
that lines differ in length; there are two interfaces or one.

Deadlock is checked in every run; the states in which a process has ended
have a step of their own that changes nothing.

Every invariant of the runs is a theorem, too (section 5). The type
invariants are checked in `answer` and `config` only; those of the other
modules, and `LifeMatchesProcess` of `Fleet` (a process exists exactly while
its child plays), are theorems and not checked again in a run.

Fairness. `Fleet!FairFleet`: the scheduler runs the parent; `fork()` does not
fail for ever (strong fairness, since the retry leaves and enters its guard);
a stopped child is continued, and its session or sleep ends, however often it
was stopped - that a session ends is what `EverySessionEnds` shows. Nothing
says that a child exits. `Client!FairSpec`: the scheduler runs the child, and no
more. `write()` blocks while the server of an open connection does not read
(`SendDelivered` is not in `Running`), `connect()` fails while it does not
listen; so `EveryRequestSettled` assumes in its formula that the server reads,
and `EverySessionEnds` that it listens and closes - it need not read for that.
Without its assumption `EveryRequestSettled` is false: `SendN` has no timeout.
`Stream!FairSpec`: the scheduler runs the client, and a connection that is up
delivers in both directions, so that `read()` and `write()` return.
`Terminals!FairSpec`: `rand()` draws every position again and again.
`Config!FairSpec`: `ConfigParse` runs.

## 4. Findings

1. `spawner_limit` - the wait at the limit (mMain.c:38) does not decrement
   `existChild`; the test is `==`, so that the count passes the limit and the
   rest of the fleet is forked without any. `CounterAccount` says what is
   counted instead, `LimitHoldsUntilFirstWait` how far the limit holds.
2. `client_interval` - a session without an IDENTIFY makes `main()` sleep for
   an uninitialised `reTransTime`.
3. `cpuram_two` - a child reports zeros or uninitialised memory because others
   truncate or remove the file it is about to read.
4. `terminals_source` - a minimum and a maximum of 10, both legal, divide by
   zero at mProtocol.c:642. `CrashNeedsEqualBounds`: this is the only way.
5. `terminals_draws` - the comment of `SetTerminal` (mProtocol.c:613) says that
   it randomly selects the bytes it sets; it draws `rand() % numOf1` and always
   sets exactly the first `numOf1`. Here the property that holds,
   `MarksAreFirst`, is what denies the comment.

What a reader of the models should also know; the models behave like this, and
no run is made for it:

* a send to a server that has closed and reset raises SIGPIPE, which ends the
  child (`Client!SendKilled`), where mSocket.c:61-62 expects `SERVER_CLOSED`;
* with no device at all `pid` is read unassigned (mMain.c:51), and the only
  process may play a terminal (`ParentIsParent` asks for a device);
* `retryTime` (mProtocol.h:53) is only logged: after a failed session, too, the
  child sleeps for `reTransTime`, or quits if `quitAfterSucc` is set;
* `rand() % (max - min) + min` never gives `max` (`TotalInConfig`,
  `ScreensInRange`);
* the active screen is drawn from 0 on and the IDs of the screens begin with 1
  (mProtocol.c:685, 706): read as an ID, 0 names no screen and the last one is
  never active (`ScreensInRange`);
* `SetCPURAM` looks at the result of neither command (mProtocol.c:40-41): if
  one fails it reports a zero, the other number or what a former run left in
  the file (`FalseOnlyIfDisturbed`);
* a server that keeps a session open and does not read blocks its child in
  `write()` (mSocket.c:70) for as long as it likes (`EveryRequestSettled`);
* `debugCfg` takes `DEBUG_NUM` characters of `cfgValue` whatever the length of
  the value, and so what earlier lines left in the array (mConfig.c:133-138,
  `ConfigMatchesFile`); nothing in the program reads it;
* a key that ends `ts.conf` without a line end is dropped (`Config!Found`); a
  key longer than `cfgKey` leaves its rest to the value (`ConfigMatchesFile`);
* on a host with one interface the numbers of the first are sent for the
  second (`CountersOfInterface`); the "first" is that of the first line, which
  on most hosts is `lo`;
* the results of `SetCPUTime` and `SetFreeMem` are not looked at
  (mProtocol.c:321-322): without `/proc/stat` or `/proc/meminfo` a SYSINFO is
  sent with uninitialised fields (`SysInfoFromProc`); so is an ETHINFO without
  `/proc/net/dev` (mProtocol.c:514, `CountersOfInterface`). The places of the lines
  read are those of a `/proc/meminfo` that has a line for available memory;
* a second IDENTIFY shorter than the struct leaves fields in `sc_iden` which
  `IdenN2H` turns back into network order (`IdenIsLatest`);
* a log record longer than stdio's buffer may be torn by another child's
  (`TornAtFullBuffers`).

## 5. Proofs

Theorems are of the form `Spec => []Inv`, but for the refinements
`ImplementsDialogue`, `ImplementsChannel` and `FleetImplementsSpawner`, and for
`ConfigDescends`, which is about steps. They
rest on the named assumptions about the constants (`SpawnerAssumption`,
`ProtocolAssumption`, `ClientAssumption`, `StreamAssumption`,
`CpuRamAssumption`, `RangeAssumption`, `SizeAssumption`, `InputAssumption`,
`LogAssumption`, `CipherAssumption`, `XorAssumption`, `CountersAssumption`,
`AnswerAssumption`, `LinesFit`, `ConfigAssumption`), which TLC evaluates in the
runs. Each proof module has one
inductive invariant, one lemma per action or per group of actions with the
same effect, and the theorems as its consequences.

* `FleetProofs`, the parent. `CounterAccount` alone is not inductive: that a fork adds
  exactly one child needs `ForkedInOrder` (the slot was unborn), which needs
  the range of `i` at each place (`IndexInv`). The limit needs that the count
  is below it when `fork()` is called (`LimitInv`); `ParentIsParent` needs that
  `pid` is positive when all devices were forked (`PidInv`).
* `FleetProofs`, the fleet. Every step of it is a step of `Spawner` or a stutter,
  so the theorems above hold in it (`FleetKeepsParent`). `HealthyFleetWaits`: a parent that has
  reaped no one (`limitReaps = 0`) has not passed the limit; it reaps only
  zombies, and a zombie is the end of some life.
* `ClientProofs`. The requests are answered, in hand or in the queue, in this
  order (`EveryRequestAccounted`, `FifoInv`); the client's variables describe
  the request in hand (`HandInv`), so that the package in `sendBuf` answers the
  oldest open request: this is the step `Answer` of `Dialogue`. For the row,
  `CountInv` compares the counts with what the server will have after the
  pending send, and says that they are equal unless a package got lost - and a
  lost package leaves a gap between `asked` and `answered` that never closes.
* `StreamProofs`. The bytes in the pipe are, from the client's place in its
  message on, those of the server's messages in order (`InOrder`: a byte is
  followed by the next of its message or the first of the next one), and the
  part read so far is where it belongs (`Partial`). So a full header is that
  of the next request, and `Decoded` leaves no choice. `PackagesWhole` says of
  `back` what `InOrder` says of the pipe. For `IdenIsLatest` a body half read
  splits `sc_iden` in the bytes of this body and those of earlier ones
  (`IdenInv`); the parity of conversions is a fact about cardinalities.
* `TerminalsProofs`. `SetTerminal`'s marks are a subset of the first `numOf1`
  positions; when it stops it has `numOf1` of them, and a subset of
  `0 .. n-1` with `n` elements is all of it (`PrefixFull`), which gives
  `MarksAreFirst` and, with the sizes of the arrays, `MarksInArrays`. The rest is the
  arithmetic of the ranges, from the assumptions alone.
* `CpuRamProofs`. A child that has seen no write since its truncation, and no
  command of its own fail to do what it does first, finds, at each place of
  `SetCPURAM`, exactly the lines it has written so far, or only the later one if
  the name was removed in between (`Undisturbed`). For this the name must lead
  to the inode it writes to (`SameFile`), be there unless a removal was seen
  (`NameKept`), and a new file must start empty (`FreeEmpty`, `FdOpen`).
  `CommandEnds` is what a command that worked and one that failed have in
  common; `Others` says once what any step does to the other children. That an inode is left for a new file is a counting argument: one
  more inode than children (`InodeLeft`).
* `LogProofs`. What a child has given to `fwrite()` is in the log up to
  `Flushed` and in its buffer from there on (`Complete`, `Closed` for a killed
  one). `Flush` is the common part of a full buffer and `fclose()`: it
  lengthens the log by consecutive units of one record. A record is written in
  full buffers (`FullInv`), so one not longer than the buffer is written at
  once, and a longer one stops at multiples of `Cap` only.
* `ConfigProofs`. `First` is a search: that it finds the first place of its
  kind rests on `LeastNat`, a set of naturals has a least element, which comes
  from the library's theorem that strict inclusion of finite sets is
  well-founded. With it `AfterWhite`, `WordEnd` and `NextLine` are what they say
  (`AfterWhiteFacts`, `WordEndFacts`, `LineFacts`), and `Stripped` and `WordOf`,
  which define the meaning of a line without a scanner, find the same words
  (`StrippedText`, `WordOfText`). `KeysStartLines` is not inductive: where a line
  is over depends on what was read of it. `ScanInv` says that before a key the
  fields have what the lines before `pos` set (`Before`, `Matches`) and the array
  `cfgValue` what their values left in it (`Leaves`), and before
  a value that there is a line whose key has just been read (`InLine`); a line
  that is read to its end joins the lines before the next one, and no line
  begins in between. `ConfigDescends`: `Remaining` is the variant of the loop of
  `ConfigParse`; it needs that no value is asked for at the end of the file,
  where `NextLine` would not move.
* `AnswerProofs`. XOR with the same entry twice gives the byte back
  (`XorAssumption`), so `Identify` accepts exactly the server's token
  (`IdentifyExact`); `sc_iden` is the request in the order of the host
  (`HostOrder`), so places in the table and versions are those of the server.
  For the numbers of `/proc`, `Laid` says of a buffer where its numbers are and
  that there is no digit between them; then `SkipNonNum` and `atoi()` find them
  one by one (`NumberEnds`, `NextNumber`, `NumbersRead`), whatever an earlier
  line left behind the last of them. `LineLaid`: a buffer that begins with a
  `Line` has its numbers laid. `Line` and `NumbersFrom` are recursive functions;
  that a function of the kind exists, and what it is at each place, is shown by
  induction in the form "a set with 0 and with each successor has all naturals"
  (`SetInduction`, again from `LeastNat`). `RecordDataExact`, `CPUTimeExact` and
  `FreeMemExact` follow the lines into the buffer, one over the other.

Only model-checked: liveness under fairness (`QuitFleetFinishes`,
`EveryRequestSettled`, `EverySessionEnds`, `EverythingArrives`, `ParseEnds`,
`GenTermInfoReturns`), which the installed provers cannot treat. Of `ParseEnds`,
`ConfigDescends` leaves only that `ConfigParse` runs. The properties of section 4
are violated by the code, each in a run of its own. No module declares a
recursive operator.

## 6. Not modelled, and what is assumed

* The server sends no body after any header but that of an IDENTIFY, and a
  body not longer than the struct it is read into.
* The contents of the packages that no property depends on (texts, byte
  counters of terminals, times, what is copied from a data file); the outcome
  of a Gen function, its header and what it leaks when it fails are modelled.
  Only the division by zero of `GenTermInfo` is no outcome in `Client`, but in
  `Terminals` alone: no property of `Client` depends on it.
* What `OutOfDate` finds: it reads beyond `sc_iden` (mProtocol.c:108), so any
  outcome may happen, and no property says which one should.
* A line of `CPU_RAM.dat` is written at once: a shell command that is killed or
  finds the disk full in the middle of its few characters is one that wrote
  nothing, or all of it.
* A `write()` to the log that fails. A log that cannot be opened is a record
  that was never begun.
* A file of `/proc` in which the loops at mProtocol.c:436-438 and 258-259 find
  neither ':' nor a digit: they have no bound and would leave the buffer.
  `Sought` has no value then; the files considered all have them, as those of
  the kernel do.
* The layout of a log line (`GenPrefix`, `Format`, `LogState`) and the lengths
  of the formatted parts against their arrays; standard output.
* What `atoi()` makes of a text that is not a small number, and `strncpy()`
  of a value; the usage errors of `ArgParse`, which end the program before
  there is any state.
* A line of `/proc` that `fgets()` cuts (`LinesFit`): the buffers have 256
  (`/proc/net/dev`, sixteen numbers) and 128 characters.
* The entries of the table in `mEncrypt.h`: they are a constant of `Cipher`.
* `Makefile`, `test.py` and the recorded data are not behaviour of the program.

## 7. Plan

Done: the terminal and its sessions (`Protocol`, `Dialogue`, `Client`), the
fleet (`Spawner`, `Fleet`), the byte stream (`Channel`, `Stream`), the shared
file (`CpuRam`), the numbers (`Terminals`), the log (`Log`), the scanner
(`Config`), the data of the answers (`Cipher`, `Counters`, `Answer`), and the
proofs about all of them.

Left, in this order:

1. the safety part of the other liveness properties, like `ConfigDescends` for
   `ParseEnds`: what each step brings nearer to its end;
2. `Format` as an operator on bytes, against the layout its comment shows
   (mLog.c:81-85), with the lengths of the parts of a line;
3. `Client` over `Stream` in one composition, in place of the argument by
   `Channel`.
