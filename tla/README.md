# terminald in TLA+

terminald shares a terminal over the web. A server (`crates/terminald-server`)
runs one command in a pseudo-terminal (`crates/terminald-pty`) for every
WebSocket connection; a browser page (`frontend`) or a command-line client
(`crates/terminald-cli`) shows it. These modules model what happens between
those parts, check it with TLC on small instances, and prove with TLAPS, for
every instance, what keeps processes from leaking, bytes from being lost on
their way through a session or the command-line client, and the page from
connecting twice, saying what is not so, or starting a command again that has
exited; that a request is refused exactly when it should be, a page gets its
files wherever it is mounted, and messages arrive as what they were; and that a
session, with its tasks, buffers and processes, implements the eleven actions
one would describe it by.

Paths below are relative to the repository.

## 1. The system

| Component | State it keeps | Operations | Talks to |
|---|---|---|---|
| PTY process, `terminald-pty/src/process.rs` | `Child` behind a mutex, `cleanup_started` flag, master descriptor | `spawn`, `read`, `write_all`, `resize`, `terminate`, `wait`, `Drop` | kernel: signals to a process group, `waitpid`, terminal buffers |
| WebSocket session, `terminald-server/src/session.rs` | a `PtyProcess`, a channel of 32 messages, a detached reader task, the select loop | `run_socket`, `drive_socket` | PTY process (method calls), client (frames) |
| Browser application, `frontend/src/App.tsx`, `terminal/GhosttyTerminal.tsx` | React state, three refs, and the closure variables of one effect | `connect`, event handlers, two timers, cleanup | server: `auth/check`, then `ws` |
| Command-line client, `terminald-cli/src/client.rs`, `terminal.rs` | raw-mode guard, writer task, resize channel | `run` | server: `ws` |
| Wire protocol, `terminald-protocol` and `frontend/src/terminal/protocol.ts` | none | encode, decode | everyone |
| HTTP dispatch, auth, assets, `routes.rs`, `auth.rs`, `assets.rs` | configuration | `dispatch` | session, on upgrade |
| Command line, `terminald-cli/src/args.rs`, `args/credentials.rs` | none | `into_mode`, `resolve` | server or client, as asked |
| Listener, `terminald-server/src/server.rs` | configuration | `serve` | dispatch |

What is hard in it:

* **Cleanup of processes.** Up to three threads want the child: the blocking
  task of `terminate`, the detached thread of `Drop`, the blocking task of
  `wait`. The mutex is held across a blocking `wait()`. The group forks, exits,
  closes its terminal, leaves the group and changes user meanwhile.
* **Order and backpressure.** Output passes terminal, reader, channel, driver
  and socket; the exit code travels the same way and must come last. Input is
  written inside the branch of a `select!` that also has to drain the output.
* **Disconnects.** Close frames, resets, silence, and a session that has to end
  for each of the first two.
* **Stale events.** In the page, fetches, sockets and timers of an earlier
  attempt or mount report to handlers whose world has moved on.
* **Sessions that overlap.** A page reconnects while the command it has lost is
  still being ended; sessions share a pool of blocking threads, and a command
  inherits the terminals that are being opened while it is forked.
* **One address, seen from five places.** The page's relative references, its
  two URLs, the client's `--connect`, the server's suffix routes and a proxy's
  mount must agree on what a path means, and two command lines on a credential.

What makes each part correct is listed with its module below. `PROJECT.json`
lists the hazards one by one, at their lines.

## 2. Modules

| Module | What it is |
|---|---|
| `PtyProcess` | the child's process group and the server's three threads |
| `PtyProcess_proofs` | its inductive invariant, proved |
| `ByteStreams` | operators: what a sequence of messages carries, and the stream 1, 2, 3... |
| `ByteStreams_proofs` | their laws, proved by an induction on the length |
| `Session` | reader, driver, channel, terminal buffers, network and client; EXTENDS `PtyProcess`, so every session step either is a step of the child or leaves it alone |
| `Session_proofs` | that this is so, and what a session promises about its child, its two streams and its exit code, proved |
| `TerminalSession` | what a session promises, without tasks, channels and processes; `Session` implements it |
| `SessionRefinement_proofs` | that it does, proved |
| `BrowserApp` | the page's connection lifecycle |
| `BrowserApp_proofs` | its inductive invariant and its safety properties, proved |
| `System` | EXTENDS `BrowserApp` with the sessions its connections start, and the blocking pool they share |
| `System_proofs` | that the page in this company is the page of `BrowserApp`, and when a command is started again, proved |
| `CliClient` | the command-line client's tasks, its terminal and its connection |
| `CliClient_proofs` | what it promises about its bytes and its first message, proved |
| `CommandLine` | operators: from parsed arguments to a server, a client or an error |
| `HttpDispatch` | operators, EXTENDS `CommandLine`: what is answered to a request, and which URLs page and client derive |
| `Frames` | operators: encoding and decoding of the messages, both sides |
| `Access` | EXTENDS `HttpDispatch` and `Frames`: one visit to a server, from the two command lines to the messages |
| `Access_proofs` | that the server refuses the requests it should and no others, that a page gets what it needs and that messages arrive, proved |
| `MCPtyProcess`, `MCSession`, `MCBrowserApp`, `MCSystem`, `MCCliClient`, `MCAccess` | instances for TLC |

Definitions marked `(mutant)` are broken variants of the one they stand before.
No specification uses them: putting one in the place of the original must make
TLC find a property violated, which shows that the property says something.

### PtyProcess

`pc[t]` is where thread `t` is: `terminate`, `drop` or `wait`. Labels follow the
code of `terminate_child_process_group_blocking`: `lock` (waiting for the
mutex), `check` (the first `try_wait`), `term` (about to send SIGTERM), `grace`
(polling), `killReaped` and `killAlive` (about to send SIGKILL, with the child
reaped by the polling or not), `reap` (in `Child::wait`), then a result:
`skipped` (the flag was taken), `already` (the child had exited), `failed`,
`done`. Each system call is a step of its own, so everything the kernel and the
other threads do can come between two of them.

The processes are not in the repository. Any process may fork, exit with any
code or by a signal at any time; a member in `Jobs` may be put in a process
group of its own, as a shell with job control does; one in `Detaching` may close
the terminal; one in `Elevating` may become a process the server may not signal.
This is not everything Linux lets a program do. The environment is assumed not
to do the following, and the results hold of programs that do not:

* a process that has closed the terminal does not open it again (through
  `/dev/tty`), and the terminal is never handed to a process that was not forked
  by one that had it;
* a process that has left the leader's group does not come back, and a new
  member is in its parent's group or starts one;
* a member other than the leader disappears when it exits: there is no time in
  which it is a zombie of its own parent and still keeps the group in being;
* a process that became another user's does not become the server's user's
  again.

What is assumed of the kernel:

* a signal to a group reaches all its members at one time, and the fork of a
  process with a fatal signal pending fails;
* `kill` of a group fails with EPERM only when none of its members may be
  signalled, and with ESRCH (which the code takes for success) when it is empty;
* descendants inherit the terminal's descriptors, since `openpty` opens them
  without close-on-exec, so the terminal is hung up only when the last of them
  is gone or has closed it.

The hangup signal the kernel sends to the foreground group when a session
leader exits is one of the ways a process may exit here, never one it must.

The types of the variables are the first conjunct of the inductive invariant in
`PtyProcess_proofs`; no run checks them by themselves.

Properties: `MutexHeld`, `TermWhileOwned` (no `wait` slips between the check
and the SIGTERM), `OneCleanup`, `NoSurvivors` (no fork escapes the SIGKILL),
`FinishedMeansReaped`, `CleanupCompletes`.

### Session

`dv` is where the driver is (`run_socket` and `drive_socket`), `rd` where the
reader is. A reader step is one await: `ReaderRead`, `ReaderEof` (EIO, taken
for 0), `ReaderFails`, `ReaderSend` (waits for room, or fails when the receiver
has been dropped), `ReaderWait` and `ReaderWaited`. The driver's select is
`DriverRecv`, `DriverFrame`, `DriverRecvFails`; the awaits inside its branches
are `DriverSend` and `DriverWrite`, and while it is in one of them no branch is
taken. `DriverTerminate` awaits the cleanup; `DriverReturn` drops the
`PtyProcess`, the receiver and the socket. Text frames are input, as in the
code; pongs do nothing and have no action.

Bytes are numbered, so that "nothing lost, repeated or reordered" is that a
stream reads 1, 2, 3... The kernel's terminal is two bounded buffers. A write to
a terminal nobody has open succeeds and is discarded, a read of it drains the
buffer and then fails with EIO, and a writer that waits for room is woken by the
hangup: measured on Linux 6.18. Two error returns that end the loop are left
out: that of `write_all` (`session.rs:75`), since a write to an open master fails
only with EAGAIN or EINTR, which the code tries again, and that of `resize`
(`session.rs:76`), whose ioctl gets an open master and a valid argument. Echo by
the terminal itself is left out too (a program that prints what it reads is an
echo the model has).

Properties: `OutputConserved`, `InputConserved`, `ExitCodeTrue`,
`ReturnReaps`, `WaitAfterHangup`; under fairness `DisconnectEnds`,
`HangupReported`, `OutputArrives`, `ReaderEnds`, `LeaderReaped`; `PtySpec`, the
specification of the child by itself; and `TerminalSpec`, below.
`ReturnReaps` excepts a session whose cleanup failed: no member of the group
could be signalled, the flag stays set, and neither `terminate` nor `Drop` tries
again. `LeaderReaped` says what becomes of that child: the reader, which holds a
clone of the handle, waits for it once its send is refused or the terminal is
hung up, so that it does not stay a zombie.
`WaitAfterHangup` excepts a session in which a read has failed
(`readFailed`): the code then reports the failure and goes on to wait for a
command that may still run and print.

### TerminalSession

The session as the person at the other end may think of it: one command, what
was printed and shown, typed and taken, one exit code, and an end. It has eleven
actions and neither task nor buffer. Its steps state in one place what the
invariants of `Session` say in parts, and what they do not say: that what was
shown never shrinks, that the exit code is told once, after all the output and
to somebody who is there, that nothing is printed afterwards, and that a session
is not over before its command is, unless it was not allowed to end it.
`TerminalSpec` is this specification under the mapping `Terminal` at the end of
`Session`: `shown` is what the client has received, `told` its exit message,
`exit` the status of a leader that was reaped, `damaged` a failed read,
`refused` a signal that was not permitted. TLC checks it as a property of the
`session` run, and it is proved.

### BrowserApp

A record of `conns` is one call of `connect()`, from its fetch to the close of
its socket. The handlers compare `attempt` and `cancelled` with what they
captured; both only ever turn a call stale, all earlier ones at once, so the
model has one Boolean `live` per call. JavaScript runs a handler to its end, so
each is one step. The effect may be cleaned up and mounted again, as StrictMode
does in development. Details and exit codes, which are only shown, are left out.

Properties: `OneConnection`, `StatusIsTrue`, `NoticeHasTimer`, `SizeIsKnown`,
`ExitIsFinal`, `UnmountIsQuiet`; under fairness `ReconnectEnds`.

### System

The page of `BrowserApp`, unchanged, over sessions that are reduced to what
matters between them. `task[c]` is `run_socket` of connection `c`: `spawning`,
`opened` (the terminal is open, the command not yet forked), `forked`,
`serving`, `ending` (in the cleanup), `returned`. `queue` and `busy` are the jobs
of tokio's blocking pool: one `spawn`, one `wait` and one `terminate` per
session. `holders[c]` are the commands that have terminal `c` open: `Fork` adds
the new command to every terminal whose slave the server has open at that
moment, its own included. `toPage[c]` is what the server has sent; a reset
empties it. Every action of the page is the one of `BrowserApp` with the server
or network condition under which it may happen.

What `Session` shows of one session is taken here as one step: that the cleanup
ends a command it finds running (`Kill`), and that the exit message follows the
reader's end (`ReaderTells`). A command has its terminal open until it ends; the
one that closes it and runs on is the subject of `session_detached`.

Properties: `RestartOnlyAfterLoss`; under fairness `CommandsEnd`, `ExitReaches`.

### CliClient

Four actors share the process: `main` (`run()`, from the raw-mode guard to the
end of the process), `handler` (the task that waits for SIGWINCH), `writer` (the
select over standard input and the resize channel), and `stdin`, the blocking
thread in which tokio reads. Polling `stdin.read()` starts a read(2) that goes
on when the select takes its other branch, and whose result the next poll
finds: `WriterPolls`, `StdinReturns`, `WriterInput`. A size is a number that
grows with every resize, a signal that finds nobody registered is lost, and
signals that are not yet received are one signal (`winch`). A send waits for
room in `toServer`, the connection's buffers. `outcome` is why `run()` returned;
it, and `got`, what the server has taken, are there for the properties.

Properties: `InputConserved`, `InitialSizeFirst`; under fairness
`NoticedResizeArrives` and `ClientStops`. That sizes arrive in order is not true
and not promised: when main reads the size just after the handler has read an
older one, the older one is sent second, and a third message, for the signal of
the newer, follows.

### CommandLine, HttpDispatch, Frames, Access

A text is a sequence of characters, a path the sequence of what stands between
its slashes, so that a suffix route is `IsSuffix` or `Last`, and a relative
reference is `Front(base) \o reference`. Which names have an extension, and which
end in `assets`, are constants. base64 keeps different pairs apart, and that is
all the model knows of it. A frame is a prefix and its payload; a size is one
element that stands for its JSON, an exit code its decimal digits.

`Access` puts these operators to work. `Serve` and `RunClient` turn a command
line into a server and a client; a browser is sent to a path (`Visit`), follows
the redirect, is asked for a credential, shows the page, loads its files and
opens the socket after the check; then both sides speak. `Answer` is the server:
it calls `Dispatch`, as every route of `routes.rs` does. A proxy passes on the
paths below its mount as they are, and answers the others itself. The browser is
not in the repository: it is what HTTP and the URL standard say of redirects,
challenges and relative references.

Properties: `Admission`, `PageComplete`, `MessagesArrive`.

`PageComplete` has two exceptions. `asset_relative_path` (`assets.rs:86`) looks
for the first `assets/` anywhere in the path, so that below `/my-assets/` the
file `assets/terminald.js` is looked up as `assets/assets/terminald.js`, and the
page does not start. `MCAccess` has two such mounts; without the exception TLC
finds them. The other was found while the property was being proved: a server
with a directory of its own and a frontend built in has the built-in page under
the name `dist/index.html` as well (`assets.rs:114`, embedded assets are also
tried under the path as it is), and the files that page refers to are the
directory's. Two more things one might expect are not so, by the code's
construction: options given before a subcommand have no effect
(`args.rs:102-123` takes those of the subcommand), and a path such as `/v1.2` is
not redirected but looked up as a file, since its last segment has a dot.

## 3. Runs

| Run | Instance | Shows |
|---|---|---|
| `pty` | leader, two members, every process may leave, detach and elevate; fair | the safety properties of `PtyProcess` and `CleanupCompletes`, 197 thousand states |
| `session` | leader that may close its terminal, reads that may fail; 2 bytes each way, one other frame, buffers of 1 | the safety properties of `Session`, and that it implements `TerminalSession`, 2.2 million states |
| `session_live` | fair; a member that may be a job of its own, a leader that may become another user's; 1 byte each way | the five liveness properties and `PtySpec` with a background process and cleanups that are refused, 117 thousand states |
| `browser` | fair; 3 calls of `connect()`, 2 mounts, 2 sizes | all properties of `BrowserApp`, 55 thousand states |
| `system` | fair; 2 connections, 1 mount, a pool of 2 threads | an abandoned command ends, an exit reaches the page, a restart only after a loss, 48 thousand states |
| `cli` | fair; 3 sizes, 2 bytes, channel and connection of 1 | all properties of `CliClient`, 137 thousand states |
| `access` | 19 server and 13 client command lines, 3 builds, 21 paths in all, below 5 mounts and at none, 2 credentials to type, 2 messages each way | who is admitted, what a page gets, what arrives, 351 thousand states |

Why these bounds are enough to be interesting. Three threads are all there are.
Two members are one that forks another while the group is signalled, which is
what `NoSurvivors` is about. Buffers and channel of size one make every send
wait and put a byte in each place of the pipeline when two are printed; the real
sizes (32 messages, 8192 bytes, the kernel's buffers) only make the same states
rarer. Three calls of `connect()` are a live one and two stale ones, of an
earlier mount or attempt. Three sizes are the initial one, one in the client's
channel and one that waits for room in it. Two connections are one the page has
lost, whose command is being ended, and the one it opened since; with two
threads two spawns overlap, which is how a terminal is inherited, and two jobs
fill the pool. (With two mounts as well `system` has 338 thousand states, with
one thread and two mounts 238 thousand: both pass, in longer than the run is
meant to take.) The command lines of `access` have every source of a credential,
every line ending and every error of `resolve`; its paths have every kind of
last segment and of mount; its three builds are a frontend that is built in, the
fallback, and a directory beside a frontend that is built in. `U16Max` is 3
there, so that a size that does not fit is 4, and `I32Max` 255, above every exit
code. No run uses symmetry. The runs say CHECK_DEADLOCK FALSE since a session
that has returned, and a child whose threads are done, stop.

The bounds by name: `MaxIn`, `MaxOut`, `MaxOdd` limit what the client types, the
programs print and the other frames; `MaxMounts`, `MaxSize`, `Conns` what the
page does; `MaxSize`, `MaxIn` of `CliClient` what its user does; `MaxSaid` the
messages of `Access`. They limit the environment, never the server or the page.

### Where the code and its documents differ

Each of these runs checks what a document, or a test, says, and TLC shows how
the code does otherwise.

| Run | Statement | What happens |
|---|---|---|
| `pty_group` | cleanup terminates the group, children of the shell included | the shell has exited: the first `try_wait` ends the cleanup without a signal |
| `session_detached` | closing the socket ends the child | a command that closed its terminal: the reader waits for it with the mutex held, and the cleanup waits for the mutex |
| `session_echo` | input is forwarded | driver, input, program, output, reader and channel wait for each other in a circle |
| `browser_output` | the final output can be inspected | output before the terminal's `init()` is over is discarded |
| `cli_resize` | resizes are forwarded | a resize between the read of the initial size and the registration of SIGWINCH is signalled to nobody |

Others have no run of their own. A command that does not read its input, with
more input than its terminal takes, leaves the driver in `write_all`
(`session.rs:75`), where it does not see a close: `DisconnectEnds` holds since
`ProgramFairness` has the programs read. After the exit message the process of
the command-line client stays until tokio's read of standard input returns, that
is until the user's next line; `ClientStops` says that it stays for nothing
else. The SIGKILL that follows a grace period in which the
leader has exited names the group of a process that is already reaped (`SendKill`
from `killReaped`); the design document asks for ownership of the SIGTERM only,
which `TermWhileOwned` checks. `docs/superpowers/specs/2026-06-04-terminald-design.md:40`
calls an error frame the server's message before it closes, and the driver goes
on after one (`DriverFrame`, `DriverSend`). The test
`websocket_sends_exit_frame_when_command_exits` sees the exit frame because
nothing else holds the terminal: a background process that does delays it for
as long as it lives, which is why `HangupReported` asks for a hung-up terminal.

`session_echo` needs as many bytes as there are places in the circle: six, with
buffers of one. In the real system the circle holds the kernel's two buffers,
the reader's 8 KiB and up to 32 messages in the channel.

`ExitReaches` has an exception of the same kind as `HangupReported`: a terminal
that another session's command inherited (`process.rs:303`, the descriptors of
`openpty` are not close-on-exec) is not hung up before that command ends, and
the page is not told of the exit until then.

### Fairness

`PtyFairness`: threads run, and the kernel acts on SIGKILL. No other process is
assumed to exit. Threads that wait for the mutex are not promised it.
`CleanupCompletes` has one exception, which TLC found: a leader that became
another user's process while the rest of its group did not. The group's signals
then succeed without reaching it, and `Child::wait` waits for it. `DisconnectEnds`
has the same one, since the session waits for its cleanup.

`ServerFairness`: tokio polls a task that has been woken; blocking tasks have
threads of their own. The branches of the select are strongly fair, since
`select!` polls from a random branch. `ClientFairness`: a client that is there
takes what arrives; it need not type or close. `ProgramFairness`: programs that
hold the terminal read their input if they read at all, and an echo prints what
it read. Nothing is assumed of a silent client, of a failing read, or of a
command that prints or exits by itself.

`BrowserApp!FairSpec`: timers fire, fetches end, a socket that is closing is
reported closed, and a network that is tried again and again is up for some of
the tries. The last is what "reconnects when the network is back" needs.

`System!SystemFairSpec`: a queued job is taken when a thread is free, tasks of the
server run, a cleanup ends the command it has found running, and the page's events
are delivered. No command need end by itself, no fetch be answered, no timer fire
and no network work: what `CommandsEnd` and `ExitReaches` promise is the server's
doing. `Access` has no liveness property and no fairness.

`CliClient!FairSpec`: tasks that can run do, each ready branch of the select is
taken at some time, a read returns when there is something to read, the server
takes what arrives, and a lost connection is noticed. The user need not type,
resize or end the input.

## 4. Proofs

`tlapm` proves these for every value of the constants, under the named
assumptions of the modules: `LeaderAssumption`, `SetsAssumption` and
`CodesAssumption` (the leader is none of the members; the sets of processes are
subsets of them; exit codes are numbers), `CapacityAssumption` and
`ClientAssumption` (capacities and bounds are numbers, what has to hold
something holds one element); for a visit `ArgumentsAssumption` (below),
`NamesAssumption` (which of the program's own names have an extension),
`BuildsAssumption` (a frontend is there as a whole or not at all, which is up to
whoever built it or filled the directory, and its pages are named `index.html`),
`PathsAssumption` (a browser goes below a mount, which does not end in a slash
or in a page; and it is not sent to a path that begins with two slashes and would be
redirected, since `routes.rs:60` answers `//x` with the location `//x/`, which is
one on the host `x`), `FrameAssumption` and `MessagesAssumption` (the widths are
numbers; messages have the types of the code, and an error text of the server's
own is not the one for a frame that does not decode); and for the page
`BoundsAssumption` and `NoSocketAssumption` (numbers bound the mounts and sizes,
the calls of `connect()` are finitely many, and `NoSocket` is none of them).

### The child process

* `PtyInvariant`: `PtySpec => []PtyInv`. The checked properties are not
  inductive alone. `TermWhileOwned` needs `MutexHeld`, since a step by another
  thread must be excluded between the check and the signal; it also needs
  `Started` (no thread runs before the child is born) and `Route` (the wait
  thread never signals, and `killReaped` follows a reaping). `OneCleanup` needs
  `Started` again, that a cleanup that has begun has taken the flag.
  `NoSurvivors` is kept by a fork because only a process that was out of reach
  can still fork, and its child is out of reach too. One lemma for the
  environment, one for starting a thread, one for its work, one for types.
  `MutexIsHeld`, `TermIsOwned`, `GroupDies`, `CleanupOnce` and
  `FinishedReaps` are read off it.

### The session and its child

* `SessionImplementsPty`: `Spec => PtySpec`. Every session step is a step of
  `PtyProcess` or leaves its variables unchanged, so `PtyInv` holds of every
  session (`SessionPtyInvariant`).
* `SessionInvariant`, for every size of channel and buffers: `DriverUse` says
  how far the driver is with its child (one spawn, one `terminate` that finds
  the flag free, then the drop) and `ReaderUse` that what the reader does after
  the end of file finds a terminal nobody has open. `ReturnedSessionsReap` and
  `ReaderWaitsAfterHangup` follow.
* `ReaderLeavesLast`: the reader's task ends only when the leader was reaped,
  whatever became of the cleanup. It rests on `CodesHonest` (below), since the
  exit message is the only one whose send ends the task. Together with
  `ReaderEnds` it is `LeaderReaped`.

### Streams

`Bytes` concatenates what a sequence of messages carries with `FlattenSeq`, a
recursive function of the library. The library's induction theorems take an
operator for the statement that is proved, which none of the provers
instantiates, but `WellFoundedInduction` also has that every nonempty subset of
a well-founded order has a minimal element, and its argument is a set.
`NumberInduction` is induction for a set of numbers, and with it
`ByteStreams_proofs` proves that the recursive function exists, that appending an
element appends to the result (`FlattenAppend`), and from there the laws the
other proofs cite: the type of a stream, what one more message adds to it or
takes off (`BytesAppend`, `BytesTail`), of two queues one after the other
(`BytesConcat`), and how counts join and split (`CountFacts`, `CountSplit`).

* `SessionTypes`: `Spec => []SessionTypeOK`, with the bounds: no buffer, channel
  or connection ever holds more than its capacity.
* `OutputIsConserved` needs nothing but the types. The equation
  is about places in a fixed order, and a step moves a message from the end of
  one place to the front of the next, so one law (`FlowMoves`) has a case for each
  move, and the proof of a step is to say which move it makes.
* `InputIsConserved` is not inductive: once a client may be gone the
  driver forgets what it has not written, and what must still be so of the bytes
  that were written is that they are the first of those typed. `InputInv` says
  both, the second for all states and the first while the driver drives the
  socket and somebody holds the terminal.
* `ToldCodesAreTrue`: the property speaks of the messages under way to the client
  and of those it has; the invariant `CodesHonest` speaks of every place a message
  may be in, among them a reader's that nobody listens to any more. A code
  enters at one place (`ReaderWaited`), where the leader was reaped, and the status of
  a reaped leader never changes (`LeaderStays`).

### The session implements TerminalSession

* `SessionImplementsTerminal`: `Spec => TerminalSpec`. That a step of the session
  maps to a step of `TerminalSession` or a stutter needs what no single step
  shows:
  - `OrderInvariant`: the exit code is the last message in every place, and when it is in
    one place nothing follows in those behind it (`ChanOrder`, `ClientOrder`);
    and when it was made the terminal was empty and nobody had it open (`Drained`), so
    that a told code means all output was shown and no more can be printed;
  - `ShownInvariant`: a client that listens was shown, or will be, the first `k` of the printed
    bytes, for some `k`, which is all of them when the exit code is out
    and no read failed. `OutputConserved` does not say it of a session whose
    driver has dropped the receiver;
  - `CommandInvariant`: nothing exists before the spawn (`Born`), and a leader
    that has exited has a code (`CodeKnown`);
  - `ToldInvariant`: a client that has no exit message was told no code.

  For each action of `TerminalSession` there is a lemma that says what a step
  must do to what a person sees to be that action (`ShowSeen`, `TellSeen`, and
  so on), and for what a person sees, one that says which variables it depends
  on (`CommandKept`, `PersonKept`, `ServerKept`). The steps are in `PtySeen`,
  `ProgramsSeen`, `ClientSeen`, `ReaderSeen` and `DriverSeen`.

### The page

* `BrowserInvariant`: `Spec => []BrowserInv` in `BrowserApp`. `OneConnection` is
  not inductive: that no second socket opens when a fetch passes rests on the
  live call being the only one that may (`Calls`, `Refs`: while a call is at its
  fetch, or a timer is to start one, no socket is connecting or open), and a
  closing socket of a live call is still the one in the ref, so that its close
  clears it. `StatusIsTrue` needs `Exit` (after the exit the live call only waits
  for its close) and that a first attempt says so in its record, since a failed
  retry must not leave the page connecting. One lemma for each conjunct, one
  step per action. `PageTypes`, `NoSecondConnection`, `PageTellsTheTruth`,
  `NoticeIsTakenDown`, `ServerKnowsSize`, `ExitStays` and `UnmountedIsQuiet` are
  read off it.
* `SystemImplementsBrowser`: `SystemSpec => Spec`, so all of the above holds of
  the page over real sessions. `SystemInvariant` adds where the exit message is:
  `Sent` (what is in flight by the state of the task: at most the message, then
  the close), `Served` (a page does not close the socket of a session it has not
  lost, unless it was told) and `ExitTravels` (a message that was sent is ahead of
  the close, or handled). `NoNeedlessRestart` is that with these no event of a
  live call can start a retry.

### The command-line client

* `ClientTypes`: types and raw mode. `TypeOK` alone is not inductive: that the
  writer starts without a frame needs that there is none before the initial size
  was sent (`Unspawned`).
* `InitialSizeIsFirst`: what the property says of the first frame is kept by
  `SizeSent`, which speaks of the oldest frame anywhere between client and server
  (`Oldest`) and says that there is none before the writer runs.
* `KeysAreConserved`: `KeysKept` orders the places a key may be in as the session's
  output is ordered, but they are those of the client: what the server has, the connection,
  the frame that waits for room, the data of a read that nobody has polled since, the
  terminal's buffer. A select that takes its other branch moves none of them.

### Visits: admission

`RefusesAsMeant`: `Spec => []Admission` in `Access`. Two kinds of facts meet in it. About
texts: `PairIsText`, that a credential is encoded as the text it was made of,
since only its first colon separates; `OneLine`, that taking off one line ending
and refusing any other leaves what comes before the first; and from these that
two sides whose arguments resolve agree on the wire exactly when their users meant
the same (`AgreeAsMeant`). About the visit: `SidesKnown` (each side has what its
argument resolves to, except a client that fails before it asks), `HeaderKnown`
and `ReplyKnown` (a reply is dropped when the browser's credential changes).
`ArgumentsAssumption` says what clap makes of a command line, and that a user who
types a credential types a colon. The property speaks of the replies of the
server: a path above the mount is the proxy's to answer.

### Visits: pages

`PagesAreComplete`: `Spec => []PageComplete` in `Access`. `VisitInvariant` says, for each
stage of a visit, which request is made there and that a reply is what the
server or the proxy answers to it (`RequestFits`, `ReplyFits`), and of a page that is
shown that it is below its mount and its credential is the server's (`PageStands`).
What a page may be called is known only from the routes: an answer that is a
page was for a path that ends with a slash or in `index.html` (`PageFound`), which no
mount does (`BelowMount`), so what the page refers to is below the mount too
(`RelativeFacts`, `SlashedFacts`). The rest is about `dispatch` and `assets.rs`: its
routes exclude each other (`DispatchIs`); a relative reference keeps its last two names
(`RelativePoints`), by which the check, the socket and the files are told apart;
`RelativePath` undoes the directory of the page (`FileIsFound`); and the candidates of a
lookup are of one build (`FrontendIsWhole`), where the second exception is needed.
`AccessTypes` is the types.

### Visits: messages

`MessagesReach`: `Spec => []MessagesArrive`. `MessagesInvariant` has for each direction that
every message that was said was heard as what it is taken for, or is on its way
as its frame (`Heard`), and that the refusals counted on both sides are equally
many. It rests on decoding undoing encoding, for every message (`ClientRoundTrip`,
`ServerRoundTrip`). For exit codes that is two recursions, the digits of a number
and the number of its digits; `CodeRoundTrip` proves by `NumberInduction` that the second
undoes the first for every integer, and that negative ones keep their sign.

### Only model-checked

All liveness properties, which are out of this prover's reach, as ENABLED is:
`CleanupCompletes`, `DisconnectEnds`, `HangupReported`, `OutputArrives`,
`ReaderEnds`, `LeaderReaped`, `ReconnectEnds`, `NoticedResizeArrives`,
`ClientStops`, `CommandsEnd` and `ExitReaches`. Every other property of a passing run is also a
theorem.

## 5. Not modelled

* In the command-line client: what it prints and how long printing takes, and a
  terminal whose size cannot be read.
* In `Access`: what clap itself refuses, requests other than GET, headers but the
  credential, and errors of the file system other than a file's absence.
* In `BrowserApp`: a `connect()` that fails otherwise than in its fetch, that is a
  `new WebSocket` that throws, and its handler (`App.tsx:197-203`).
* In `System`: the bytes, the server's error frames and a read of the terminal
  that fails (`session.rs:34`; both are in `Session`), commands that close their
  terminal and run on, and the command-line client in the page's place.
* Time: the grace period is over at any moment, a timer fires at any moment.
* Poisoned mutexes and panics; a failing `try_wait` or `wait` of one's own child.
* The server's own end, for which it has no handling. A terminal is hung up then
  if no other process has its master open; since `openpty`'s descriptors are not
  close-on-exec, a command of another session may.
* The look of the page, styles, build and packaging.

## 6. Plan

`System` with the command-line client in the place of the page.
