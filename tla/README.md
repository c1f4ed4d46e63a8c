# TLA+ models of KIMAP2's Session

This directory holds TLA+ models of the IMAP client session in
`src/src/session.cpp`, and the TLC configurations that check them. The
older threaded transport `src/sessionthread.cpp`, with its SSL version
fallback, is modelled by `SessionThreadV1`. The event-loop transport
`src/src/sessionthread.cpp`, which the session does not use, is
modelled by `SessionThread` (§6). `JobQueue` states what the dispatcher promises, and
`Session` is checked to refine it.

## 1. The system

### Components, their state and operations

| Component | Source | State | Operations |
|---|---|---|---|
| Job queue / dispatcher | session.cpp 174-221, 410-423 | `queue`, `currentJob`, `jobRunning` | `addJob`, `startNext`/`doStartNext`, `jobDone`, `jobDestroyed`, `clearJobQueue` |
| Command writer, tag allocator | session.cpp 324-359, 494-499 | `tagCount`, `authTag`, `selectTag`, `closeTag`, `upcomingMailBox`, `dataQueue` | `sendCommand`, `sendData`, `writeDataQueue` |
| State machine, response router | session.cpp 223-322 | `state`, `currentMailBox`, `greeting` | `responseReceived`, `setState` |
| Reader | session.cpp 501-563 | the parser's buffer | `readMessage` (one response per call, re-queued while data is left) |
| Inactivity timer | session.cpp 136-139, 444-492 | `socketTimer`, `socketTimerInterval` | `setTimeout`, `start/stop/restartSocketTimer`, `onSocketTimeout` |
| Socket handlers | session.cpp 44-87, 126-129, 361-408, 565-578 | `isSocketConnected`, the `QSslSocket` | `reconnect`, `socketConnected`, `socketError`, `socketDisconnected`, `socketActivity`, `close` |
| SSL (session) | session.cpp 169-172, 425-442 | socket mode | `startSsl`, `sslConnected`, `handleSslErrors` |
| SessionThread v2 | src/src/sessionthread.cpp | socket, parser, `m_encryptedMode`, `m_dataQueue` | `sendData`, `writeDataQueue`, `readMessage`, `closeSocket`, `reconnect`, `doStartSsl`, `sslConnected`, `doSslErrorHandlerResponse` |
| SessionThread v1 | src/sessionthread.cpp | the above plus `m_mutex`, `doSslFallback`, `triedSslVersions` | the above, run on a `QThread`, plus the SSL version fallback ladder |
| Jobs | not in this repository | — | the collaborator contract of spec.md: `doStart`, `handleResponse`, `connectionLost`, `setSocketError`, the `result` signal |

### How they interact

Everything in `session.cpp` runs on one Qt event loop. A slot runs to
completion. `invokeMethod` without a connection type is a direct call,
so `startNext` → `doStartNext` and `sendData` → `writeDataQueue` happen
inside the caller. Only two calls are queued: the constructor's
`reconnect` and `readMessage`'s re-scheduling of itself.

A caller adds a job, and `doStartNext` starts it once the socket is
connected and no job runs. The job calls `sendCommand`, which allocates
the next tag `A%06d` and writes the line. Server bytes raise `readyRead`,
which reaches two slots in connection order: `readMessage` parses one
response and hands it to `responseReceived`, then `socketActivity`
restarts the timer. `responseReceived` moves `state` and forwards the
response to the current job. A job that sees its tagged response emits
`result`, and `jobDone` starts the next job. Socket errors, timeouts and
disconnects go through `socketError` and `socketDisconnected`, which
notify one job and destroy the other queued jobs.

### The hard behaviours

- Buffered responses are handled by queued `readMessage` calls after the
  socket is gone and `state` is `Disconnected` again.
- A caller may delete a job at any time (`jobDestroyed`), including the
  running one whose answer is still on the wire.
- A timeout, a server hang-up or a `close()` can race the server's answer.
- Writes made while the socket is `Closing` are dropped.
- Tracked tags are compared with the response's tag after being cleared
  to the empty byte array.
- In SessionThread v1, two threads share a recursive mutex, and the SSL
  fallback reconnects from inside socket callbacks.
- In SessionThread v2, everything runs on one thread, but rejecting an
  SSL prompt reconnects while the old link's `disconnected()` is still
  queued, and a `startSsl` in between is refused by the socket.

### What makes each component correct

- Dispatcher: at most one job in flight (`SingleFlight`). Every job
  added to a live session eventually finishes (`JobsFinish`) and is told
  of the result (`JobsNotified`).
- Router: a response reaches only the job whose command it answers, or
  an untagged line reaches the running job (`ResponsesReachTheirJob`).
  Nothing reaches a finished or deleted job (`NoDeliveryAfterResult`).
- State machine: `state` changes only as spec.md §4.4's table says
  (`StateFollowsTable`). A session whose connection is gone is
  `Disconnected` (`SessionEndsDisconnected`).
- Debug-build assertions: `jobDone` runs only for `currentJob` (205),
  and `startSocketTimer` never finds the timer running (469)
  (`AssertionsHold`).

## 2. Plan

| Order | Module | Models | Status |
|---|---|---|---|
| 1 | `Session` (+ `MC_Session`) | session.cpp with the socket and the server as environment | done |
| 2 | `JobQueue` | abstract FIFO dispatcher: jobs start in order, one at a time, each ends once; `Session` refines it via `INSTANCE ... WITH` mapping `queue`, `currentJob`, `jstate` | done |
| 3 | mailbox name | the extraction at session.cpp 339-342, as operators of `Session` over byte sequences, checked against spec.md's quoted-string reading | done |
| 4 | `SessionThreadV1` (+ `MC_SessionThreadV1`) | src/sessionthread.cpp: the worker's queued slots, the socket signals and the SSL fallback ladder of `startSsl` | done |
| 5 | `SessionThread` (+ `MC_SessionThread`) | src/src/sessionthread.cpp on its one thread: every slot and call, queued and direct, with the caller, the user and the server as environment | done |

## 3. The `Session` module

### State

The session's own variables keep the names of `SessionPrivate`'s
members: `state`, `isSocketConnected`, `jobRunning`, `currentJob`,
`queue`, `tagCount`, `authTag`, `selectTag`, `closeTag`,
`upcomingMailBox` and `currentMailBox`. The timer is modelled by
`timerActive`, and `timeoutOn` stands for `socketTimerInterval >= 0`.
`readQueued` counts queued `readMessage` calls, and `reconnectQueued`
is the constructor's queued call. `asserted` records whether every
`Q_ASSERT` reached so far held. `jobDone` and `startSocketTimer` set
it to false when their assertion fails.

The environment:

- `sock` is the socket state (Unconnected, Connecting, Connected,
  Closing).
- `wire` holds the tags written and not yet answered.
- `net` holds the responses in flight to the client, and `rx` the
  parser's buffer.
- `bytesPending` stands for a pending `bytesWritten` signal.
- `srvOpen`, `srvGreeted` and `unsolicited` are the server's state.
- For each job, the collaborator state is `jstate` (new, queued,
  started, done or deleted), `jtag` (the tag of its command) and
  `inbox` (the tags it was handed).

A response is a record `[tag, code]`:

- tag `-1` is `*`;
- tag `0` is the empty byte array, which is also what a cleared tracked
  tag holds;
- tag `n` is `A00000n`.

`Fault` is a line the parser cannot read.

`alive` says the `Session` exists. The constant `AllowDestroy` lets the
caller delete it; only the core run does.

### Actions

Each handler of session.cpp is a pure operator from a record of all
variables (`Cur`) to its successor. An action applies the handlers the
event runs, in the code's order, and `Commit` assigns the result. For
example, `ReadyRead` is `socketActivity(readMessage(...))`, and
`jobDone` ends with `doStartNext`. Calls that the code makes directly
are nested inside the action; only queued calls are separate actions.

The actions are:

- user: `addJob`, `DeleteJob`, `close`, `setSocketTimeout`, and
  `Destroy` (`Session::~Session`: `clearJobQueue`, then `delete d`,
  after which nothing of the session runs: `alive` turns false and
  `Next` stops);
- event loop: `reconnect`, `socketConnected`, `ConnectFailed`,
  `ReadyRead`, `QueuedReadMessage`, `BytesWritten`, `RemoteHostClosed`,
  `SocketClosed`, `onSocketTimeout`;
- server: `ServerGreets`, `ServerReplies`, `ServerSendsUntagged`,
  `ServerCloses`.

`close()` (`closeSocket`) goes to `Closing` only while the socket
still has bytes to write and the peer is open; `SocketClosed` finishes
it later. Otherwise Qt's `close()` reaches `Unconnected` inside the
call, and the `stateChanged` lambda runs `socketDisconnected` before
`close()` returns, as it does after `RemoteHostClosed`. `abort()` resets at once and runs
`socketDisconnected` synchronously, through the `stateChanged` lambda.
The server hangs up after a greeting other than OK or PREAUTH, and
after BYE.

The Job collaborator is not in this repository. `doStart`,
`handleResponse` and `emitResult` model spec.md's contract: a job sends
one command and completes on the tagged response with its own tag.

### Fairness

Every event-loop action is weakly fair. Qt delivers every queued call
and socket signal, and the timer fires if it stays active. The user and
the server get no fairness, so a server may stay silent for ever. A weak
fairness condition is written in the form `[]<>~G \/ []<><<A>>_vars`,
where G is the action's guard. This is equivalent to `WF_vars(A)`
here, because `Commit` can always be satisfied and every step changes a
variable. It also spares TLC from evaluating `ENABLED` of the nested
handlers. `ServerFairness` is fairness for greeting and answering. The
liveness run checks `ServerFairness => JobsFinish` under `Spec`. The
stall run uses `FairServerSpec`, which is `Spec /\ ServerFairness`.

### Refinement of `JobQueue`

`JobQueue` is what callers of the session may rely on, stated without
sockets, tags or timers. Its state is:

- `waiting`: the jobs added and not yet started, oldest first;
- `status`: for each job, new, queued, started, done or deleted.

Its actions are `Add`, `Dispatch`, `Finish`, `Destroy` and `Abandon`
(clearJobQueue).

Every session operation may end in `startNext`. So `Add`, `Dispatch` and
`Finish` end with `Then`, which either leaves the queue alone or starts
its head when no job runs.

`Session` defines `Abstract == INSTANCE JobQueue WITH waiting <- QueueBar,
status <- jstate`. `QueueBar` is `queue`, with a job that `socketError`
moved to `currentJob` without starting it put back in front.
`JobQueueRefinement == Abstract!Spec` is checked as a property of the
delete run. Every concrete step is one abstract step or a stutter, so:

- a job starts only from the head of the queue;
- no job starts while another runs;
- a job that has ended never changes again.

The stall finding does not contradict this. `JobQueue` is a safety
specification, and a dispatcher that starts nothing implements it.

## 4. Runs

`MC_Session` fixes three jobs: j1 LOGIN, j2 SELECT of the mailbox `i`, and j3
CLOSE. Each job can be added once, so every command, every tracked tag
and the Selected row of the table are reachable. Greetings are OK,
PREAUTH, BYE and BAD. Replies are OK or NO. At most one unsolicited line
is sent, drawn from `* DATA`, `* BYE` and a fault. Deadlock checking is
off because a session legitimately ends: the constructor connects once
and nothing reconnects.

| Run | Expect | Checks | Shows |
|---|---|---|---|
| core | pass | TypeOK, SingleFlight, ResponsesReachTheirJob, AssertionsHold, NoDeliveryAfterResult, StateFollowsTable | with no job deletions, but with the session deletable at any point, routing, the state table and the two `Q_ASSERT`s hold under every interleaving of server, socket and timer (51,319 states) |
| liveness | pass | JobsFinishTimed, JobsFinishFairServer | the timeout is switchable and `close()` allowed (128,401 states). While the timeout stays on, the inactivity timer alone ends every job. Otherwise a server that greets and answers every command does. |
| delete | pass | SingleFlight, AssertionsHold, NoDeliveryAfterResult, JobQueueRefinement | one deletion at any point and the timeout switch keep these (the timer assertion across `setSocketTimeout`), and the dispatcher implements `JobQueue` (361,481 states) |
| leftover | violation | SessionEndsDisconnected | a buffered `A000001 OK` read after the socket died sets NotAuthenticated |
| stall | violation | JobsFinish | deleting the running job leaves `jobRunning` set; with the timeout off the queue never moves |
| notified | violation | JobsNotified | on disconnect, queued jobs beyond the first are destroyed with no result |
| quote | violation | SelectedMailBoxIsRequested | the core configuration with a mailbox name holding a double quote: `Selected` reports the name as a lone `\` |
| destroyed | violation | JobsToldOnDelete | the core configuration: deleting a connected session whose j1 runs and j2 waits starts j2, which is never told (6 states) |

A mailbox name is a sequence of one-byte strings. The SELECT job sends
it as a quoted string, `Quote` in `MC_Session`. `upcomingMailBoxOf` is
`sendCommand`'s `remove(0, 1)` then `left(indexOf('"'))`, and Qt's
`left` of a negative length is empty. `SelectedMailBoxIsRequested`
compares `currentMailBox` with spec.md's reading of the quoted argument.
For the plain name `i` of the other runs the two agree by construction,
so the property is checked only where it can fail: the quote run sets
`MailBoxes <- MCMailBoxesQuote`, a name holding a double quote, and the
code cuts at the escaped quote and stores `\`. An unquoted argument
would give the empty name.

Deleting a session whose socket is still connected strands a job. The
destructor's `clearJobQueue` calls `connectionLost` on the running job
(j1). Its result runs `jobDone`, and `jobDone` calls `doStartNext`
directly. `isSocketConnected` is still set, so the next queued job (j2)
is started and sends its command. j2 is no longer in the queue, so it is
not destroyed either, and the session is then deleted under it. This
contradicts the destructor's own comment, "Make sure all jobs know we're
done". It also contradicts spec.md §Failure propagation. With
`AllowDestroy = TRUE`, the destroyed run finds `JobsToldOnDelete`
violated (6 states). The delete configuration would then fail
`JobQueueRefinement` too, since `JobQueue`'s `Abandon` starts no job, so
the delete run keeps `AllowDestroy = FALSE`.

An empty response line is not among the enumerated lines. With
`MCUnsolicited <- MCUnsolicitedEmpty`, `StateFollowsTable` fails: the
empty tag equals a cleared `selectTag`, and Selected deselects (284).

Each property of a passing run has a mutant in `Session.tla`, defined
just before the operator it replaces. Each mutant is a plausible slip in
the code: a tag counter advancing twice, `doStartNext` without its
`jobRunning` test (which breaks both single flight and routing: the
first job's answer reaches the second), `jobDone` not clearing `currentJob` or not starting the next job,
`socketDisconnected` leaving the queue, `jobDestroyed` leaving the job
in the queue, the Selected row ignoring the
code of the CLOSE answer, or `clearJobQueue` telling the head of the
queue `connectionLost` without making it `currentJob`
(`clearJobQueueNoTake`, which trips the assertion of `jobDone`). TLC finds each one under its run's
configuration.

The bounds are enough because each finding needs two or three jobs, one
deletion and one extra server line, and the checks cover every order of
those events. Longer queues repeat the same shapes with more tags.

## 5. The `SessionThreadV1` module

`src/sessionthread.cpp` runs the socket on a `QThread`. Its slots run
on the worker thread: `reconnect`, `readMessage`, `doCloseSocket` and
the queued `disconnected()` → `socketDisconnected`. `error()` reaches
`socketError` directly. The caller's thread calls `startSsl` and
`sslErrorHandlerResponse`. Every slot except `doCloseSocket` holds the
recursive `m_mutex` for its whole body, so each slot is one atomic step.
`doCloseSocket` writes one flag; both orders of that write against the
caller's calls are explored.

The data path is the exception. The caller's `sendData` and the worker's
`writeDataQueue` share `m_dataQueue`. Each enqueue or dequeue is a read
of the queue and a later write-back, and it runs under `m_mutex`:

- `SendRead` takes the lock and reads the queue.
- `SendWrite` writes it back, queues `writeDataQueue` and unlocks.
- `DrainStart` runs the queued `writeDataQueue` and takes the lock.
- `DrainRead` and `DrainWrite` are the loop's test and its
  `write(dequeue())`. An empty queue ends the loop and unlocks.

`Unlocked` says neither holds the lock. Every slot and signal that locks
(`SlotLocks`) waits for it: the socket's signals, `startSsl` and
`sslErrorHandlerResponse`. While `writeDataQueue` runs, the worker
thread runs nothing else.

### State

| Variable | Code |
|---|---|
| `sock`, `enc` | `m_socket->state()`, and plain, handshake running or encrypted |
| `advertised`, `tried`, `doSslFallback`, `encryptedMode` | `advertisedSslVersion()`, `triedSslVersions`, `doSslFallback`, `m_encryptedMode` |
| `encConns` | how many times `encrypted()` was connected to `sslConnected` (214) |
| `evq` | the worker's queued calls, in FIFO order |
| `pending`, `negotiated`, `answers`, `sslErrs`, `req` | the caller: awaiting a `startSsl` answer, holding a result for this link, `sslConnected` runs since its last call, open SSL error prompts, the version it asked for |
| `faults`, `cfails`, `calls` | bounds on network faults, failed connects and `startSsl` calls |
| `dataQueue`, `enq`, `draining`, `deq`, `sent`, `handed` | `m_dataQueue`; the queue `sendData` read while holding the lock; `writeDataQueue` holding the lock; the queue it read; payloads sent; payloads passed to `write()` |
| `server` | the server this link reaches, picked by `Init` from the constant `Servers` and fixed: the versions whose handshake it completes (`accepts`) and, of those, the ones that raise SSL errors (`weak`) |

### Actions

- `WorkerRuns` runs the oldest queued call through `Dispatch`.
- Socket and server:
  - `ConnectDone`.
  - `ConnectFail`: `error()`, and no `disconnected()` follows.
  - `HandshakeFail`: the server refuses the advertised version, so `error()` is followed by the abort.
  - `HandshakeDone`: `encrypted()` runs `sslConnected` once per connection.
  - `Drop`.
  - `Garbage`: unparsable bytes, so `readMessage` closes the socket.
- Caller: `closeSocket`, `StartSsl(v)`, `SslErrorResponse(r)`.
- Data path: `SendRead`, `SendWrite`, `DrainStart`, `DrainRead`, `DrainWrite`.
- The caller does not call `startSsl` again while an SSL prompt is open.

`sslLadder` is `startSsl`'s version choice: Any, then TlsV1, SslV3, SslV2,
one step per call, with `doSslFallback` cleared only on the SslV2 step.

### Fairness

`WorkerRuns`, `ConnectDone`, `HandshakeFail` and `HandshakeDone` are
weakly fair, because the worker's event loop delivers queued calls and
socket signals. `SendWrite`, `DrainStart`, `DrainRead` and `DrainWrite`
are weakly fair too: a thread inside `sendData` or `writeDataQueue`
runs on to its unlock, and the worker runs a queued `writeDataQueue`.
New sends are not fair.

The caller is weakly fair in two ways:

- It retries `startSsl` with its requested version while it still waits
  and the link is plain again. The login job restarts when the
  connection comes back.
- The user answers every SSL prompt.

Faults, closes and new requests get no fairness.

### Runs

| Run | Expect | Checks | Shows |
|---|---|---|---|
| ssl | pass | TypeOK, HandedInOrder, LossReported, StartSslAnsweredConnecting, SentHanded | Two `sendData` calls race `writeDataQueue` under `m_mutex`. The socket gets every payload once and in order (`HandedInOrder`), and every payload reaches it (`SentHanded`). `Init` picks one of two servers (`MCServers`). One completes only SslV3. The other answers Any with SSL errors and TlsV1 cleanly. Callers ask for Any or TlsV1, and the run adds failed connects, drops, garbage, closes, and the user accepting or rejecting prompts. A negotiated link to an error-free server is never lost silently. Every `startSsl` on a link whose connections succeed is answered. |
| ssl_duplicate | violation | OneAnswerPerStart | a second `startSsl` on the same socket makes one handshake run `sslConnected` twice (214) |
| ssl_connectfail | violation | StartSslAnswered | a failed reconnect during the fallback emits no `disconnected()`, so `socketError` swallows it and the caller waits for ever (229-232) |

Three more defects are recorded as hazards, for want of run slots:

- `LossReported` is stated for servers whose handshakes raise no SSL
  errors. The unscoped form fails with `Servers = {Server({"Any"},
  {"Any"})}` and `UserResponses = {TRUE}`. Accepting a prompt leaves
  `doSslFallback` set (263-265), so a later loss is swallowed and
  silently reconnected.
- After the SslV2 step, or after the user rejects the SslV2 prompt, a
  new `startSsl(Any)` sets `doSslFallback` with nothing left to try
  (195): `triedSslVersions` is never reset, so the ladder is exhausted
  for the socket's lifetime. A later failure is then swallowed and
  silently reconnected, and every retry advertises the version already
  refused.
- `StartSslAnswered` fails with the error-prompt server of the ssl run
  completing SslV2 instead of TlsV1 (`Server({"Any", "SslV2"},
  {"Any"})`), `CallVersions = {"Any"}`, no failed connects and
  `MaxFaults = 1`. A prompt answered
  after the link was silently reconnected sets `m_encryptedMode` on a
  plain link. A refused TlsV1 handshake then reconnects encrypted for
  ever.

Mutants:

| Property | Mutant |
|---|---|
| TypeOK | `sslLadderMarksAny` |
| LossReported | `sslConnectedKeepsFallback`: a clean handshake leaves the fallback set |
| StartSslAnsweredConnecting | `socketDisconnectedNoReconnect`: the fallback swallows a disconnect without reconnecting |
| HandedInOrder | `SendReadUnlocked`: `sendData` without its `QMutexLocker` |
| SentHanded | `SendWriteNoPost`: `sendData` enqueues without queuing `writeDataQueue` |

`StartSslAnsweredConnecting` is `[](cfails = 0) => StartSslAnswered`.
A failed connect during the fallback leaves the caller waiting; the
ssl_connectfail run shows that.

Bounds: the ssl run allows 10 `startSsl` calls, 3 faults, 2 failed
connects and 2 sends (135,400 states). The whole ladder takes four
calls, so the bounds leave room for retries and for a fault or a failed
connect at most steps. Two sends are the fewest for which an unlocked
queue can reorder or repeat a payload.

## 6. The `SessionThread` module

Despite its name, the `SessionThread` of `src/src/sessionthread.cpp` is
a plain `QObject`: the constructor creates no thread and moves the
object nowhere, so every slot and call runs on the thread that owns it.
Its event loop runs, one at a time and oldest first (`evq`), the calls
connected with `Qt::QueuedConnection`:
- `reconnect`, queued by the constructor;
- `readMessage`, queued by `readyRead` and by itself;
- `slotSocketDisconnected`, queued by `disconnected()`;
- `doCloseSocket`, queued by `closeSocket`.

`invokeMethod` without a connection type on an object of the same
thread is a direct call. So `sendData` runs `writeDataQueue` at once,
`startSsl` runs `doStartSsl`, and `sslErrorHandlerResponse` runs
`doSslErrorHandlerResponse`. `connected()`, `error()` and `encrypted()`
are direct connections too, and run in the socket's step
(`ConnectDone`, `ConnectFail`, `HandshakeEnd`, `Drop`). `LoopRuns`
runs the oldest queued call through `Dispatch`.

The caller holds the link after `socketConnected`, and loses it on
`socketError` or `socketDisconnected` (`lost`). It calls `startSsl`
only on a link it holds plain with no prompt open, then waits for the
answer (`pending`). Handshakes end clean, with SSL errors (a prompt)
or refused. `sslConnectedTimes` runs `sslConnected` once per
connection of `encrypted()` (`encConns`).

`inbuf` is what the stream parser can read, in whole responses. A
response is longer than one byte, so `availableDataSize() > 1` means "a
response is buffered". The parser is not in this repository.

### Fairness

The event loop (`LoopRuns`), `ConnectDone`, the end of a running
handshake and the user's answer to a prompt are weakly fair. Arrivals,
faults and the caller's requests get no fairness.

### Runs

| Run | Expect | Checks | Shows |
|---|---|---|---|
| v2 | pass | EncryptionAnswered | The caller sends two payloads, closes, starts SSL twice and answers prompts either way. Handshakes are clean, raise SSL errors or are refused. The network adds one drop or failed connect and two arrivals of one or two responses or garbage. Every `startSsl` is answered, also when a rejected prompt is reconnecting: `startClientEncryption` refuses the connecting socket, and only the old link's queued `socketDisconnected` answers (68,301 states). |

The mutant `slotSocketDisconnectedSilent` (the queued `disconnected()`
emits nothing) violates `EncryptionAnswered`.

Bounds: 2 `startSsl` calls, 1 fault and 2 arrivals. A second call
follows a rejected prompt's reconnect, which is the case where
`encConns` reaches 2.

Defects that are modelled but have no run, because the project keeps to
12 runs. They are listed as hazards:
- After a rejected prompt, the old link's queued `socketDisconnected`
  reaches the caller after the new link started (256-259, 48).
- A late acceptance emits `encryptionNegotiationResult(true)` for a link
  lost since the prompt (251-252).
- The `encrypted()` connection is added on every `doStartSsl` (194).
  This is the defect of v1's ssl_duplicate run.
- `readMessage` re-queues itself only while more than one byte is
  buffered (138). Whole responses cannot tell that threshold apart, so
  no property reads it.

## 7. Not modelled

- SSL in the session (`startSsl`, `sslConnected`, `handleSslErrors`).
  These set the socket's protocol, start its handshake and re-emit its
  signals to the login job, which is outside this repository. The
  session's own state does not change. The one defect visible there is
  the `encrypted()` connection added on every call (428). It is the
  defect ssl_duplicate shows in `SessionThreadV1`.
- The destructor of the event-loop `SessionThread`. It deletes the
  socket and parser, and Qt then drops the queued calls. `socketActivity` is also not
  modelled: it only feeds the caller's timer.
- In `SessionThreadV1`, the parse of `readMessage` beyond its error
  branch, and the destructor's thread shutdown (`quit`, `wait`,
  `terminate`). The shutdown ends the thread, and no property of a live
  session reads it.
- The logger: output only.
- The part-by-part parse of `ImapStreamParser`, which is not in this
  repository: a response is abstracted to its tag and code.
- `decodeImapFolderName` (mUTF-7, outside this repository). It is the
  identity on the names the runs use, which contain no `&`.
- `jobQueueSize` and the signals that report it: they change no state.
