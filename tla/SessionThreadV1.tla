-------------------------- MODULE SessionThreadV1 --------------------------
(***************************************************************************)
(* The QThread transport of src/sessionthread.cpp: the worker thread's     *)
(* queued slots (reconnect, readMessage, doCloseSocket, the queued         *)
(* disconnected signal), the socket's error signal (a direct connection),  *)
(* and the SSL negotiation with the version fallback ladder of startSsl.   *)
(* The caller of startSsl, closeSocket and sslErrorHandlerResponse (the    *)
(* session and its login job, not in this repository) is the environment, *)
(* as are the server's handshake outcomes and the network's faults.       *)
(* Every slot holds m_mutex (recursive) for its whole body, or touches no  *)
(* shared state, so each slot is one atomic step; a slot that locks waits  *)
(* while the other thread holds the mutex.  The data path (sendData on the *)
(* caller's thread, writeDataQueue on the worker's) shares m_dataQueue:   *)
(* its enqueue and dequeue are a read and a later write-back, made under   *)
(* m_mutex, so they are steps of their own with the lock held between.    *)
(***************************************************************************)
EXTENDS Naturals, Sequences, FiniteSets

CONSTANTS
    Servers,          \* servers the socket may reach: the advertised
                      \* versions they complete a handshake for
                      \* (accepts) and, of those, the ones whose session
                      \* has SSL errors (weak)
    CallVersions,     \* versions the caller passes to startSsl
    UserResponses,    \* answers the user may give to an SSL error prompt
    MaxFaults,        \* bound on drops, garbage lines and caller closes
    MaxConnectFails,  \* bound on failed connection attempts
    MaxCalls,         \* bound on startSsl calls
    MaxSends          \* bound on sendData calls

Versions == {"TlsV1", "SslV3", "SslV2"}    \* the bits of triedSslVersions
Advertised == {"Unknown", "Any"} \cup Versions

ASSUME /\ \A s \in Servers : s.weak \subseteq s.accepts
                             /\ s.accepts \subseteq {"Any"} \cup Versions
       /\ CallVersions \subseteq {"Any"} \cup Versions
       /\ UserResponses \subseteq BOOLEAN

VARIABLES
    sock,           \* the socket's state
    enc,            \* plain, handshake running, or secure
    advertised,     \* m_socket->advertisedSslVersion()
    tried,          \* triedSslVersions
    doSslFallback,
    encryptedMode,  \* m_encryptedMode
    encConns,       \* connections of encrypted() to sslConnected
    evq,            \* the worker thread's queued calls, in order
    pending,        \* the caller awaits the outcome of its startSsl
    negotiated,     \* the caller holds an encryption result for this link
    answers,        \* sslConnected runs since the last startSsl
    sslErrs,        \* sslError prompts not yet answered by the user
    req,            \* the version the caller's request asked for
    faults, cfails, calls,
    server,         \* the server this link reaches, fixed
    dataQueue,      \* m_dataQueue
    enq,            \* {q}: sendData holds m_mutex and has read the queue as q
    draining,       \* writeDataQueue holds m_mutex
    deq,            \* {q}: writeDataQueue has read the queue as q
    sent, handed    \* payloads sendData was given; those passed to write()

vars == <<server, sock, enc, advertised, tried, doSslFallback, encryptedMode,
          encConns, evq, pending, negotiated, answers, sslErrs, faults,
          cfails, calls, req, dataQueue, enq, draining, deq, sent, handed>>

Cur == [sock |-> sock, enc |-> enc, advertised |-> advertised,
        tried |-> tried, doSslFallback |-> doSslFallback,
        encryptedMode |-> encryptedMode, encConns |-> encConns, evq |-> evq,
        pending |-> pending, negotiated |-> negotiated, answers |-> answers,
        sslErrs |-> sslErrs, faults |-> faults, cfails |-> cfails,
        calls |-> calls, req |-> req, dataQueue |-> dataQueue, enq |-> enq,
        draining |-> draining, deq |-> deq, sent |-> sent, handed |-> handed]

Commit(st) ==
    /\ sock' = st.sock /\ enc' = st.enc /\ advertised' = st.advertised
    /\ tried' = st.tried /\ doSslFallback' = st.doSslFallback
    /\ encryptedMode' = st.encryptedMode /\ encConns' = st.encConns
    /\ evq' = st.evq /\ pending' = st.pending /\ negotiated' = st.negotiated
    /\ answers' = st.answers /\ sslErrs' = st.sslErrs
    /\ faults' = st.faults /\ cfails' = st.cfails /\ calls' = st.calls
    /\ req' = st.req /\ server' = server
    /\ dataQueue' = st.dataQueue /\ enq' = st.enq /\ draining' = st.draining
    /\ deq' = st.deq /\ sent' = st.sent /\ handed' = st.handed

(* m_mutex is free: neither sendData nor writeDataQueue holds it. *)
Unlocked == enq = {} /\ ~draining
-----------------------------------------------------------------------------
(* ---- the socket (KTcpSocket) ---- *)

(* disconnectFromHost / close / abort: a connected socket goes down and  *)
(* emits disconnected(), which reaches socketDisconnected queued; a      *)
(* socket still connecting is reset without disconnected().              *)
disconnectFromHost(st) ==
    CASE st.sock = "Connected" ->
           [st EXCEPT !.sock = "Unconnected", !.enc = "plain",
                      !.evq = Append(@, "socketDisconnected")]
      [] st.sock = "Connecting" ->
           [st EXCEPT !.sock = "Unconnected", !.enc = "plain"]
      [] OTHER -> st

(* The session is told: it forwards socketError or socketDisconnected to  *)
(* the job, which ends the caller's wait.                                 *)
tellSession(st) == [st EXCEPT !.pending = FALSE, !.negotiated = FALSE]

(* ---- the slots of SessionThread ---- *)

reconnect(st) ==
    IF st.sock \in {"Connected", "Connecting"} THEN st
    ELSE [st EXCEPT !.sock = "Connecting",
                    !.enc = IF st.encryptedMode THEN "handshake" ELSE "plain"]

doCloseSocket(st) == disconnectFromHost([st EXCEPT !.encryptedMode = FALSE])

(* readMessage on bytes the parser cannot read: doCloseSocket. *)
readMessage(st) == doCloseSocket(st)

(* Mutant: a disconnect during the fallback is swallowed, no reconnect. *)
socketDisconnectedNoReconnect(st) ==
    IF st.doSslFallback THEN st ELSE tellSession(st)

socketDisconnected(st) ==
    IF st.doSslFallback THEN reconnect(st) ELSE tellSession(st)

(* The lock is released before disconnectFromHost, whose disconnected()  *)
(* reaches socketDisconnected and so reconnect.                          *)
socketError(st) ==
    IF st.doSslFallback THEN disconnectFromHost(st) ELSE tellSession(st)

(* The branch startSsl(AnySslVersion) takes: Any first, then the first  *)
(* version not yet tried, or none when all were.                          *)
LadderStep(st) ==
    CASE st.advertised = "Unknown" -> "Any"
      [] "TlsV1" \notin st.tried -> "TlsV1"
      [] "SslV3" \notin st.tried -> "SslV3"
      [] "SslV2" \notin st.tried -> "SslV2"
      [] OTHER -> "none"

(* Mutant: the version tried is recorded as the advertised one, Any too. *)
sslLadderMarksAny(st, v) ==
    LET step == LadderStep(st)
    IN  IF v # "Any" THEN [st EXCEPT !.advertised = v]
        ELSE [st EXCEPT !.advertised = IF step = "none" THEN @ ELSE step,
                        !.tried = IF step = "none" THEN @ ELSE @ \cup {step},
                        !.doSslFallback = step # "SslV2"]

(* The version choice of startSsl: AnySslVersion walks the ladder        *)
(* Any, TlsV1, SslV3, SslV2 one step per call and keeps doSslFallback    *)
(* set until the SslV2 step; an explicit version is advertised as is.    *)
sslLadder(st, v) ==
    LET step == LadderStep(st)
    IN  IF v # "Any" THEN [st EXCEPT !.advertised = v]
        ELSE [st EXCEPT !.advertised = IF step = "none" THEN @ ELSE step,
                        !.tried = IF step \in Versions THEN @ \cup {step}
                                  ELSE @,
                        !.doSslFallback = step # "SslV2"]

(* startSsl: the ladder, ignoreSslErrors, one more connection of         *)
(* encrypted() to sslConnected, startClientEncryption.                    *)
startSsl(st, v) ==
    [sslLadder(st, v) EXCEPT !.encConns = @ + 1, !.enc = "handshake"]

(* Mutant: a clean handshake leaves doSslFallback as it was. *)
sslConnectedKeepsFallback(st) ==
    IF st.advertised \in server.weak
    THEN [st EXCEPT !.sslErrs = @ + 1, !.answers = @ + 1, !.pending = FALSE]
    ELSE [st EXCEPT !.encryptedMode = TRUE, !.negotiated = TRUE,
                    !.answers = @ + 1, !.pending = FALSE]

(* sslConnected: SSL errors or a null cipher emit sslError; otherwise    *)
(* the fallback ends and encryptionNegotiationResult(true) is emitted.   *)
sslConnected(st) ==
    IF st.advertised \in server.weak
    THEN [st EXCEPT !.sslErrs = @ + 1, !.answers = @ + 1, !.pending = FALSE]
    ELSE [st EXCEPT !.doSslFallback = FALSE, !.encryptedMode = TRUE,
                    !.negotiated = TRUE, !.answers = @ + 1, !.pending = FALSE]

(* encrypted() runs every connected sslConnected, one after the other. *)
RECURSIVE sslConnectedTimes(_, _)
sslConnectedTimes(st, n) ==
    IF n = 0 THEN st ELSE sslConnectedTimes(sslConnected(st), n - 1)

(* sslErrorHandlerResponse: accept, or reconnect unencrypted (blocking   *)
(* in waitForDisconnected); either way encryptionNegotiationResult.      *)
sslErrorHandlerResponse(st, response) ==
    IF response
    THEN [st EXCEPT !.encryptedMode = TRUE, !.negotiated = TRUE]
    ELSE LET s1 == disconnectFromHost([st EXCEPT !.encryptedMode = FALSE])
         IN  [s1 EXCEPT !.sock = "Connecting", !.enc = "plain",
                        !.negotiated = TRUE]

Dispatch(st, slot) ==
    CASE slot = "reconnect"          -> reconnect(st)
      [] slot = "socketDisconnected" -> socketDisconnected(st)
      [] slot = "doCloseSocket"      -> doCloseSocket(st)
      [] slot = "readMessage"        -> readMessage(st)

(* doCloseSocket is the one queued slot that does not take m_mutex. *)
SlotLocks(slot) == slot # "doCloseSocket"
-----------------------------------------------------------------------------
(* SessionThread::SessionThread and run(): the socket is created, the    *)
(* signals connected, reconnect queued.                                  *)
Init ==
    /\ sock = "Unconnected" /\ enc = "plain" /\ advertised = "Unknown"
    /\ tried = {} /\ doSslFallback = FALSE /\ encryptedMode = FALSE
    /\ encConns = 0 /\ evq = <<"reconnect">>
    /\ pending = FALSE /\ negotiated = FALSE /\ answers = 0 /\ sslErrs = 0
    /\ faults = 0 /\ cfails = 0 /\ calls = 0 /\ req = "Any"
    /\ server \in Servers
    /\ dataQueue = <<>> /\ enq = {} /\ draining = FALSE /\ deq = {}
    /\ sent = 0 /\ handed = <<>>

(* The worker's event loop runs the oldest queued call. *)
WorkerRuns ==
    /\ ~draining /\ evq # <<>> /\ Head(evq) # "writeDataQueue"
    /\ SlotLocks(Head(evq)) => enq = {}
    /\ Commit(Dispatch([Cur EXCEPT !.evq = Tail(@)], Head(evq)))

(* The socket's signals are emitted on the worker's thread, between the *)
(* slots it runs; those reaching a slot that locks wait for m_mutex.     *)
ConnectDone ==
    /\ sock = "Connecting" /\ ~draining
    /\ Commit([Cur EXCEPT !.sock = "Connected"])

(* A connection attempt fails: error() reaches socketError directly; the *)
(* socket never was connected, so no disconnected() follows.             *)
ConnectFail ==
    /\ sock = "Connecting" /\ cfails < MaxConnectFails /\ Unlocked
    /\ Commit(socketError([Cur EXCEPT !.sock = "Unconnected", !.enc = "plain",
                                      !.cfails = @ + 1]))

(* The handshake of an advertised version the server refuses: error()   *)
(* runs socketError, then the socket is aborted.                          *)
HandshakeFail ==
    /\ sock = "Connected" /\ enc = "handshake"
    /\ advertised \notin server.accepts /\ Unlocked
    /\ Commit(disconnectFromHost(socketError(Cur)))

HandshakeDone ==
    /\ sock = "Connected" /\ enc = "handshake"
    /\ advertised \in server.accepts /\ Unlocked
    /\ Commit(sslConnectedTimes([Cur EXCEPT !.enc = "secure"], encConns))

(* The server or the network closes the link: error(RemoteHostClosed),  *)
(* then disconnected().                                                   *)
Drop ==
    /\ sock = "Connected" /\ faults < MaxFaults /\ Unlocked
    /\ Commit(disconnectFromHost(socketError([Cur EXCEPT !.faults = @ + 1])))

(* Bytes the parser cannot read arrive; readyRead is queued. *)
Garbage ==
    /\ sock = "Connected" /\ faults < MaxFaults /\ ~draining
    /\ Commit([Cur EXCEPT !.faults = @ + 1, !.evq = Append(@, "readMessage")])

(* The caller's closeSocket queues doCloseSocket. *)
closeSocket ==
    /\ sock = "Connected" /\ faults < MaxFaults /\ enq = {}
    /\ Commit([Cur EXCEPT !.faults = @ + 1,
                          !.evq = Append(@, "doCloseSocket")])

(* The caller starts encryption on a plain connection: a new request, or *)
(* the retry of a request whose link was silently reconnected.  It does  *)
(* not ask again while the user still has an SSL error prompt open.      *)
StartSsl(v) ==
    /\ sock = "Connected" /\ enc = "plain" /\ calls < MaxCalls
    /\ sslErrs = 0 /\ Unlocked
    /\ pending => v = req
    /\ Commit([startSsl(Cur, v) EXCEPT !.pending = TRUE, !.negotiated = FALSE,
                                       !.answers = 0, !.calls = @ + 1,
                                       !.req = v])

SslErrorResponse(r) ==
    /\ sslErrs > 0 /\ Unlocked
    /\ Commit(sslErrorHandlerResponse([Cur EXCEPT !.sslErrs = @ - 1], r))

(* ---- the data path ---- *)

(* Mutant: sendData without its QMutexLocker. *)
SendReadUnlocked ==
    /\ enq = {} /\ sent < MaxSends
    /\ Commit([Cur EXCEPT !.enq = {dataQueue}])

(* Mutant: sendData enqueues without queuing writeDataQueue. *)
SendWriteNoPost ==
    \E q \in enq :
        Commit([Cur EXCEPT !.dataQueue = Append(q, sent + 1),
                           !.sent = @ + 1, !.enq = {}])

(* sendData, on the caller's thread: lock m_mutex, and enqueue() reads   *)
(* the queue ...                                                          *)
SendRead ==
    /\ Unlocked /\ sent < MaxSends
    /\ Commit([Cur EXCEPT !.enq = {dataQueue}])

(* ... writes it back with the payload appended, QTimer::singleShot      *)
(* queues writeDataQueue, and the locker unlocks.                         *)
SendWrite ==
    \E q \in enq :
        Commit([Cur EXCEPT !.dataQueue = Append(q, sent + 1),
                           !.sent = @ + 1, !.enq = {},
                           !.evq = Append(@, "writeDataQueue")])

(* The worker runs writeDataQueue: it waits for m_mutex, then loops. *)
DrainStart ==
    /\ ~draining /\ enq = {} /\ evq # <<>> /\ Head(evq) = "writeDataQueue"
    /\ Commit([Cur EXCEPT !.evq = Tail(@), !.draining = TRUE])

(* while (!m_dataQueue.isEmpty()): the test reads the queue; on an empty *)
(* queue the loop ends and the locker unlocks.                           *)
DrainRead ==
    /\ draining /\ deq = {}
    /\ Commit(IF dataQueue = <<>> THEN [Cur EXCEPT !.draining = FALSE]
                                  ELSE [Cur EXCEPT !.deq = {dataQueue}])

(* m_socket->write(m_dataQueue.dequeue()): the tail is written back and *)
(* the head handed to the socket.                                        *)
DrainWrite ==
    \E q \in deq :
        Commit([Cur EXCEPT !.dataQueue = Tail(q), !.deq = {},
                           !.handed = Append(@, Head(q))])

Next ==
    \/ WorkerRuns \/ ConnectDone \/ ConnectFail \/ HandshakeFail
    \/ HandshakeDone \/ Drop \/ Garbage \/ closeSocket
    \/ \E v \in CallVersions : StartSsl(v)
    \/ \E r \in UserResponses : SslErrorResponse(r)
    \/ SendRead \/ SendWrite \/ DrainStart \/ DrainRead \/ DrainWrite

(* The worker's event loop, the socket and the server make progress; the *)
(* caller retries startSsl when the link it waits on comes back (the     *)
(* session restarts its login job on connected()), and the user answers  *)
(* every SSL error prompt.  A thread inside sendData or writeDataQueue   *)
(* runs on to its unlock.  Faults, closes and new requests and sends are  *)
(* not fair.                                                             *)
Fairness ==
    /\ WF_vars(WorkerRuns)
    /\ WF_vars(SendWrite) /\ WF_vars(DrainStart)
    /\ WF_vars(DrainRead) /\ WF_vars(DrainWrite)
    /\ WF_vars(ConnectDone)
    /\ WF_vars(HandshakeFail)
    /\ WF_vars(HandshakeDone)
    /\ WF_vars(pending /\ StartSsl(req))
    /\ WF_vars(\E r \in UserResponses : SslErrorResponse(r))

Spec == Init /\ [][Next]_vars /\ Fairness
-----------------------------------------------------------------------------
TypeOK ==
    /\ server \in Servers
    /\ sock \in {"Unconnected", "Connecting", "Connected"}
    /\ enc \in {"plain", "handshake", "secure"}
    /\ advertised \in Advertised /\ tried \subseteq Versions
    /\ doSslFallback \in BOOLEAN /\ encryptedMode \in BOOLEAN
    /\ encConns \in Nat /\ evq \in Seq({"reconnect", "socketDisconnected",
                                        "doCloseSocket", "readMessage",
                                        "writeDataQueue"})
    /\ pending \in BOOLEAN /\ negotiated \in BOOLEAN
    /\ answers \in Nat /\ sslErrs \in Nat
    /\ dataQueue \in Seq(1..MaxSends) /\ handed \in Seq(1..MaxSends)
    /\ enq \subseteq Seq(1..MaxSends) /\ deq \subseteq Seq(1..MaxSends)
    /\ draining \in BOOLEAN /\ sent \in 0..MaxSends

(* Once the caller holds the encryption result of a link, losing that     *)
(* link is reported to the session (socketError or socketDisconnected)   *)
(* before the thread connects again: socketError and socketDisconnected  *)
(* swallow a loss only while doSslFallback is set.  Stated for servers    *)
(* whose handshakes raise no SSL errors: accepting a prompt leaves        *)
(* doSslFallback set (sslErrorHandlerResponse), see the README.          *)
LossReported ==
    [][server.weak = {} /\ sock = "Unconnected" /\ sock' = "Connecting"
         => ~negotiated]_vars

(* Every startSsl is answered: encryptionNegotiationResult, sslError, or *)
(* an error or disconnect forwarded to the session.                       *)
StartSslAnswered == pending ~> ~pending

(* The same, for links whose every connection attempt succeeds. *)
StartSslAnsweredConnecting == [](cfails = 0) => StartSslAnswered

(* The socket is handed every payload once, in the order sendData was   *)
(* given them: m_mutex keeps the caller's enqueue and the worker's        *)
(* dequeue of m_dataQueue from interleaving.                              *)
HandedInOrder == handed = [i \in 1..Len(handed) |-> i]

(* Every payload given to sendData reaches the socket: the queued        *)
(* writeDataQueue drains what the caller enqueued.                       *)
SentHanded == (sent > Len(handed)) ~> (Len(handed) = sent)

(* One handshake runs sslConnected once: the caller gets one answer per  *)
(* startSsl.                                                              *)
OneAnswerPerStart == answers <= 1
=============================================================================
