--------------------------- MODULE SessionThread ---------------------------
(***************************************************************************)
(* The event-loop transport of src/src/sessionthread.cpp.  The object is a *)
(* plain QObject: the constructor creates no thread and moves it nowhere,  *)
(* so every call and slot runs on the one thread that owns it.  The event  *)
(* loop runs, one at a time and oldest first (evq), the calls queued with  *)
(* Qt::QueuedConnection: reconnect, readMessage (readyRead),              *)
(* doCloseSocket and the disconnected() -> slotSocketDisconnected relay.  *)
(* invokeMethod without a connection type (sendData, startSsl,           *)
(* sslErrorHandlerResponse) is a direct call, and so are the connected(),  *)
(* error() and encrypted() signals.  The caller, the user and the server   *)
(* are the environment; each of their steps is one event of the loop.      *)
(***************************************************************************)
EXTENDS Naturals, Sequences

CONSTANTS
    Outcomes,       \* handshake outcomes: "clean", "weak" (SSL errors), "refuse"
    Chunks,         \* what one readyRead may bring: sequences of "ok"/"garbage"
    UserResponses,  \* answers the user may give to an SSL error prompt
    MaxSends, MaxCalls, MaxFaults, MaxChunks

ASSUME Outcomes \subseteq {"clean", "weak", "refuse"}
       /\ UserResponses \subseteq BOOLEAN

VARIABLES
    sock, enc,      \* m_socket->state(); plain, handshake running or secure
    encryptedMode,  \* m_encryptedMode
    encConns,       \* connections of encrypted() to sslConnected
    evq,            \* the queued calls of the event loop, oldest first
    inbuf,          \* complete responses the stream parser can read
    linked,         \* the caller heard socketConnected and no loss since
    pending,        \* the caller awaits the answer to its startSsl
    prompts,        \* sslError prompts the user has not answered
    tls,            \* the caller holds encryptionNegotiationResult(true)
    dataQueue,      \* m_dataQueue
    handed,         \* payloads passed to m_socket->write(), in order
    sent, calls, faults, chunks

vars == <<sock, enc, encryptedMode, encConns, evq, inbuf, linked, pending,
          prompts, tls, dataQueue, handed, sent, calls, faults, chunks>>

Cur == [sock |-> sock, enc |-> enc, encryptedMode |-> encryptedMode,
        encConns |-> encConns, evq |-> evq, inbuf |-> inbuf,
        linked |-> linked, pending |-> pending, prompts |-> prompts,
        tls |-> tls, dataQueue |-> dataQueue, handed |-> handed,
        sent |-> sent, calls |-> calls, faults |-> faults, chunks |-> chunks]

Commit(st) ==
    /\ sock' = st.sock /\ enc' = st.enc /\ encryptedMode' = st.encryptedMode
    /\ encConns' = st.encConns /\ evq' = st.evq /\ inbuf' = st.inbuf
    /\ linked' = st.linked /\ pending' = st.pending
    /\ prompts' = st.prompts /\ tls' = st.tls
    /\ dataQueue' = st.dataQueue /\ handed' = st.handed /\ sent' = st.sent
    /\ calls' = st.calls /\ faults' = st.faults /\ chunks' = st.chunks
-----------------------------------------------------------------------------
(* A call queued to the event loop (Qt::QueuedConnection). *)
Post(st, slot) == [st EXCEPT !.evq = Append(@, slot)]

(* close(), disconnectFromHost() or abort(): a connected socket emits    *)
(* disconnected(), which is queued to slotSocketDisconnected; a socket   *)
(* still connecting is reset silently.                                    *)
closeSock(st) ==
    LET s1 == [st EXCEPT !.sock = "Unconnected", !.enc = "plain"]
    IN  IF st.sock = "Connected" THEN Post(s1, "slotSocketDisconnected")
                                 ELSE s1

(* socketDisconnected or socketError reaches the caller: the link is     *)
(* gone and its startSsl, if any, is answered.                            *)
lost(st) == [st EXCEPT !.linked = FALSE, !.pending = FALSE, !.tls = FALSE]

(* Mutant: slotSocketDisconnected does not emit socketDisconnected. *)
slotSocketDisconnectedSilent(st) == st

slotSocketDisconnected(st) == lost(st)

slotSocketError(st) == lost(st)

doCloseSocket(st) == closeSock([st EXCEPT !.encryptedMode = FALSE])

(* writeDataQueue: while (!m_dataQueue.isEmpty()) write(dequeue()). *)
writeDataQueue(st) ==
    [st EXCEPT !.handed = @ \o st.dataQueue, !.dataQueue = <<>>]

(* sendData: enqueue, then writeDataQueue through a direct invokeMethod. *)
sendData(st, payload) ==
    writeDataQueue([st EXCEPT !.dataQueue = Append(@, payload)])

(* readMessage: nothing buffered returns; bytes the parser cannot place  *)
(* close the socket and return; a response is emitted, and the slot is   *)
(* queued again while more than one byte is buffered (a whole response   *)
(* is more than one byte long).                                          *)
readMessage(st) ==
    CASE st.inbuf = <<>> -> st
      [] Head(st.inbuf) = "garbage" -> doCloseSocket(st)
      [] OTHER -> LET s1 == [st EXCEPT !.inbuf = Tail(@)]
                  IN  IF s1.inbuf # <<>> THEN Post(s1, "readMessage") ELSE s1

reconnect(st) ==
    IF st.sock \in {"Connected", "Connecting"} THEN st
    ELSE [st EXCEPT !.sock = "Connecting",
                    !.enc = IF st.encryptedMode THEN "handshake" ELSE "plain"]

(* doStartSsl: one more connection of encrypted() to sslConnected, and   *)
(* startClientEncryption, which refuses a socket that is not connected   *)
(* or not plain.                                                          *)
doStartSsl(st) ==
    [st EXCEPT !.encConns = @ + 1,
               !.enc = IF st.sock = "Connected" /\ st.enc = "plain"
                       THEN "handshake" ELSE @]

(* sslConnected: SSL errors emit sslError, a clean session sets          *)
(* m_encryptedMode and emits encryptionNegotiationResult(true).          *)
sslConnected(st, o) ==
    IF o = "weak" THEN [st EXCEPT !.prompts = @ + 1, !.pending = FALSE]
    ELSE [st EXCEPT !.encryptedMode = TRUE, !.tls = TRUE, !.pending = FALSE]

RECURSIVE sslConnectedTimes(_, _, _)
sslConnectedTimes(st, o, n) ==
    IF n = 0 THEN st ELSE sslConnectedTimes(sslConnected(st, o), o, n - 1)

(* doSslErrorHandlerResponse: accept, or disconnect, wait for it, connect *)
(* again unencrypted and emit encryptionNegotiationResult(false); the     *)
(* disconnected() of the old link is queued, and reaches the caller only  *)
(* when the event loop runs it.                                            *)
doSslErrorHandlerResponse(st, response) ==
    IF response
    THEN [st EXCEPT !.encryptedMode = TRUE, !.tls = TRUE, !.pending = FALSE]
    ELSE [closeSock([st EXCEPT !.encryptedMode = FALSE])
             EXCEPT !.sock = "Connecting", !.enc = "plain", !.tls = FALSE,
                    !.pending = FALSE]

Dispatch(st, slot) ==
    CASE slot = "reconnect"              -> reconnect(st)
      [] slot = "readMessage"            -> readMessage(st)
      [] slot = "doCloseSocket"          -> doCloseSocket(st)
      [] slot = "slotSocketDisconnected" -> slotSocketDisconnected(st)
-----------------------------------------------------------------------------
(* The constructor: socket and parser created, signals connected, and    *)
(* reconnect queued.                                                      *)
Init ==
    /\ sock = "Unconnected" /\ enc = "plain" /\ encryptedMode = FALSE
    /\ encConns = 0 /\ evq = <<"reconnect">> /\ inbuf = <<>>
    /\ linked = FALSE /\ pending = FALSE /\ prompts = 0 /\ tls = FALSE
    /\ dataQueue = <<>> /\ handed = <<>>
    /\ sent = 0 /\ calls = 0 /\ faults = 0 /\ chunks = 0

(* The event loop runs the oldest queued call. *)
LoopRuns ==
    /\ evq # <<>>
    /\ Commit(Dispatch([Cur EXCEPT !.evq = Tail(@)], Head(evq)))

(* ---- the socket and the server ---- *)

(* connected() is re-emitted as socketConnected. *)
ConnectDone ==
    /\ sock = "Connecting"
    /\ Commit([Cur EXCEPT !.sock = "Connected", !.linked = TRUE])

(* A connection attempt fails: error() reaches slotSocketError, which    *)
(* emits socketError; no disconnected() follows.                          *)
ConnectFail ==
    /\ sock = "Connecting" /\ faults < MaxFaults
    /\ Commit(slotSocketError([Cur EXCEPT !.sock = "Unconnected",
                                          !.enc = "plain",
                                          !.faults = @ + 1]))

(* The handshake ends: encrypted() runs every connected sslConnected, or *)
(* the refusal's error() runs slotSocketError and the socket is aborted. *)
HandshakeEnd(o) ==
    /\ sock = "Connected" /\ enc = "handshake"
    /\ Commit(IF o = "refuse" THEN closeSock(slotSocketError(Cur))
              ELSE sslConnectedTimes([Cur EXCEPT !.enc = "secure"], o,
                                     encConns))

(* The server closes the link: error(RemoteHostClosed), disconnected(). *)
Drop ==
    /\ sock = "Connected" /\ faults < MaxFaults
    /\ Commit(closeSock(slotSocketError([Cur EXCEPT !.faults = @ + 1])))

(* Data arrives; readyRead is queued to readMessage. *)
Arrive(c) ==
    /\ sock = "Connected" /\ chunks < MaxChunks
    /\ Commit(Post([Cur EXCEPT !.inbuf = @ \o c, !.chunks = @ + 1],
                   "readMessage"))

(* ---- the caller ---- *)

SendData ==
    /\ sent < MaxSends
    /\ Commit(sendData([Cur EXCEPT !.sent = @ + 1], sent + 1))

closeSocket ==
    /\ linked /\ faults < MaxFaults
    /\ Commit(Post([Cur EXCEPT !.faults = @ + 1], "doCloseSocket"))

(* startSsl on a link the caller holds plain, with no prompt open: a     *)
(* direct call of doStartSsl.                                             *)
startSsl ==
    /\ linked /\ ~pending /\ ~tls /\ prompts = 0 /\ calls < MaxCalls
    /\ Commit(doStartSsl([Cur EXCEPT !.pending = TRUE, !.calls = @ + 1]))

(* The user answers a prompt: a direct call of doSslErrorHandlerResponse. *)
sslErrorHandlerResponse(r) ==
    /\ prompts > 0
    /\ Commit(doSslErrorHandlerResponse([Cur EXCEPT !.prompts = @ - 1], r))

Next ==
    \/ LoopRuns
    \/ ConnectDone \/ ConnectFail \/ \E o \in Outcomes : HandshakeEnd(o)
    \/ Drop \/ \E c \in Chunks : Arrive(c)
    \/ SendData \/ closeSocket \/ startSsl
    \/ \E r \in UserResponses : sslErrorHandlerResponse(r)

(* The event loop delivers its queued calls and socket events, a running  *)
(* connect or handshake ends, and the user answers every prompt.  Faults, *)
(* arrivals and the caller's requests are not fair.                       *)
Fairness ==
    /\ WF_vars(LoopRuns)
    /\ WF_vars(ConnectDone) /\ WF_vars(\E o \in Outcomes : HandshakeEnd(o))
    /\ WF_vars(\E r \in UserResponses : sslErrorHandlerResponse(r))

Spec == Init /\ [][Next]_vars /\ Fairness
-----------------------------------------------------------------------------
(* Every startSsl, and every answer to an SSL error prompt, is answered: *)
(* encryptionNegotiationResult, sslError, socketError or                  *)
(* socketDisconnected reaches the caller, also when startClientEncryption *)
(* refuses a socket that a rejected prompt is still reconnecting, whose   *)
(* only answer is the old link's queued socketDisconnected.               *)
EncryptionAnswered == pending ~> ~pending
=============================================================================
