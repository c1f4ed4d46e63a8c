------------------------------- MODULE Session -------------------------------
(***************************************************************************)
(* The KIMAP2 session core of src/src/session.cpp: job queue dispatcher,   *)
(* tag allocator, writer, response reader and router, session state       *)
(* machine, inactivity timer and the socket event handlers, together with  *)
(* the QSslSocket, the network and an IMAP server as the environment.      *)
(*                                                                         *)
(* All of SessionPrivate lives on one Qt event loop, so every slot runs    *)
(* atomically.  A slot that calls another slot directly (startNext,        *)
(* sendData and jobDone are invokeMethod calls with AutoConnection, hence   *)
(* direct calls) is composed inside one action.  Handlers are written as   *)
(* functions from a record of the whole state (Cur) to the next record,    *)
(* so nested calls compose in the order the code makes them; Commit turns  *)
(* the final record into the primed variables.                             *)
(*                                                                         *)
(* Data is abstracted: a response is [tag, code], where tag is a positive  *)
(* integer for "A00000n", Untagged for "*" and EmptyTag for a response     *)
(* with no parts (an empty QByteArray, equal to a cleared tracked tag); a  *)
(* job is a model value that sends one command (JobCmd) when started.      *)
(***************************************************************************)
EXTENDS Integers, Sequences, FiniteSets, SequencesExt

CONSTANTS
    Jobs,            \* the KIMAP2::Job objects a caller may add
    JobCmd,          \* JobCmd[j]: the IMAP command job j sends in doStart
    JobArg,          \* JobArg[j]: the args bytes job j passes to sendCommand
    MailBoxes,       \* the mailbox names SELECT/EXAMINE jobs ask for
    NoMailBox,       \* the empty QByteArray
    NoJob,           \* the null Job pointer
    GreetCodes,      \* status words a server may greet with
    ReplyCodes,      \* status words of a tagged completion
    Unsolicited,     \* untagged responses the server may send at any time
    MaxUnsolicited,  \* bound on unsolicited responses per run
    MaxDeletes,      \* bound on jobs the caller deletes before they finish
    TimeoutSettings, \* TRUE: socketTimerInterval >= 0, FALSE: disabled
    AllowClose,      \* whether the caller may call Session::close()
    AllowDestroy     \* whether the caller may delete the Session

Untagged == -1
EmptyTag == 0
Fault == [tag |-> Untagged, code |-> "INCONSISTENT"]  \* unparsable bytes

ASSUME /\ JobCmd \in [Jobs -> {"LOGIN", "AUTHENTICATE", "SELECT", "EXAMINE",
                               "CLOSE", "NOOP"}]
       /\ \A j \in Jobs : JobArg[j] \in Seq(STRING)
       /\ NoMailBox = <<>> /\ MailBoxes \subseteq Seq(STRING)
       /\ NoJob \notin Jobs
       /\ MaxUnsolicited \in Nat /\ MaxDeletes \in Nat
       /\ TimeoutSettings \subseteq BOOLEAN /\ TRUE \in TimeoutSettings

States == {"Disconnected", "NotAuthenticated", "Authenticated", "Selected"}
SockStates == {"Unconnected", "Connecting", "Connected", "Closing"}
Tags == {Untagged, EmptyTag} \cup 1..Cardinality(Jobs)
Msgs == [tag : Tags, code : GreetCodes \cup ReplyCodes \cup
                          {m.code : m \in Unsolicited} \cup {Fault.code}]

VARIABLES
    \* SessionPrivate
    state, isSocketConnected, jobRunning, currentJob, queue, tagCount,
    authTag, selectTag, closeTag, upcomingMailBox, currentMailBox,
    timerActive,      \* socketTimer.isActive()
    timeoutOn,        \* socketTimerInterval >= 0
    readQueued,       \* queued invocations of readMessage
    reconnectQueued,  \* the queued reconnect of the constructor
    asserted,         \* every Q_ASSERT reached so far held (debug build)
    alive,            \* the Session (and its SessionPrivate) exists
    \* QSslSocket, network and server
    sock,             \* socket->state()
    wire,             \* tags of commands written, not yet answered
    net,              \* responses sent by the server, not yet arrived
    rx,               \* responses arrived, not yet parsed (parser buffer)
    bytesPending,     \* a bytesWritten signal is due
    srvOpen, srvGreeted, unsolicited,
    \* the jobs, as the session's collaborators see them
    jstate,           \* "new", "queued", "started", "done", "deleted"
    jtag,             \* the tag of the command the job sent, 0 if none
    inbox,            \* tags of the responses handed to handleResponse
    deletes

sessionVars == <<state, isSocketConnected, jobRunning, currentJob, queue,
                 tagCount, authTag, selectTag, closeTag, upcomingMailBox,
                 currentMailBox, timerActive, timeoutOn, readQueued,
                 reconnectQueued, asserted, alive>>
envVars == <<sock, wire, net, rx, bytesPending, srvOpen, srvGreeted,
             unsolicited, jstate, jtag, inbox, deletes>>
vars == <<sessionVars, envVars>>

Cur == [state |-> state, isSocketConnected |-> isSocketConnected,
        jobRunning |-> jobRunning, currentJob |-> currentJob, queue |-> queue,
        tagCount |-> tagCount, authTag |-> authTag, selectTag |-> selectTag,
        closeTag |-> closeTag, upcomingMailBox |-> upcomingMailBox,
        currentMailBox |-> currentMailBox, timerActive |-> timerActive,
        timeoutOn |-> timeoutOn, readQueued |-> readQueued,
        reconnectQueued |-> reconnectQueued, asserted |-> asserted,
        alive |-> alive,
        sock |-> sock, wire |-> wire,
        net |-> net, rx |-> rx, bytesPending |-> bytesPending,
        srvOpen |-> srvOpen, srvGreeted |-> srvGreeted,
        unsolicited |-> unsolicited, jstate |-> jstate, jtag |-> jtag,
        inbox |-> inbox, deletes |-> deletes]

(* The next state is the record st, evaluated once. *)
Commit(st) ==
  \E s \in {st} :
    /\ state' = s.state /\ isSocketConnected' = s.isSocketConnected
    /\ jobRunning' = s.jobRunning /\ currentJob' = s.currentJob
    /\ queue' = s.queue /\ tagCount' = s.tagCount
    /\ authTag' = s.authTag /\ selectTag' = s.selectTag
    /\ closeTag' = s.closeTag /\ upcomingMailBox' = s.upcomingMailBox
    /\ currentMailBox' = s.currentMailBox /\ timerActive' = s.timerActive
    /\ timeoutOn' = s.timeoutOn /\ readQueued' = s.readQueued
    /\ reconnectQueued' = s.reconnectQueued /\ asserted' = s.asserted
    /\ alive' = s.alive
    /\ sock' = s.sock
    /\ wire' = s.wire /\ net' = s.net /\ rx' = s.rx
    /\ bytesPending' = s.bytesPending /\ srvOpen' = s.srvOpen
    /\ srvGreeted' = s.srvGreeted /\ unsolicited' = s.unsolicited
    /\ jstate' = s.jstate /\ jtag' = s.jtag /\ inbox' = s.inbox
    /\ deletes' = s.deletes
-----------------------------------------------------------------------------
(* Inactivity timer.  With a negative interval start and stop do nothing. *)

startSocketTimer(st) ==
    IF ~st.timeoutOn THEN st
    ELSE [st EXCEPT !.timerActive = TRUE, !.asserted = @ /\ ~st.timerActive]

stopSocketTimer(st) ==
    IF ~st.timeoutOn THEN st ELSE [st EXCEPT !.timerActive = FALSE]

restartSocketTimer(st) == startSocketTimer(stopSocketTimer(st))

(* socketActivity: bytesWritten, encryptedBytesWritten and readyRead. *)
socketActivity(st) == restartSocketTimer(st)

setState(st, s) == [st EXCEPT !.state = s]

(* The socket drops to UnconnectedState: its buffers and the connection  *)
(* go; the parser's own buffer (rx) keeps what it has already read.      *)
SocketGone(st) ==
    [st EXCEPT !.sock = "Unconnected", !.wire = <<>>, !.net = <<>>,
               !.bytesPending = FALSE, !.srvOpen = FALSE]

(* sendData + writeDataQueue: the queue is drained by a direct call, so  *)
(* the bytes go to socket->write at once; a closed device drops them.   *)
sendData(st, tag) ==
    LET s1 == restartSocketTimer(st)
    IN  IF s1.sock = "Connected"
        THEN [s1 EXCEPT !.wire = Append(@, tag), !.bytesPending = TRUE]
        ELSE s1

(* QByteArray::indexOf(c): the 0-based index of the first c, or -1. *)
indexOf(s, c) == SelectInSeq(s, LAMBDA x : x = c) - 1

(* QByteArray::left(n): the whole array when n >= size, else the first   *)
(* n bytes, none when n < 0.                                             *)
left(s, n) == IF n >= Len(s) THEN s ELSE IF n < 0 THEN <<>> ELSE SubSeq(s, 1, n)

(* sendCommand's upcomingMailBox for SELECT/EXAMINE: remove(0, 1), then  *)
(* left(indexOf('"')).  decodeImapFolderName (mUTF-7) changes nothing on *)
(* the names of the runs, which have no '&'.                             *)
upcomingMailBoxOf(args) ==
    LET s == IF args = <<>> THEN args ELSE Tail(args)
    IN  left(s, indexOf(s, "\""))

(* Mutant: the tag counter advances twice per command. *)
sendCommandSkipsTag(st, j) ==
    LET tag == st.tagCount + 2
        s1  == sendData([st EXCEPT !.tagCount = tag, !.jtag[j] = tag], tag)
    IN  [s1 EXCEPT !.authTag = IF JobCmd[j] \in {"LOGIN", "AUTHENTICATE"}
                               THEN tag ELSE @]

(* sendCommand: allocate ++tagCount, write, remember the tracked tags.   *)
sendCommand(st, j) ==
    LET tag == st.tagCount + 1
        cmd == JobCmd[j]
        s1  == sendData([st EXCEPT !.tagCount = tag, !.jtag[j] = tag], tag)
    IN  CASE cmd \in {"LOGIN", "AUTHENTICATE"} -> [s1 EXCEPT !.authTag = tag]
          [] cmd \in {"SELECT", "EXAMINE"} ->
                [s1 EXCEPT !.selectTag = tag,
                           !.upcomingMailBox = upcomingMailBoxOf(JobArg[j])]
          [] cmd = "CLOSE" -> [s1 EXCEPT !.closeTag = tag]
          [] OTHER -> s1

(* Job::doStart of the collaborator: the job sends its one command.      *)
doStart(st, j) == sendCommand([st EXCEPT !.jstate[j] = "started"], j)

(* Mutant: doStartNext without the jobRunning test. *)
doStartNextIgnoresRunning(st) ==
    IF st.queue = <<>> \/ ~st.isSocketConnected
    THEN st
    ELSE doStart([restartSocketTimer(st) EXCEPT !.jobRunning = TRUE,
                      !.currentJob = Head(st.queue), !.queue = Tail(@)],
                 Head(st.queue))

(* startNext + doStartNext (invokeMethod without a connection type is a  *)
(* direct call on the session's own thread).                             *)
doStartNext(st) ==
    IF st.queue = <<>> \/ st.jobRunning \/ ~st.isSocketConnected
    THEN st
    ELSE LET j  == Head(st.queue)
             s1 == restartSocketTimer(st)
         IN  doStart([s1 EXCEPT !.jobRunning = TRUE, !.currentJob = j,
                                !.queue = Tail(@)], j)

(* Mutants: jobDone that leaves currentJob set; jobDone that does not   *)
(* start the next job.                                                  *)
jobDoneKeepsCurrent(st, j) ==
    doStartNext([stopSocketTimer(st) EXCEPT !.jobRunning = FALSE,
                     !.asserted = @ /\ j = st.currentJob])

jobDoneNoStartNext(st, j) ==
    [stopSocketTimer(st) EXCEPT !.jobRunning = FALSE, !.currentJob = NoJob,
                                !.asserted = @ /\ j = st.currentJob]

(* jobDone, the slot connected to KJob::result: Q_ASSERT(job ==         *)
(* currentJob), then reset and start the next job.                      *)
jobDone(st, j) ==
    LET s1 == stopSocketTimer(st)
    IN  doStartNext([s1 EXCEPT !.jobRunning = FALSE, !.currentJob = NoJob,
                               !.asserted = @ /\ j = st.currentJob])

(* The job emits its result (KJob::emitResult), which calls jobDone.     *)
emitResult(st, j) == jobDone([st EXCEPT !.jstate[j] = "done"], j)

(* Job::handleResponse of the collaborator: the job completes on the     *)
(* tagged response that carries its own tag.                             *)
handleResponse(st, j, msg) ==
    LET s1 == [st EXCEPT !.inbox[j] = Append(@, msg.tag)]
    IN  IF st.jtag[j] # 0 /\ msg.tag = st.jtag[j] THEN emitResult(s1, j)
                                                   ELSE s1

(* Mutant: jobDestroyed forgets the job but leaves it in the queue. *)
jobDestroyedKeepsQueue(st, j) ==
    [st EXCEPT !.currentJob = IF @ = j THEN NoJob ELSE @]

(* jobDestroyed, the slot connected to QObject::destroyed. *)
jobDestroyed(st, j) ==
    [st EXCEPT !.queue = Remove(@, j),
               !.currentJob = IF @ = j THEN NoJob ELSE @]

(* Mutant: the first queued job is told connectionLost without being     *)
(* taken from the queue as currentJob.                                   *)
clearJobQueueNoTake(st) ==
    LET s1 == IF st.currentJob # NoJob
              THEN emitResult(st, st.currentJob)
              ELSE IF st.queue # <<>>
              THEN emitResult(st, Head(st.queue))
              ELSE st
    IN  [s1 EXCEPT !.jstate = [j \in Jobs |->
                                 IF Contains(s1.queue, j) THEN "deleted"
                                                          ELSE @[j]],
                   !.queue = <<>>]

(* clearJobQueue: connectionLost (which emits the result) on the current *)
(* or first queued job, then delete every job still queued.              *)
clearJobQueue(st) ==
    LET s1 == IF st.currentJob # NoJob
              THEN emitResult(st, st.currentJob)
              ELSE IF st.queue # <<>>
              THEN emitResult([st EXCEPT !.currentJob = Head(st.queue),
                                         !.queue = Tail(@)], Head(st.queue))
              ELSE st
    IN  [s1 EXCEPT !.jstate = [j \in Jobs |->
                                 IF Contains(s1.queue, j) THEN "deleted"
                                                          ELSE @[j]],
                   !.queue = <<>>]

(* Mutant: socketDisconnected that leaves the job queue alone. *)
socketDisconnectedKeepsQueue(st) ==
    [setState(stopSocketTimer(st), "Disconnected") EXCEPT
         !.isSocketConnected = FALSE]

socketDisconnected(st) ==
    LET s1 == stopSocketTimer(st)
        s2 == setState(s1, "Disconnected")
    IN  clearJobQueue([s2 EXCEPT !.isSocketConnected = FALSE])

(* socket->close(): a connected socket with written bytes still to flush *)
(* to an open peer enters ClosingState and reports UnconnectedState      *)
(* later (SocketClosed).  Otherwise (nothing left to write, or the peer  *)
(* already closed) it is reset at once, as is one still connecting, and  *)
(* the stateChanged(Unconnected) lambda runs socketDisconnected inside   *)
(* the call.                                                             *)
closeSocket(st) ==
    CASE st.sock = "Connected" /\ st.bytesPending /\ st.srvOpen
                                -> [st EXCEPT !.sock = "Closing"]
      [] st.sock \in {"Connected", "Connecting"}
                                -> socketDisconnected(SocketGone(st))
      [] OTHER                  -> st

(* socket->abort(): reset now; stateChanged(Unconnected) is emitted.     *)
abort(st) ==
    IF st.sock = "Unconnected" THEN st
    ELSE socketDisconnected(SocketGone(st))

socketError(st) ==
    LET s1 == stopSocketTimer(st)
        s2 == IF s1.currentJob = NoJob /\ s1.queue # <<>>
              THEN [s1 EXCEPT !.currentJob = Head(s1.queue), !.queue = Tail(@)]
              ELSE s1    \* setSocketError only records the error in the job
    IN  IF s2.isSocketConnected THEN closeSocket(s2) ELSE s2

(* Mutant: in Selected, any answer to CLOSE deselects. *)
stateTransitionIgnoresCode(st, msg) ==
    LET tag == msg.tag
        ok  == msg.code = "OK"
    IN CASE st.state = "NotAuthenticated" /\ ok /\ tag = st.authTag ->
              setState(st, "Authenticated")
         [] st.state = "Authenticated" /\ ok /\ tag = st.selectTag ->
              [setState(st, "Selected") EXCEPT
                   !.currentMailBox = st.upcomingMailBox]
         [] st.state = "Selected" /\ (tag = st.closeTag \/
                                     (~ok /\ tag = st.selectTag)) ->
              [setState(st, "Authenticated") EXCEPT
                   !.currentMailBox = NoMailBox]
         [] st.state = "Selected" /\ ok /\ tag = st.selectTag ->
              [st EXCEPT !.currentMailBox = st.upcomingMailBox]
         [] OTHER -> st

(* The switch on state in responseReceived, for every state but          *)
(* Disconnected (which returns before the tags and the job are reached). *)
stateTransition(st, msg) ==
    LET tag == msg.tag
        ok  == msg.code = "OK"
    IN CASE st.state = "NotAuthenticated" /\ ok /\ tag = st.authTag ->
              setState(st, "Authenticated")
         [] st.state = "Authenticated" /\ ok /\ tag = st.selectTag ->
              [setState(st, "Selected") EXCEPT
                   !.currentMailBox = st.upcomingMailBox]
         [] st.state = "Selected" /\ ((ok /\ tag = st.closeTag) \/
                                     (~ok /\ tag = st.selectTag)) ->
              [setState(st, "Authenticated") EXCEPT
                   !.currentMailBox = NoMailBox]
         [] st.state = "Selected" /\ ok /\ tag = st.selectTag ->
              [st EXCEPT !.currentMailBox = st.upcomingMailBox]
         [] OTHER -> st

(* Tracked tags equal to the response's tag are cleared. *)
clearTrackedTags(st, tag) ==
    [st EXCEPT !.authTag   = IF @ = tag THEN EmptyTag ELSE @,
               !.selectTag = IF @ = tag THEN EmptyTag ELSE @,
               !.closeTag  = IF @ = tag THEN EmptyTag ELSE @]

responseReceived(st, msg) ==
    CASE msg.code = "BYE" -> st          \* wait for the server to close
      [] st.state = "Disconnected" ->
           LET s1 == stopSocketTimer(st)
           IN  CASE msg.code = "OK"      -> setState(s1, "NotAuthenticated")
                 [] msg.code = "PREAUTH" -> setState(s1, "Authenticated")
                 [] OTHER                -> closeSocket(s1)   \* rejected
      [] OTHER ->
           LET s1 == clearTrackedTags(stateTransition(st, msg), msg.tag)
           IN  IF s1.currentJob # NoJob
               THEN handleResponse(restartSocketTimer(s1), s1.currentJob, msg)
               ELSE s1                     \* logged: no job to handle it

(* readMessage: one response per call.  An unparsable response aborts   *)
(* the socket; otherwise the buffer is trimmed, the response routed,    *)
(* and a further call queued if data is left.                           *)
readMessage(st) ==
    IF st.rx = <<>> THEN st
    ELSE IF Head(st.rx) = Fault THEN abort(st)
    ELSE LET s1 == responseReceived([st EXCEPT !.rx = Tail(@)], Head(st.rx))
         IN  IF s1.rx # <<>> THEN [s1 EXCEPT !.readQueued = @ + 1] ELSE s1
-----------------------------------------------------------------------------
(* Session::Session: state Disconnected, timer started with the default  *)
(* 30 s interval, reconnect queued.                                      *)
Init ==
    /\ state = "Disconnected" /\ isSocketConnected = FALSE
    /\ jobRunning = FALSE /\ currentJob = NoJob /\ queue = <<>>
    /\ tagCount = 0 /\ authTag = EmptyTag /\ selectTag = EmptyTag
    /\ closeTag = EmptyTag
    /\ upcomingMailBox = NoMailBox /\ currentMailBox = NoMailBox
    /\ timeoutOn = TRUE /\ timerActive = TRUE
    /\ readQueued = 0 /\ reconnectQueued = TRUE /\ asserted = TRUE
    /\ alive = TRUE
    /\ sock = "Unconnected" /\ wire = <<>> /\ net = <<>> /\ rx = <<>>
    /\ bytesPending = FALSE /\ srvOpen = FALSE /\ srvGreeted = FALSE
    /\ unsolicited = 0
    /\ jstate = [j \in Jobs |-> "new"] /\ jtag = [j \in Jobs |-> 0]
    /\ inbox = [j \in Jobs |-> <<>>] /\ deletes = 0

(* ---- calls of the session's users ---- *)

addJob(j) ==
    /\ jstate[j] = "new"
    /\ Commit(doStartNext([Cur EXCEPT !.queue = Append(@, j),
                                      !.jstate[j] = "queued"]))

(* The caller deletes a job that has not finished (QObject::destroyed). *)
DeleteJob(j) ==
    /\ jstate[j] \in {"queued", "started"} /\ deletes < MaxDeletes
    /\ Commit(jobDestroyed([Cur EXCEPT !.jstate[j] = "deleted",
                                       !.deletes = @ + 1], j))

close ==
    /\ AllowClose /\ sock \in {"Connecting", "Connected"}
    /\ Commit(closeSocket(Cur))

(* setTimeout / setSocketTimeout: restart an active timer with the new  *)
(* interval.                                                            *)
setSocketTimeout(on) ==
    /\ on # timeoutOn
    /\ LET s1 == IF timerActive THEN stopSocketTimer(Cur) ELSE Cur
           s2 == [s1 EXCEPT !.timeoutOn = on]
       IN  Commit(IF timerActive THEN startSocketTimer(s2) ELSE s2)

(* ---- events of the event loop ---- *)

(* The queued reconnect: the guard is always false (a socket is never   *)
(* both connected and connecting), so connectToHost is always called.   *)
reconnect ==
    /\ reconnectQueued
    /\ Commit([Cur EXCEPT !.reconnectQueued = FALSE,
                          !.sock = IF @ = "Unconnected" THEN "Connecting"
                                                        ELSE @])

socketConnected ==
    /\ sock = "Connecting"
    /\ Commit(doStartNext([Cur EXCEPT !.sock = "Connected", !.srvOpen = TRUE,
                                      !.isSocketConnected = TRUE]))

(* Host lookup or connect fails: error(), then stateChanged(Unconnected). *)
ConnectFailed ==
    /\ sock = "Connecting"
    /\ Commit(socketDisconnected(socketError(SocketGone(Cur))))

(* readyRead: k responses arrive together; readMessage runs, then        *)
(* socketActivity (the order the two slots are connected in).           *)
ReadyRead ==
    /\ sock = "Connected" /\ net # <<>>
    /\ \E k \in 1..Len(net) :
          Commit(socketActivity(readMessage(
              [Cur EXCEPT !.rx = @ \o SubSeq(net, 1, k),
                          !.net = SubSeq(@, k + 1, Len(@))])))

QueuedReadMessage ==
    /\ readQueued > 0
    /\ Commit(readMessage([Cur EXCEPT !.readQueued = @ - 1]))

BytesWritten ==
    /\ bytesPending /\ sock = "Connected"
    /\ Commit(socketActivity([Cur EXCEPT !.bytesPending = FALSE]))

(* The server's FIN arrives after its data: RemoteHostClosedError. *)
RemoteHostClosed ==
    /\ sock = "Connected" /\ ~srvOpen /\ net = <<>>
    /\ Commit(socketError(Cur))

(* A closing socket reaches UnconnectedState. *)
SocketClosed ==
    /\ sock = "Closing"
    /\ Commit(socketDisconnected(SocketGone(Cur)))

onSocketTimeout ==
    /\ timerActive
    /\ Commit(abort([Cur EXCEPT !.timerActive = FALSE]))

(* ---- the IMAP server ---- *)

ServerGreets(c) ==
    /\ sock = "Connected" /\ srvOpen /\ ~srvGreeted
    /\ net' = Append(net, [tag |-> Untagged, code |-> c])
    /\ srvGreeted' = TRUE
    /\ srvOpen' = (c \in {"OK", "PREAUTH"})  \* else the server hangs up
    /\ UNCHANGED <<sessionVars, sock, wire, rx, bytesPending,
                   unsolicited, jstate, jtag, inbox, deletes>>

ServerReplies(c) ==
    /\ srvOpen /\ srvGreeted /\ wire # <<>>
    /\ net' = Append(net, [tag |-> Head(wire), code |-> c])
    /\ wire' = Tail(wire)
    /\ UNCHANGED <<sessionVars, sock, rx, bytesPending, srvOpen, srvGreeted,
                   unsolicited, jstate, jtag, inbox, deletes>>

ServerSendsUntagged(m) ==
    /\ srvOpen /\ srvGreeted /\ unsolicited < MaxUnsolicited
    /\ net' = Append(net, m)
    /\ unsolicited' = unsolicited + 1
    /\ srvOpen' = (m.code # "BYE")  \* the server closes after a BYE
    /\ UNCHANGED <<sessionVars, sock, wire, rx, bytesPending,
                   srvGreeted, jstate, jtag, inbox, deletes>>

ServerCloses ==
    /\ srvOpen /\ sock = "Connected"
    /\ srvOpen' = FALSE
    /\ UNCHANGED <<sessionVars, sock, wire, net, rx, bytesPending,
                   srvGreeted, unsolicited, jstate, jtag, inbox, deletes>>

(* Session::~Session: clearJobQueue, then delete d, which takes the     *)
(* socket, the timer and every queued call of the session with it.       *)
Destroy ==
    /\ AllowDestroy /\ alive
    /\ Commit([clearJobQueue(Cur) EXCEPT !.alive = FALSE])

-----------------------------------------------------------------------------
User == \/ \E j \in Jobs : addJob(j) \/ DeleteJob(j)
        \/ close
        \/ \E on \in TimeoutSettings : setSocketTimeout(on)

Server == \/ \E c \in GreetCodes : ServerGreets(c)
          \/ \E c \in ReplyCodes : ServerReplies(c)
          \/ \E m \in Unsolicited : ServerSendsUntagged(m)
          \/ ServerCloses

EventLoop == \/ reconnect \/ socketConnected \/ ConnectFailed
             \/ ReadyRead \/ QueuedReadMessage \/ BytesWritten
             \/ RemoteHostClosed \/ SocketClosed \/ onSocketTimeout

Next == \/ alive /\ (User \/ Server \/ EventLoop)
        \/ Destroy

(* The event loop delivers every pending event and the network delivers  *)
(* every sent byte; a connect attempt ends; a running timer eventually   *)
(* expires once the (finitely many) activities that restart it stop.    *)
(* The caller and the server are under no obligation.                    *)
(* Each conjunct is weak fairness of one action, WF_vars(A), written as  *)
(* []<>~G \/ []<><<A>>_vars with G the action's guard: Commit is always  *)
(* satisfiable and every one of these steps changes a variable, so G is  *)
(* ENABLED <<A>>_vars (and TLC need not evaluate ENABLED).               *)
Fairness ==
    /\ []<>(~reconnectQueued) \/ []<><<reconnect>>_vars
    /\ []<>(sock # "Connecting")
          \/ []<><<socketConnected \/ ConnectFailed>>_vars
    /\ []<>(sock # "Connected" \/ net = <<>>) \/ []<><<ReadyRead>>_vars
    /\ []<>(readQueued = 0) \/ []<><<QueuedReadMessage>>_vars
    /\ []<>(~bytesPending \/ sock # "Connected") \/ []<><<BytesWritten>>_vars
    /\ []<>(sock # "Connected" \/ srvOpen \/ net # <<>>)
          \/ []<><<RemoteHostClosed>>_vars
    /\ []<>(sock # "Closing") \/ []<><<SocketClosed>>_vars
    /\ []<>(~timerActive) \/ []<><<onSocketTimeout>>_vars

Spec == Init /\ [][Next]_vars /\ Fairness

(* A server that greets and answers every command it receives (weak     *)
(* fairness in the same guard form).                                     *)
ServerFairness ==
    /\ []<>(~(sock = "Connected" /\ srvOpen /\ ~srvGreeted))
          \/ []<><<\E c \in GreetCodes : ServerGreets(c)>>_vars
    /\ []<>(~(srvOpen /\ srvGreeted /\ wire # <<>>))
          \/ []<><<\E c \in ReplyCodes : ServerReplies(c)>>_vars

FairServerSpec == Spec /\ ServerFairness
-----------------------------------------------------------------------------
TypeOK ==
    /\ state \in States /\ sock \in SockStates
    /\ isSocketConnected \in BOOLEAN /\ jobRunning \in BOOLEAN
    /\ currentJob \in Jobs \cup {NoJob}
    /\ queue \in Seq(Jobs) /\ tagCount \in 0..Cardinality(Jobs)
    /\ {authTag, selectTag, closeTag} \subseteq {EmptyTag} \cup 1..tagCount
    /\ {upcomingMailBox, currentMailBox} \subseteq Seq(STRING)
    /\ timerActive \in BOOLEAN /\ timeoutOn \in BOOLEAN
    /\ readQueued \in Nat /\ reconnectQueued \in BOOLEAN
    /\ asserted \in BOOLEAN /\ alive \in BOOLEAN
    /\ wire \in Seq(1..tagCount) /\ net \in Seq(Msgs) /\ rx \in Seq(Msgs)
    /\ jstate \in [Jobs -> {"new", "queued", "started", "done", "deleted"}]
    /\ jtag \in [Jobs -> 0..tagCount] /\ inbox \in [Jobs -> Seq(Tags)]

(* The Q_ASSERTs of the dispatcher and the timer hold: jobDone is only  *)
(* reached through the result of the current job (205), and             *)
(* startSocketTimer never finds the timer running (469), whatever order *)
(* responses, errors, timeouts, deletions and timeout changes come in.  *)
AssertionsHold == asserted

(* Deleting the session tells every job it was handed ("Make sure all   *)
(* jobs know we're done", ~Session): none is left started or queued.    *)
JobsToldOnDelete == ~alive => \A j \in Jobs : jstate[j] \in {"new", "done", "deleted"}

(* The session has ended: the one connection attempt is over. *)
Ended == ~reconnectQueued /\ sock = "Unconnected"

(* Tags of the commands of the given kinds that jobs have sent. *)
SentTags(cmds) == {jtag[j] : j \in {k \in Jobs : JobCmd[k] \in cmds
                                                 /\ jtag[k] # 0}}

(* Single flight (doStartNext's jobRunning guard, jobDone's reset): at   *)
(* most one job is between doStart and its result.                      *)
SingleFlight == Cardinality({j \in Jobs : jstate[j] = "started"}) <= 1

(* Routing (responseReceived forwards to currentJob): a job is handed    *)
(* responses only after it has sent its command, and every tagged       *)
(* response it is handed carries the tag of that command.               *)
ResponsesReachTheirJob ==
    \A j \in Jobs : \A i \in DOMAIN inbox[j] :
        /\ jtag[j] # 0
        /\ inbox[j][i] \in {Untagged, EmptyTag, jtag[j]}

(* jobDone and jobDestroyed clear currentJob: a job that has emitted its *)
(* result or has been deleted is never handed another response.          *)
NoDeliveryAfterResult ==
    [][\A j \in Jobs : jstate[j] \in {"done", "deleted"} =>
                          inbox'[j] = inbox[j]]_inbox

(* The state machine of responseReceived follows the spec's table while  *)
(* the socket is up: every change of state is caused by the response     *)
(* the step parses (the head of the parser buffer and the arrivals) and  *)
(* matches a row, with tracked tags that a LOGIN/AUTHENTICATE, SELECT/   *)
(* EXAMINE or CLOSE command really carried.                              *)
TableStep(m) ==
    LET ok == m.code = "OK" IN
    \/ state = "Disconnected" /\ m.tag = Untagged
       /\ \/ ok /\ state' = "NotAuthenticated"
          \/ m.code = "PREAUTH" /\ state' = "Authenticated"
    \/ state = "NotAuthenticated" /\ state' = "Authenticated"
       /\ ok /\ m.tag \in SentTags({"LOGIN", "AUTHENTICATE"})
    \/ state = "Authenticated" /\ state' = "Selected"
       /\ ok /\ m.tag \in SentTags({"SELECT", "EXAMINE"})
    \/ state = "Selected" /\ state' = "Authenticated"
       /\ \/ ok /\ m.tag \in SentTags({"CLOSE"})
          \/ ~ok /\ m.tag \in SentTags({"SELECT", "EXAMINE"})

StateFollowsTable ==
    [][isSocketConnected /\ state' # state =>
          \/ state' = "Disconnected" /\ Ended'
          \/ rx \o net # <<>> /\ TableStep(Head(rx \o net))]_state

(* spec.md's reading of a quoted string: the bytes after the opening     *)
(* quote up to the first unescaped quote, with \" and \\ unescaped.        *)
RECURSIVE QuotedBody(_)
QuotedBody(s) ==
    CASE s = <<>> \/ Head(s) = "\"" -> <<>>
      [] Head(s) = "\\" /\ Len(s) >= 2 -> <<s[2]>> \o QuotedBody(Tail(Tail(s)))
      [] OTHER -> <<Head(s)>> \o QuotedBody(Tail(s))

QuotedValue(args) == IF args = <<>> THEN <<>> ELSE QuotedBody(Tail(args))

(* In Selected, currentMailBox is the mailbox a SELECT or EXAMINE job    *)
(* asked for (spec.md: after SELECT succeeds it equals the user-visible *)
(* name): sendCommand's extraction of upcomingMailBox from the quoted    *)
(* argument, carried through stateTransition, loses nothing.             *)
SelectedMailBoxIsRequested ==
    state = "Selected" =>
        \E j \in Jobs : /\ JobCmd[j] \in {"SELECT", "EXAMINE"} /\ jtag[j] # 0
                       /\ currentMailBox = QuotedValue(JobArg[j])

(* Every job added to a live session eventually emits its result (after *)
(* a response, connectionLost) or is deleted: the inactivity timer and   *)
(* clearJobQueue leave no job waiting forever.                           *)
JobsFinish ==
    \A j \in Jobs : (jstate[j] \in {"queued", "started"} /\ ~Ended)
                        ~> jstate[j] \in {"done", "deleted"}

(* The two guarantees of JobsFinish: with the inactivity timeout left    *)
(* on, the timer alone ends every job (onSocketTimeout aborts, and       *)
(* clearJobQueue notifies); with the timeout possibly off, a server that *)
(* greets and answers every command is enough.                           *)
JobsFinishTimed == []timeoutOn => JobsFinish

JobsFinishFairServer == ServerFairness => JobsFinish

(* A session whose connection is gone reports Disconnected: no response  *)
(* still in the parser buffer when socketDisconnected ran (a queued      *)
(* readMessage) moves state again.                                      *)
SessionEndsDisconnected == Ended => state = "Disconnected"

(* Every job added to a live session emits its result: on disconnect    *)
(* clearJobQueue notifies, through connectionLost, every job it was     *)
(* handed, not only the first.                                           *)
JobsNotified ==
    \A j \in Jobs : (jstate[j] \in {"queued", "started"} /\ ~Ended)
                        ~> jstate[j] = "done"

(* The queue the callers see: socketError moves the head of the queue to *)
(* currentJob without starting it, so a promoted job still waits first.  *)
QueueBar ==
    IF currentJob # NoJob /\ jstate[currentJob] = "queued"
    THEN <<currentJob>> \o queue ELSE queue

Abstract == INSTANCE JobQueue WITH waiting <- QueueBar, status <- jstate

(* The dispatcher implements the abstract job queue: addJob, doStartNext, *)
(* jobDone, jobDestroyed, socketError and clearJobQueue only ever start   *)
(* the oldest waiting job, one at a time, and end each job once.          *)
JobQueueRefinement == Abstract!Spec
=============================================================================
