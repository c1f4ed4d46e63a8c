------------------------------- MODULE JobQueue -------------------------------
(***************************************************************************)
(* What the session's job queue promises its callers, without sockets,    *)
(* tags or timers: jobs wait in the order they were added, at most one    *)
(* runs, the head of the queue is the only job that may start, and every  *)
(* job ends once, with a result or by being destroyed.  Each operation    *)
(* of the session may end by dispatching (startNext), so every action     *)
(* here is followed by an optional start of the head.                     *)
(***************************************************************************)
EXTENDS Sequences, SequencesExt

CONSTANTS Jobs

VARIABLES
    waiting,   \* jobs added and not yet started, oldest first
    status     \* "new", "queued", "started", "done" or "deleted"

avars == <<waiting, status>>

Idle(s) == \A j \in Jobs : s[j] # "started"

(* startNext: the result of an operation, with or without starting the   *)
(* head of the queue when no job runs.                                   *)
MayStart(w, s) ==
    {[w |-> w, s |-> s]} \cup
    IF w # <<>> /\ Idle(s)
    THEN {[w |-> Tail(w), s |-> [s EXCEPT ![Head(w)] = "started"]]}
    ELSE {}

Then(w, s) == \E r \in MayStart(w, s) : waiting' = r.w /\ status' = r.s

Init == waiting = <<>> /\ status = [j \in Jobs |-> "new"]

(* addJob *)
Add(j) ==
    /\ status[j] = "new"
    /\ Then(Append(waiting, j), [status EXCEPT ![j] = "queued"])

(* The session becomes ready (socketConnected). *)
Dispatch == Then(waiting, status)

(* The running job emits its result (jobDone). *)
Finish(j) ==
    /\ status[j] = "started"
    /\ Then(waiting, [status EXCEPT ![j] = "done"])

(* A caller destroys a job that has not ended (jobDestroyed). *)
Destroy(j) ==
    /\ status[j] \in {"queued", "started"}
    /\ waiting' = Remove(waiting, j)
    /\ status' = [status EXCEPT ![j] = "deleted"]

(* The connection is lost (clearJobQueue): the running job, or the head  *)
(* of the queue when none runs, gets its result; the rest are destroyed. *)
Abandon ==
    LET told == IF ~Idle(status) \/ waiting = <<>> THEN {}
                ELSE {Head(waiting)}
    IN  /\ waiting' = <<>>
        /\ status' = [j \in Jobs |->
                        CASE status[j] = "started" \/ j \in told -> "done"
                          [] status[j] = "queued" -> "deleted"
                          [] OTHER -> status[j]]

Next ==
    \/ \E j \in Jobs : Add(j) \/ Finish(j) \/ Destroy(j)
    \/ Dispatch \/ Abandon

Spec == Init /\ [][Next]_avars
=============================================================================
