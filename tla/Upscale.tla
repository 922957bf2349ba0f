------------------------------ MODULE Upscale ------------------------------
(***************************************************************************)
(* The upscale queue.  Requests insert a row into designkit_upscale_tasks  *)
(* and send its number down a bounded channel, all under one mutex; one    *)
(* worker first recovers what an earlier process left behind and then      *)
(* receives from the channel.  The rows are the truth, the channel is only *)
(* a signal.                                                               *)
(*                                                                         *)
(* A step is one SQL statement or one operation on the mutex or the        *)
(* channel.  Any statement can fail, with or without having taken effect.  *)
(***************************************************************************)
EXTENDS Naturals, Sequences, FiniteSets

CONSTANTS
    Images,          \* assets of users that can be upscaled
    Requests,        \* calls of Enqueue in progress
    QueueCap,        \* capacity of the channel
    RecoverLimit,    \* upscaleRecoverLimit
    MaxTasks,        \* bound: rows ever inserted
    MaxDisruptions,  \* bound: failing statements, lost answers and restarts
    NULL

ASSUME CapsAssumption == QueueCap \in Nat \ {0} /\ RecoverLimit \in Nat \ {0}
ASSUME BoundsAssumption == MaxTasks \in Nat /\ MaxDisruptions \in Nat
ASSUME NullAssumption == NULL \notin Images \cup Requests \cup Nat

Tasks == 1..MaxTasks

VARIABLES
    image, status,  \* columns of the rows, in the order of their insertion
    born,           \* how many rows there are
    removed,        \* finished tasks whose result was deleted by its owner
    queue,          \* the channel
    mu,             \* the request that holds the mutex, or NULL
    pc,             \* where a request is
    wants,          \* the image it is about
    row,            \* the row it inserted
    wpc,            \* where the worker is, "down" without a process
    cur,            \* the task it works on
    rec,            \* what is left of the rows recoverPending listed
    runs,           \* how often this process upscaled each task
    beyond,         \* rows that recoverPending left out because of its limit
    dirty,          \* whether this process met a failing statement
    disruptions

rowVars    == <<image, status, born, removed>>
callVars   == <<mu, pc, wants, row>>
workerVars == <<wpc, cur, rec, runs>>
envVars    == <<beyond, dirty, disruptions>>
vars       == <<rowVars, queue, callVars, workerVars, envVars>>

-----------------------------------------------------------------------------
Unfinished == {"queued", "running"}

\* The last row of image x (latestUpscaleTaskSQL), 0 if it has none.
Latest(x) ==
    LET mine == {t \in 1..born : image[t] = x}
    IN  IF mine = {} THEN 0 ELSE CHOOSE t \in mine : \A u \in mine : u <= t

Up == wpc # "down"

Disrupt == disruptions < MaxDisruptions /\ disruptions' = disruptions + 1

\* A statement fails; the process goes on.
Fault == Disrupt /\ dirty' = TRUE /\ UNCHANGED beyond

Go(r, to) == pc' = [pc EXCEPT ![r] = to] /\ UNCHANGED <<mu, wants, row>>

Return(r) ==
    /\ mu' = NULL
    /\ pc' = [pc EXCEPT ![r] = "idle"]
    /\ wants' = [wants EXCEPT ![r] = NULL]
    /\ row' = [row EXCEPT ![r] = NULL]

SetStatus(t, s) == status' = [status EXCEPT ![t] = s]

Init ==
    /\ image = [t \in Tasks |-> NULL]
    /\ status = [t \in Tasks |-> "none"]
    /\ born = 0
    /\ removed = {}
    /\ queue = <<>>
    /\ mu = NULL
    /\ pc = [r \in Requests |-> "idle"]
    /\ wants = [r \in Requests |-> NULL]
    /\ row = [r \in Requests |-> NULL]
    /\ wpc = "requeueing" /\ cur = NULL /\ rec = {}
    /\ runs = [t \in Tasks |-> 0]
    /\ beyond = {} /\ dirty = FALSE /\ disruptions = 0

-----------------------------------------------------------------------------
(* Enqueue, from the mutex on (an image that is not the user's is refused  *)
(* before)                                                                 *)

Lock(r, x) ==
    /\ Up /\ pc[r] = "idle" /\ mu = NULL
    /\ mu' = r
    /\ pc' = [pc EXCEPT ![r] = "reading"]
    /\ wants' = [wants EXCEPT ![r] = x]
    /\ UNCHANGED <<rowVars, queue, row, workerVars, envVars>>

\* Mutant: a task that is being upscaled does not answer a new request.
AnswersUnlessRunning(t) == status[t] = "queued" \/ (status[t] = "done" /\ t \notin removed)

\* The latest row answers the request.
Answers(t) == status[t] \in Unfinished \/ (status[t] = "done" /\ t \notin removed)

\* LatestByAsset, and the result asset of a task that is done.
ReadLatest(r) ==
    /\ pc[r] = "reading"
    /\ LET t == Latest(wants[r])
       IN  IF t # 0 /\ Answers(t) THEN Return(r) ELSE Go(r, "judging")
    /\ UNCHANGED <<rowVars, queue, workerVars, envVars>>

\* Any error on the way to the result counts as a result that is gone.
ReadResultFails(r) ==
    /\ pc[r] = "reading"
    /\ LET t == Latest(wants[r]) IN t # 0 /\ status[t] = "done"
    /\ Disrupt
    /\ Go(r, "judging")
    /\ UNCHANGED <<rowVars, queue, workerVars, beyond, dirty>>

ReadLatestFails(r) ==
    /\ pc[r] = "reading"
    /\ Disrupt
    /\ Return(r)
    /\ UNCHANGED <<rowVars, queue, workerVars, beyond, dirty>>

\* Mutant: the length is compared the wrong way round at the limit.
JudgeFullLate(r) ==
    /\ pc[r] = "judging"
    /\ IF Len(queue) > QueueCap THEN Return(r) ELSE Go(r, "inserting")
    /\ UNCHANGED <<rowVars, queue, workerVars, envVars>>

JudgeFull(r) ==
    /\ pc[r] = "judging"
    /\ IF Len(queue) >= QueueCap THEN Return(r) ELSE Go(r, "inserting")
    /\ UNCHANGED <<rowVars, queue, workerVars, envVars>>

\* Mutant: the INSERT leaves the column of the image out.
NewRowWithoutImage(x) ==
    /\ born < MaxTasks
    /\ born' = born + 1
    /\ SetStatus(born + 1, "queued")
    /\ UNCHANGED <<image, removed>>

NewRow(x) ==
    /\ born < MaxTasks
    /\ born' = born + 1
    /\ image' = [image EXCEPT ![born + 1] = x]
    /\ SetStatus(born + 1, "queued")
    /\ UNCHANGED removed

Insert(r) ==
    /\ pc[r] = "inserting"
    /\ NewRow(wants[r])
    /\ pc' = [pc EXCEPT ![r] = "sending"]
    /\ row' = [row EXCEPT ![r] = born + 1]
    /\ UNCHANGED <<queue, mu, wants, workerVars, envVars>>

InsertFails(r) ==
    /\ pc[r] = "inserting"
    /\ \/ Disrupt /\ UNCHANGED <<rowVars, beyond, dirty>>
       \/ Fault /\ NewRow(wants[r])         \* the row is there, nobody is told
    /\ Return(r)
    /\ UNCHANGED <<queue, workerVars>>

\* The send blocks, with the mutex held, when the channel is full.
Send(r) ==
    /\ pc[r] = "sending"
    /\ Len(queue) < QueueCap
    /\ queue' = Append(queue, row[r])
    /\ Return(r)
    /\ UNCHANGED <<rowVars, workerVars, envVars>>

\* The owner deletes the result of a finished task.
RemoveResult(t) ==
    /\ status[t] = "done"
    /\ removed' = removed \cup {t}
    /\ UNCHANGED <<image, status, born, queue, callVars, workerVars, envVars>>

-----------------------------------------------------------------------------
(* The worker: recoverPending, then one task after the other               *)

Turn(to) == wpc' = to /\ UNCHANGED <<cur, rec, runs>>

\* process returns.
Ready == wpc' = "ready" /\ cur' = NULL /\ UNCHANGED <<rec, runs>>

\* Mutant: interrupted tasks are left as they are.
RequeueNothing == UNCHANGED status

Requeue == status' = [t \in Tasks |-> IF status[t] = "running" THEN "queued" ELSE status[t]]

RequeueInterrupted ==
    /\ wpc = "requeueing"
    /\ Requeue
    /\ Turn("listing")
    /\ UNCHANGED <<image, born, removed, queue, callVars, envVars>>

\* The recovery is given up until the next restart.
RequeueInterruptedFails ==
    /\ wpc = "requeueing"
    /\ Fault
    /\ Requeue \/ UNCHANGED status
    /\ Ready
    /\ UNCHANGED <<image, born, removed, queue, callVars>>

Queued == {t \in Tasks : status[t] = "queued"}

\* ORDER BY created_at, uid LIMIT upscaleRecoverLimit.
Listed == {t \in Queued : Cardinality({u \in Queued : u < t}) < RecoverLimit}

\* Rows beyond the limit wait for the next restart.
ListQueued ==
    /\ wpc = "listing"
    /\ rec' = Listed
    /\ beyond' = Queued \ Listed
    /\ wpc' = "ready"
    /\ UNCHANGED <<rowVars, queue, callVars, cur, runs, dirty, disruptions>>

ListQueuedFails ==
    /\ wpc = "listing"
    /\ Fault
    /\ Ready
    /\ UNCHANGED <<rowVars, queue, callVars>>

\* The next listed row, in order, until none is left.
TakeRecovered ==
    /\ wpc = "ready"
    /\ \E t \in rec :
          /\ \A u \in rec : t <= u
          /\ cur' = t
          /\ rec' = rec \ {t}
    /\ wpc' = "fetching"
    /\ UNCHANGED <<rowVars, queue, callVars, runs, envVars>>

\* Mutant: the worker does not finish the recovery first.
ReceiveAnyTime ==
    /\ wpc = "ready" /\ queue # <<>>
    /\ cur' = Head(queue)
    /\ queue' = Tail(queue)
    /\ wpc' = "fetching"
    /\ UNCHANGED <<rowVars, callVars, rec, runs, envVars>>

Receive ==
    /\ wpc = "ready" /\ rec = {} /\ queue # <<>>
    /\ cur' = Head(queue)
    /\ queue' = Tail(queue)
    /\ wpc' = "fetching"
    /\ UNCHANGED <<rowVars, callVars, rec, runs, envVars>>

\* Mutant: only a task that was done is skipped.
NotDone(t) == status[t] # "done"

\* The check after GetByUID, and the guard of MarkRunning's UPDATE.
IsQueued(t) == status[t] = "queued"

\* process: a task that is no longer queued was done under the other signal.
GetByUID ==
    /\ wpc = "fetching"
    /\ IF IsQueued(cur) THEN Turn("claiming") ELSE Ready
    /\ UNCHANGED <<rowVars, queue, callVars, envVars>>

MarkRunning ==
    /\ wpc = "claiming"
    /\ IF IsQueued(cur)
       THEN /\ SetStatus(cur, "running")
            /\ wpc' = "upscaling"
            /\ runs' = [runs EXCEPT ![cur] = @ + 1]
            /\ UNCHANGED <<cur, rec>>
       ELSE Ready /\ UNCHANGED status
    /\ UNCHANGED <<image, born, removed, queue, callVars, envVars>>

\* Either statement fails: the task is skipped.
ProcessFails ==
    /\ wpc \in {"fetching", "claiming"}
    /\ Fault
    /\ \/ UNCHANGED status
       \/ wpc = "claiming" /\ IsQueued(cur) /\ SetStatus(cur, "running")
    /\ Ready
    /\ UNCHANGED <<image, born, removed, queue, callVars>>

\* execute ends, well or not, and MarkDone or MarkFailed is written.
Finish ==
    /\ wpc = "upscaling"
    /\ IF status[cur] = "running" THEN \E s \in {"done", "failed"} : SetStatus(cur, s) ELSE UNCHANGED status
    /\ Ready
    /\ UNCHANGED <<image, born, removed, queue, callVars, envVars>>

\* The final UPDATE fails: the row stays running until the next restart.
FinishFails ==
    /\ wpc = "upscaling"
    /\ Fault
    /\ Ready
    /\ UNCHANGED <<rowVars, queue, callVars>>

-----------------------------------------------------------------------------
(* The process: a crash, or Close, which does not wait for the image in    *)
(* progress and leaves its row running on purpose                          *)

Exit ==
    /\ Up /\ Disrupt
    /\ wpc' = "down" /\ cur' = NULL /\ rec' = {}
    /\ runs' = [t \in Tasks |-> 0]
    /\ queue' = <<>>
    /\ mu' = NULL
    /\ pc' = [r \in Requests |-> "idle"]
    /\ wants' = [r \in Requests |-> NULL]
    /\ row' = [r \in Requests |-> NULL]
    /\ UNCHANGED <<rowVars, beyond, dirty>>

NewUpscaleService ==
    /\ wpc = "down"
    /\ beyond' = {} /\ dirty' = FALSE
    /\ Turn("requeueing")
    /\ UNCHANGED <<rowVars, queue, callVars, disruptions>>

-----------------------------------------------------------------------------
RequestStep(r) == ReadLatest(r) \/ JudgeFull(r) \/ Insert(r) \/ Send(r)

WorkerStep ==
    \/ RequeueInterrupted \/ ListQueued \/ TakeRecovered \/ Receive
    \/ GetByUID \/ MarkRunning \/ Finish

Next ==
    \/ \E r \in Requests :
          \/ \E x \in Images : Lock(r, x)
          \/ RequestStep(r)
          \/ ReadResultFails(r) \/ ReadLatestFails(r) \/ InsertFails(r)
    \/ \E t \in Tasks : RemoveResult(t)
    \/ WorkerStep
    \/ RequeueInterruptedFails \/ ListQueuedFails \/ ProcessFails \/ FinishFails
    \/ Exit \/ NewUpscaleService

Spec == Init /\ [][Next]_vars

\* The worker goroutine and accepted requests keep going, a process that ended is started.
Fairness ==
    /\ WF_vars(WorkerStep)
    /\ \A r \in Requests : WF_vars(RequestStep(r))
    /\ WF_vars(NewUpscaleService)

FairSpec == Spec /\ Fairness

-----------------------------------------------------------------------------
Rows == 1..born

Places == {"reading", "judging", "inserting", "sending"}

WorkerPlaces == {"down", "requeueing", "listing", "ready", "fetching", "claiming", "upscaling"}

\* Rows, channel, requests and worker have the values the code can give them.
TypeOK ==
    /\ born \in 0..MaxTasks
    /\ image \in [Tasks -> Images \cup {NULL}]
    /\ status \in [Tasks -> {"none", "queued", "running", "done", "failed"}]
    /\ \A t \in Tasks : IF t <= born THEN image[t] \in Images /\ status[t] # "none"
                                      ELSE status[t] = "none"
    /\ removed \subseteq Tasks
    /\ queue \in Seq(Rows)
    /\ mu \in Requests \cup {NULL}
    /\ pc \in [Requests -> {"idle"} \cup Places]
    /\ wants \in [Requests -> Images \cup {NULL}]
    /\ row \in [Requests -> Tasks \cup {NULL}]
    /\ wpc \in WorkerPlaces
    /\ cur \in Rows \cup {NULL}
    /\ rec \subseteq Rows
    /\ runs \in [Tasks -> Nat]
    /\ beyond \subseteq Tasks
    /\ dirty \in BOOLEAN /\ disruptions \in 0..MaxDisruptions

Live(t) == status[t] \in Unfinished

\* Two clicks, or a retry while the recovery runs, never put one image into the queue twice:
\* there is at most one unfinished row per image, lost answers and restarts included.
OneLiveTaskPerImage ==
    \A t, u \in Rows : image[t] = image[u] /\ Live(t) /\ Live(u) => t = u

\* Enqueue holds the mutex while it sends; the channel has room whenever it does, although
\* the row was inserted after the room was checked.
SendNeverBlocks ==
    \A r \in Requests : pc[r] = "sending" => Len(queue) < QueueCap

\* No image is upscaled twice by one process, although a task can be both listed by the
\* recovery and signalled through the channel.
OncePerProcess == \A t \in Tasks : runs[t] <= 1

\* The task still has somebody who will get to it.
InSight(t) ==
    \/ \E n \in 1..Len(queue) : queue[n] = t
    \/ \E r \in Requests : pc[r] = "sending" /\ row[r] = t
    \/ t \in rec
    \/ t = cur /\ wpc \in {"fetching", "claiming", "upscaling"}

\* An unfinished row that the limit of the recovery (upscaleRecoverLimit) did not leave out.
Awaited(t) == Live(t) /\ t \notin beyond

\* Rows are the truth and the channel only a signal, and yet no unfinished row is without a
\* signal: until a statement fails, every restart finds all of them again, up to the limit of
\* recoverPending, beyond which rows wait for the next restart.
NothingStranded ==
    wpc \in {"ready", "fetching", "claiming", "upscaling"} /\ ~dirty =>
        \A t \in Rows : Awaited(t) => InSight(t)

\* "First come, first served", also across a restart: as long as no statement failed, no
\* older task is waiting while a task is upscaled, those beyond the recovery limit excepted.
FirstComeFirstServed ==
    wpc = "upscaling" /\ ~dirty => \A t \in Rows : t < cur => ~Awaited(t)

\* Every task is finished in the end, however often the process is restarted, unless a
\* statement of the current process failed or its recovery left the task beyond its limit.
TasksEnd ==
    \A t \in Tasks :
        (status[t] = "queued") ~> (status[t] \in {"done", "failed"} \/ dirty \/ t \in beyond)
=============================================================================
