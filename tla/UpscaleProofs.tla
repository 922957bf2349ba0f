--------------------------- MODULE UpscaleProofs ---------------------------
(***************************************************************************)
(* Safety of the upscale queue for any number of images, requests, tasks   *)
(* and restarts, any capacity of the channel and any recovery limit.       *)
(***************************************************************************)
EXTENDS Upscale, TLAPS

Busy == {"fetching", "claiming", "upscaling"}

\* Who holds the mutex is exactly who is inside Enqueue; a busy worker has a task; a request
\* that sends has inserted its row, the last one there is.
Attached ==
    /\ wpc \in Busy <=> cur # NULL
    /\ wpc \in {"down", "requeueing", "listing"} => rec = {}
    /\ \A r \in Requests : pc[r] # "idle" <=> mu = r
    /\ \A r \in Requests : pc[r] # "idle" => wants[r] \in Images
    /\ \A r \in Requests : pc[r] = "sending" => row[r] = born /\ born \in Rows

Basics == TypeOK /\ Attached

USE DEF Tasks, Rows

\* The first process starts on an empty table.
LEMMA BasicsInit == Init => Basics
<1> SUFFICES ASSUME Init PROVE Basics
  OBVIOUS
<1> USE BoundsAssumption, NullAssumption DEF Init
<1>1. queue \in Seq(Rows)
  OBVIOUS
<1>2. born \in 0..MaxTasks /\ \A t \in Tasks : status[t] = "none" /\ ~(t <= born)
  OBVIOUS
<1>3. disruptions \in 0..MaxDisruptions /\ runs \in [Tasks -> Nat]
  OBVIOUS
<1>4. TypeOK
  BY <1>1, <1>2, <1>3 DEF TypeOK, Places, WorkerPlaces
<1>5. Attached
  BY DEF Attached, Busy
<1> QED
  BY <1>4, <1>5 DEF Basics

\* What Basics says of requests and the mutex.
CallsOK ==
    /\ mu \in Requests \cup {NULL}
    /\ pc \in [Requests -> {"idle"} \cup Places]
    /\ wants \in [Requests -> Images \cup {NULL}]
    /\ row \in [Requests -> Tasks \cup {NULL}]
    /\ \A r \in Requests : pc[r] # "idle" <=> mu = r
    /\ \A r \in Requests : pc[r] # "idle" => wants[r] \in Images
    /\ \A r \in Requests : pc[r] = "sending" => row[r] = born /\ born \in Rows

\* A request that returns leaves no request under way.
LEMMA ReturnIsFine ==
    ASSUME CallsOK, NEW r \in Requests, pc[r] # "idle", Return(r)
    PROVE  CallsOK' /\ \A q \in Requests : pc'[q] = "idle"
<1>1. /\ pc' \in [Requests -> {"idle"}] /\ mu' = NULL
      /\ wants' \in [Requests -> Images \cup {NULL}] /\ row' \in [Requests -> Tasks \cup {NULL}]
  BY DEF CallsOK, Return
<1> QED
  BY <1>1, NullAssumption DEF CallsOK, Places

\* A request that goes on keeps the mutex.
LEMMA GoIsFine ==
    ASSUME CallsOK, NEW r \in Requests, pc[r] # "idle", NEW to \in {"judging", "inserting"}, Go(r, to)
    PROVE  CallsOK'
<1>1. /\ pc' \in [Requests -> {"idle"} \cup Places] /\ UNCHANGED <<mu, wants, row>>
      /\ pc'[r] = to /\ \A q \in Requests \ {r} : pc'[q] = pc[q]
  BY DEF CallsOK, Go, Places
<1> QED
  BY <1>1 DEF CallsOK

\* A step of a request that leaves rows and worker alone.
LEMMA BasicsOfCalls ==
    ASSUME Basics, CallsOK', queue' \in Seq(Rows), UNCHANGED <<rowVars, workerVars, beyond, dirty>>,
           disruptions' \in 0..MaxDisruptions
    PROVE  Basics'
<1> USE DEF rowVars, workerVars
<1>1. UNCHANGED <<image, status, born, removed, wpc, cur, rec, runs, beyond, dirty>>
  OBVIOUS
<1>2. TypeOK'
  BY <1>1 DEF Basics, TypeOK, CallsOK
<1>3. Attached'
  BY <1>1 DEF Basics, Attached, CallsOK, Busy
<1> QED
  BY <1>2, <1>3 DEF Basics

\* Lock, ReadLatest, JudgeFull and their failures move a request under the mutex.
LEMMA BasicsRequest ==
    ASSUME Basics, NEW r \in Requests,
           \/ \E x \in Images : Lock(r, x)
           \/ ReadLatest(r) \/ ReadResultFails(r) \/ ReadLatestFails(r) \/ JudgeFull(r)
    PROVE  Basics'
<1> USE DEF envVars
<1>1. CallsOK /\ queue \in Seq(Rows) /\ disruptions \in 0..MaxDisruptions
  BY DEF Basics, TypeOK, Attached, CallsOK
<1>2. /\ UNCHANGED <<rowVars, workerVars, queue, beyond, dirty>>
      /\ disruptions' = disruptions \/ Disrupt
  BY DEF Lock, ReadLatest, ReadResultFails, ReadLatestFails, JudgeFull
<1>3. queue' \in Seq(Rows) /\ disruptions' \in 0..MaxDisruptions
  <2>1. born' = born /\ queue' = queue
    BY <1>2 DEF rowVars
  <2> QED
    BY <1>1, <1>2, <2>1, BoundsAssumption DEF Disrupt
<1>4. CallsOK'
  <2>1. ASSUME NEW x \in Images, Lock(r, x) PROVE CallsOK'
    <3>1. /\ pc' \in [Requests -> {"idle"} \cup Places] /\ pc'[r] = "reading"
          /\ wants' \in [Requests -> Images \cup {NULL}] /\ wants'[r] = x
          /\ mu = NULL /\ mu' = r /\ row' = row
          /\ \A q \in Requests \ {r} : pc'[q] = pc[q]
      BY <1>1, <2>1 DEF Lock, CallsOK, Places
    <3>2. \A q \in Requests \ {r} : pc'[q] = "idle"
      BY <1>1, <3>1, NullAssumption DEF CallsOK
    <3> QED
      BY <1>1, <3>1, <3>2 DEF CallsOK
  <2>2. ASSUME ~\E x \in Images : Lock(r, x) PROVE CallsOK'
    <3>1. pc[r] # "idle" /\ (Return(r) \/ Go(r, "judging") \/ Go(r, "inserting"))
      BY <2>2 DEF ReadLatest, ReadResultFails, ReadLatestFails, JudgeFull
    <3> QED
      BY <1>1, <3>1, ReturnIsFine, GoIsFine
  <2> QED
    BY <2>1, <2>2
<1> QED
  BY <1>2, <1>3, <1>4, BasicsOfCalls

\* What TypeOK says of the table.
TableOK ==
    /\ born \in 0..MaxTasks
    /\ image \in [Tasks -> Images \cup {NULL}]
    /\ status \in [Tasks -> {"none", "queued", "running", "done", "failed"}]
    /\ \A t \in Tasks : IF t <= born THEN image[t] \in Images /\ status[t] # "none"
                                      ELSE status[t] = "none"
    /\ removed \subseteq Tasks

\* A new row is the next one, and keeps the table well typed.
LEMMA TypedRow ==
    ASSUME TypeOK, NEW x \in Images, NewRow(x)
    PROVE  TableOK'
<1>1. born' = born + 1 /\ born' \in Tasks /\ removed' = removed
  BY BoundsAssumption DEF NewRow, TypeOK
<1>2. /\ image' \in [Tasks -> Images \cup {NULL}] /\ image'[born'] = x
      /\ \A t \in Tasks \ {born'} : image'[t] = image[t]
  BY <1>1 DEF NewRow, TypeOK
<1>3. /\ status' \in [Tasks -> {"none", "queued", "running", "done", "failed"}] /\ status'[born'] = "queued"
      /\ \A t \in Tasks \ {born'} : status'[t] = status[t]
  BY <1>1 DEF NewRow, SetStatus, TypeOK
<1>4. born \in Nat /\ \A t \in Tasks : t <= born' <=> t <= born \/ t = born'
  BY <1>1 DEF TypeOK
<1>5. \A t \in Tasks : IF t <= born THEN image[t] \in Images /\ status[t] # "none"
                                    ELSE status[t] = "none"
  BY DEF TypeOK
<1>6. ASSUME NEW t \in Tasks
      PROVE  IF t <= born' THEN image'[t] \in Images /\ status'[t] # "none" ELSE status'[t] = "none"
  <2>1. CASE t = born'
    BY <1>2, <1>3, <1>4, <2>1
  <2>2. CASE t # born'
    BY <1>2, <1>3, <1>4, <1>5, <2>2
  <2> QED
    BY <2>1, <2>2
<1>7. born' \in 0..MaxTasks /\ removed' \subseteq Tasks
  BY <1>1, BoundsAssumption DEF TypeOK
<1> QED
  BY <1>2, <1>3, <1>6, <1>7 DEF TableOK

\* Insert, and an INSERT that reports an error, add at most the next row.
LEMMA BasicsInsert ==
    ASSUME Basics, NEW r \in Requests, Insert(r) \/ InsertFails(r)
    PROVE  Basics'
<1> USE CapsAssumption, BoundsAssumption, NullAssumption DEF Basics, TypeOK, Attached, Busy, Places
<1> USE DEF rowVars, workerVars, envVars
<1>1. CASE Insert(r)
  <2> USE <1>1 DEF Insert, NewRow, SetStatus
  <2>1. queue' \in Seq(1..born')
    OBVIOUS
  <2>2. born' \in Tasks /\ born' = born + 1 /\ 1..born \subseteq 1..born' /\ wants[r] \in Images
    OBVIOUS
  <2>3. TypeOK'
    <3>1. NewRow(wants[r]) /\ UNCHANGED <<wpc, cur, rec, runs, beyond, dirty, disruptions, wants, mu>>
      OBVIOUS
    <3>2. pc' \in [Requests -> {"idle"} \cup Places] /\ row' \in [Requests -> Tasks \cup {NULL}]
      BY <2>2
    <3>3. TableOK'
      BY <2>2, <3>1, TypedRow
    <3> HIDE <1>1 DEF Insert, NewRow, SetStatus
    <3> QED
      BY <2>1, <2>2, <3>1, <3>2, <3>3 DEF TableOK
  <2>4. \A s \in Requests \ {r} : pc'[s] = "idle" /\ mu' # s
    OBVIOUS
  <2>5. pc'[r] = "sending" /\ mu' = r /\ row'[r] = born' /\ born' \in 1..born' /\ wants'[r] \in Images
    BY <2>2
  <2>6. Attached'
    BY <2>4, <2>5
  <2> QED
    BY <2>3, <2>6
<1>2. CASE InsertFails(r)
  <2> USE <1>2 DEF InsertFails, NewRow, SetStatus, Disrupt, Fault, Return
  <2>1. CASE UNCHANGED <<rowVars, beyond, dirty>>
    <3>1. CallsOK /\ pc[r] # "idle" /\ queue' \in Seq(Rows) /\ disruptions' \in 0..MaxDisruptions
      BY <2>1 DEF CallsOK
    <3>2. CallsOK'
      BY <1>2, <3>1, ReturnIsFine DEF InsertFails
    <3>3. UNCHANGED <<rowVars, workerVars, beyond, dirty>>
      BY <2>1
    <3> QED
      BY <3>1, <3>2, <3>3, BasicsOfCalls
  <2>2. CASE NewRow(wants[r]) /\ Fault
    <3>1. queue' \in Seq(1..born')
      BY <2>2
    <3>2. born' \in Tasks /\ born' = born + 1 /\ 1..born \subseteq 1..born' /\ wants[r] \in Images
      BY <2>2
    <3>3. TypeOK'
      <4>1. NewRow(wants[r]) /\ UNCHANGED <<wpc, cur, rec, runs, beyond>> /\ dirty' = TRUE
        BY <2>2
      <4>2. /\ pc' \in [Requests -> {"idle"} \cup Places] /\ row' \in [Requests -> Tasks \cup {NULL}]
            /\ wants' \in [Requests -> Images \cup {NULL}] /\ mu' = NULL
            /\ disruptions' \in 0..MaxDisruptions
        BY <2>2
      <4>3. TableOK'
        BY <3>2, <4>1, TypedRow
      <4> HIDE <1>2 DEF InsertFails, NewRow, SetStatus, Disrupt, Fault, Return
      <4> QED
        BY <3>1, <3>2, <4>1, <4>2, <4>3 DEF TableOK
    <3>4. pc' \in [Requests -> {"idle"}] /\ mu' = NULL
      OBVIOUS
    <3>5. Attached'
      BY <2>2, <3>2, <3>4
    <3> QED
      BY <3>3, <3>5
  <2> QED
    BY <2>1, <2>2
<1> QED
  BY <1>1, <1>2

\* Send and Receive keep numbers of rows in the channel.
LEMMA BasicsChannel ==
    ASSUME Basics, (\E r \in Requests : Send(r)) \/ Receive
    PROVE  Basics'
<1> USE CapsAssumption, BoundsAssumption, NullAssumption DEF Basics, TypeOK, Attached, Busy, Places
<1> USE DEF rowVars, callVars, workerVars, envVars
<1>1. ASSUME NEW r \in Requests, Send(r) PROVE Basics'
  <2>1. CallsOK /\ pc[r] = "sending" /\ row[r] = born /\ born \in Rows
    BY <1>1 DEF Send, CallsOK
  <2>2. CallsOK'
    BY <1>1, <2>1, ReturnIsFine DEF Send
  <2>3. queue' \in Seq(Rows) /\ UNCHANGED <<rowVars, workerVars, beyond, dirty, disruptions>>
    BY <1>1, <2>1 DEF Send
  <2>4. disruptions' \in 0..MaxDisruptions /\ queue' \in Seq(Rows)'
    BY <2>3
  <2> QED
    BY <2>2, <2>3, <2>4, BasicsOfCalls
<1>2. CASE Receive
  <2>1. Head(queue) \in Rows /\ Tail(queue) \in Seq(Rows)
    BY <1>2 DEF Receive
  <2>2. TypeOK'
    BY <1>2, <2>1 DEF Receive, WorkerPlaces
  <2>3. Attached'
    BY <1>2, <2>1 DEF Receive
  <2> QED
    BY <2>2, <2>3
<1> QED
  BY <1>1, <1>2

\* Recovery and the owner's deletions.
LEMMA BasicsRecovery ==
    ASSUME Basics,
           \/ \E t \in Tasks : RemoveResult(t)
           \/ RequeueInterrupted \/ RequeueInterruptedFails \/ ListQueued \/ ListQueuedFails \/ TakeRecovered
    PROVE  Basics'
<1> USE CapsAssumption, BoundsAssumption, NullAssumption
    DEF Basics, TypeOK, Attached, Busy, Places, WorkerPlaces
<1> USE DEF rowVars, callVars, workerVars, envVars
<1>1. CASE \E t \in Tasks : RemoveResult(t)
  BY <1>1 DEF RemoveResult
<1>0. ASSUME Requeue \/ UNCHANGED status
      PROVE  /\ status' \in [Tasks -> {"none", "queued", "running", "done", "failed"}]
             /\ \A t \in Tasks : status'[t] = "none" <=> status[t] = "none"
  BY <1>0 DEF Requeue
<1>2. CASE RequeueInterrupted
  <2>1. /\ wpc = "requeueing" /\ Turn("listing")
        /\ UNCHANGED <<image, born, removed, queue, callVars, envVars>>
    BY <1>2 DEF RequeueInterrupted
  <2>2. TypeOK'
    BY <1>0, <1>2, <2>1 DEF RequeueInterrupted, Turn
  <2>3. Attached'
    BY <2>1 DEF Turn
  <2> QED
    BY <2>2, <2>3
<1>3. CASE RequeueInterruptedFails
  <2>1. /\ wpc = "requeueing" /\ Ready /\ UNCHANGED <<image, born, removed, queue, callVars>>
        /\ dirty' = TRUE /\ beyond' = beyond /\ disruptions' \in 0..MaxDisruptions
    BY <1>3 DEF RequeueInterruptedFails, Fault, Disrupt
  <2>2. TypeOK'
    BY <1>0, <1>3, <2>1 DEF RequeueInterruptedFails, Ready
  <2>3. Attached'
    BY <2>1 DEF Ready
  <2> QED
    BY <2>2, <2>3
<1>4. CASE ListQueued
  BY <1>4 DEF ListQueued, Listed, Queued
<1>5. CASE ListQueuedFails
  BY <1>5 DEF ListQueuedFails, Ready, Fault, Disrupt
<1>6. CASE TakeRecovered
  <2>1. PICK t \in rec : cur' = t /\ rec' = rec \ {t}
    BY <1>6 DEF TakeRecovered
  <2>2. wpc = "ready" /\ wpc' = "fetching" /\ UNCHANGED <<rowVars, queue, callVars, runs, envVars>>
    BY <1>6 DEF TakeRecovered
  <2>3. TypeOK'
    BY <2>1, <2>2
  <2>4. Attached'
    BY <2>1, <2>2
  <2> QED
    BY <2>3, <2>4
<1> QED
  BY <1>1, <1>2, <1>3, <1>4, <1>5, <1>6

\* process, from the look at the row to its final status.
LEMMA BasicsProcess ==
    ASSUME Basics, GetByUID \/ MarkRunning \/ ProcessFails \/ Finish \/ FinishFails
    PROVE  Basics'
<1> USE CapsAssumption, BoundsAssumption, NullAssumption
    DEF Basics, TypeOK, Attached, Busy, Places, WorkerPlaces
<1> USE DEF rowVars, callVars, workerVars, envVars
<1>1. CASE GetByUID
  BY <1>1 DEF GetByUID, Turn, Ready
<1>2. CASE MarkRunning
  <2>1. CASE IsQueued(cur)
    <3>1. cur \in 1..born /\ cur \in Tasks
      BY <1>2 DEF MarkRunning
    <3>2. status' = [status EXCEPT ![cur] = "running"] /\ runs' = [runs EXCEPT ![cur] = runs[cur] + 1]
      BY <1>2, <2>1 DEF MarkRunning, SetStatus
    <3>3. runs' \in [Tasks -> Nat]
      BY <3>1, <3>2
    <3>r. /\ status' \in [Tasks -> {"none", "queued", "running", "done", "failed"}]
          /\ \A t \in Tasks : t # cur => status'[t] = status[t]
          /\ status'[cur] = "running"
      BY <3>1, <3>2
    <3>u. /\ wpc' = "upscaling"
          /\ UNCHANGED <<image, born, removed, queue, mu, pc, wants, row, cur, rec, beyond, dirty, disruptions>>
      BY <1>2, <2>1 DEF MarkRunning
    <3>4. TypeOK'
      BY <3>1, <3>3, <3>r, <3>u
    <3>5. Attached'
      BY <1>2, <2>1 DEF MarkRunning
    <3> QED
      BY <3>4, <3>5
  <2>2. CASE ~IsQueued(cur)
    BY <1>2, <2>2 DEF MarkRunning, Ready
  <2> QED
    BY <2>1, <2>2
<1>3. CASE ProcessFails
  <2>1. /\ cur \in Rows /\ Ready /\ UNCHANGED <<image, born, removed, queue, callVars>>
        /\ dirty' = TRUE /\ beyond' = beyond /\ disruptions' \in 0..MaxDisruptions
        /\ UNCHANGED status \/ SetStatus(cur, "running")
    BY <1>3 DEF ProcessFails, Fault, Disrupt
  <2>2. /\ status' \in [Tasks -> {"none", "queued", "running", "done", "failed"}]
        /\ \A t \in Tasks : status'[t] = status[t] \/ (t \in Rows /\ status'[t] = "running")
    BY <2>1 DEF SetStatus
  <2>3. TypeOK'
    BY <2>1, <2>2 DEF Ready
  <2>4. Attached'
    BY <2>1 DEF Ready
  <2> QED
    BY <2>3, <2>4
<1>4. CASE Finish
  BY <1>4 DEF Finish, SetStatus, Ready
<1>5. CASE FinishFails
  BY <1>5 DEF FinishFails, Ready, Fault, Disrupt
<1> QED
  BY <1>1, <1>2, <1>3, <1>4, <1>5

\* Exit forgets channel, mutex and requests; NewUpscaleService starts over.
LEMMA BasicsProcessEnds ==
    ASSUME Basics, Exit \/ NewUpscaleService
    PROVE  Basics'
<1> USE CapsAssumption, BoundsAssumption, NullAssumption
    DEF Basics, TypeOK, Attached, Busy, Places, WorkerPlaces
<1> USE DEF rowVars, callVars, workerVars, envVars
<1>1. CASE Exit
  BY <1>1 DEF Exit, Up, Disrupt
<1>2. CASE NewUpscaleService
  BY <1>2 DEF NewUpscaleService, Turn
<1> QED
  BY <1>1, <1>2

\* No step leaves the types, or takes the mutex from its holder.
LEMMA BasicsStep == Basics /\ [Next]_vars => Basics'
<1> SUFFICES ASSUME Basics, [Next]_vars PROVE Basics'
  OBVIOUS
<1>1. CASE UNCHANGED vars
  BY <1>1 DEF vars, rowVars, callVars, workerVars, envVars, Basics, TypeOK, Attached
<1>2. CASE Next
  BY <1>2, BasicsRequest, BasicsInsert, BasicsChannel, BasicsRecovery, BasicsProcess, BasicsProcessEnds
  DEF Next, RequestStep, WorkerStep
<1> QED
  BY <1>1, <1>2

-----------------------------------------------------------------------------
(* The mutex: room in the channel and one live task per image              *)

\* A request that was told there is room still has it when it sends.
RoomKept == \A r \in Requests : pc[r] \in {"inserting", "sending"} => Len(queue) < QueueCap

\* Only the last row of an image can be unfinished.
OnlyLatestLive ==
    \A t, u \in Rows : image[t] = image[u] /\ t < u => ~Live(t)

\* A request that is about to insert has seen that no row of its image is unfinished.
FreeToInsert ==
    \A r \in Requests : pc[r] \in {"judging", "inserting"} =>
        \A t \in Rows : image[t] = wants[r] => ~Live(t)

MutexInv == RoomKept /\ OnlyLatestLive /\ FreeToInsert

\* The rows are those there were, and none becomes unfinished again.
RowsCalm == born' = born /\ image' = image /\ \A t \in Tasks : Live(t)' => Live(t)

\* All steps but an INSERT leave finished tasks finished.
LEMMA OnlyInsertAddsWork ==
    ASSUME Basics,
           \/ \E t \in Tasks : RemoveResult(t)
           \/ \E r \in Requests : Send(r) \/ ReadLatestFails(r) \/ ReadResultFails(r) \/ ReadLatest(r)
           \/ \E r \in Requests : JudgeFull(r) \/ \E x \in Images : Lock(r, x)
           \/ WorkerStep
           \/ RequeueInterruptedFails \/ ListQueuedFails \/ ProcessFails \/ FinishFails
           \/ Exit \/ NewUpscaleService
    PROVE  RowsCalm
<1> USE DEF RowsCalm, Live, Unfinished, rowVars, Basics, TypeOK, Attached, Busy
<1>1. CASE \E t \in Tasks : RemoveResult(t)
  BY <1>1 DEF RemoveResult
<1>2. CASE \E r \in Requests : Send(r) \/ ReadLatestFails(r) \/ ReadResultFails(r) \/ ReadLatest(r)
  BY <1>2 DEF Send, ReadLatestFails, ReadResultFails, ReadLatest
<1>3. CASE \E r \in Requests : JudgeFull(r) \/ \E x \in Images : Lock(r, x)
  BY <1>3 DEF JudgeFull, Lock
<1>4. CASE RequeueInterrupted \/ RequeueInterruptedFails
  BY <1>4 DEF RequeueInterrupted, RequeueInterruptedFails, Requeue
<1>5. CASE ListQueued \/ ListQueuedFails \/ TakeRecovered \/ Receive \/ GetByUID \/ FinishFails
  BY <1>5 DEF ListQueued, ListQueuedFails, TakeRecovered, Receive, GetByUID, FinishFails
<1>6. CASE MarkRunning \/ ProcessFails
  BY <1>6 DEF MarkRunning, ProcessFails, SetStatus, IsQueued
<1>7. CASE Finish
  BY <1>7 DEF Finish, SetStatus
<1>8. CASE Exit \/ NewUpscaleService
  BY <1>8 DEF Exit, NewUpscaleService
<1> QED
  BY <1>1, <1>2, <1>3, <1>4, <1>5, <1>6, <1>7, <1>8 DEF WorkerStep

\* If the latest row of an image does not keep a request waiting, no row of it is unfinished:
\* an unfinished one would be the last, and so the one LatestByAsset returns.
LEMMA LatestDecides ==
    ASSUME Basics, OnlyLatestLive, NEW x \in Images,
           Latest(x) # 0 => ~Live(Latest(x))
    PROVE  \A t \in Rows : image[t] = x => ~Live(t)
<1> SUFFICES ASSUME NEW t \in Rows, image[t] = x, Live(t) PROVE FALSE
  OBVIOUS
<1> DEFINE mine == {u \in 1..born : image[u] = x}
<1>1. t \in mine /\ \A u \in mine : u <= t
  BY DEF OnlyLatestLive, Basics, TypeOK
<1>2. Latest(x) = CHOOSE u \in mine : \A v \in mine : v <= u
  BY <1>1 DEF Latest
<1>3. Latest(x) \in mine /\ \A v \in mine : v <= Latest(x)
  BY <1>1, <1>2
<1>4. Latest(x) = t /\ t # 0
  BY <1>1, <1>3 DEF Basics, TypeOK
<1> QED
  BY <1>4

\* The mutex serialises look-up, INSERT and send.
LEMMA MutexStep == Basics /\ MutexInv /\ [Next]_vars => MutexInv'
<1> SUFFICES ASSUME Basics, MutexInv, [Next]_vars PROVE MutexInv'
  OBVIOUS
<1>b. Basics'
  BY BasicsStep
<1> USE CapsAssumption DEF rowVars, callVars, workerVars, envVars
<1>r. 1..born \subseteq Tasks /\ born \in Nat
  BY BoundsAssumption DEF Basics, TypeOK
<1>1. ASSUME RowsCalm PROVE OnlyLatestLive'
  BY <1>1, <1>r DEF RowsCalm, OnlyLatestLive, MutexInv, Live
<1>2. ASSUME RowsCalm, UNCHANGED <<pc, wants>> PROVE FreeToInsert'
  BY <1>2, <1>r DEF RowsCalm, FreeToInsert, MutexInv, Live
<1>3. ASSUME UNCHANGED <<pc, queue>> PROVE RoomKept'
  BY <1>3 DEF RoomKept, MutexInv
<1>4. CASE \/ \E t \in Tasks : RemoveResult(t)
           \/ RequeueInterrupted \/ ListQueued \/ TakeRecovered \/ GetByUID \/ MarkRunning \/ Finish
           \/ RequeueInterruptedFails \/ ListQueuedFails \/ ProcessFails \/ FinishFails
           \/ NewUpscaleService
  <2>1. RowsCalm
    BY <1>4, OnlyInsertAddsWork DEF WorkerStep
  <2>2. UNCHANGED <<pc, wants, queue>>
    BY <1>4 DEF RemoveResult, RequeueInterrupted, ListQueued, TakeRecovered, GetByUID, MarkRunning,
                Finish, RequeueInterruptedFails, ListQueuedFails, ProcessFails, FinishFails,
                NewUpscaleService
  <2> QED
    BY <1>1, <1>2, <1>3, <2>1, <2>2 DEF MutexInv
<1>5. CASE Receive
  <2>1. RowsCalm
    BY <1>5, OnlyInsertAddsWork DEF WorkerStep
  <2>2. UNCHANGED <<pc, wants>> /\ Len(queue') < Len(queue)
    BY <1>5 DEF Receive, Basics, TypeOK
  <2>3. RoomKept'
    BY <2>2, <1>b DEF RoomKept, MutexInv, Basics, TypeOK
  <2> QED
    BY <1>1, <1>2, <2>1, <2>2, <2>3 DEF MutexInv
<1>6. CASE Exit
  <2>1. RowsCalm
    BY <1>6, OnlyInsertAddsWork
  <2> QED
    BY <1>1, <1>6, <2>1 DEF MutexInv, Exit, FreeToInsert, RoomKept
<1>7. ASSUME NEW r \in Requests,
             \/ \E x \in Images : Lock(r, x)
             \/ ReadLatest(r) \/ ReadResultFails(r) \/ ReadLatestFails(r) \/ JudgeFull(r) \/ Send(r)
      PROVE  MutexInv'
  <2>1. RowsCalm
    BY <1>7, OnlyInsertAddsWork
  <2>2. \A s \in Requests \ {r} : pc'[s] = "idle"
    BY <1>7, NullAssumption
    DEF Lock, ReadLatest, ReadResultFails, ReadLatestFails, JudgeFull, Send, Go, Return, Basics, TypeOK, Attached
  <2>3. CASE pc'[r] \in {"idle", "reading"}
    BY <1>1, <2>1, <2>2, <2>3 DEF MutexInv, FreeToInsert, RoomKept
  <2>4. CASE pc'[r] \notin {"idle", "reading"}
    <3>1. \/ pc[r] = "reading" /\ pc'[r] = "judging" /\ (Latest(wants[r]) # 0 => ~Live(Latest(wants[r])))
          \/ pc[r] = "judging" /\ pc'[r] = "inserting" /\ Len(queue) < QueueCap
      BY <1>7, <2>4
      DEF Lock, ReadLatest, ReadResultFails, ReadLatestFails, JudgeFull, Send, Go, Return, Basics, TypeOK,
          Answers, Live, Unfinished
    <3>2. wants' = wants /\ queue' = queue /\ wants[r] \in Images
      BY <1>7, <2>4, <3>1
      DEF Lock, ReadLatest, ReadResultFails, ReadLatestFails, JudgeFull, Send, Go, Return, Basics, TypeOK, Attached
    <3>3. \A t \in Rows : image[t] = wants[r] => ~Live(t)
      BY <3>1, <3>2, LatestDecides DEF MutexInv, FreeToInsert
    <3>4. FreeToInsert'
      BY <1>r, <2>1, <2>2, <3>2, <3>3 DEF RowsCalm, FreeToInsert, Live
    <3>5. RoomKept'
      BY <2>2, <3>1, <3>2 DEF RoomKept
    <3> QED
      BY <1>1, <2>1, <3>4, <3>5 DEF MutexInv
  <2> QED
    BY <2>3, <2>4
<1>8. ASSUME NEW r \in Requests, Insert(r) \/ InsertFails(r) PROVE MutexInv'
  <2>1. \A s \in Requests \ {r} : pc'[s] = "idle"
    BY <1>8, NullAssumption DEF Insert, InsertFails, Return, Basics, TypeOK, Attached
  <2>2. pc[r] = "inserting" /\ pc'[r] \in {"sending", "idle"} /\ queue' = queue
    BY <1>8 DEF Insert, InsertFails, Return, Basics, TypeOK
  <2>3. FreeToInsert' /\ RoomKept'
    BY <2>1, <2>2 DEF FreeToInsert, RoomKept, MutexInv
  <2>4. CASE UNCHANGED rowVars
    BY <2>3, <2>4 DEF MutexInv, OnlyLatestLive, Live
  <2>5. CASE NewRow(wants[r])
    <3>1. born' = born + 1 /\ \A t \in Rows : image'[t] = image[t] /\ status'[t] = status[t]
      BY <2>5 DEF NewRow, SetStatus, Basics, TypeOK
    <3>2. image'[born + 1] = wants[r]
      BY <1>r, <2>5, BoundsAssumption DEF NewRow, Basics, TypeOK
    <3>3. \A t \in Rows : image[t] = wants[r] => ~Live(t)
      BY <2>2 DEF FreeToInsert, MutexInv
    <3>4. \A t, u \in 1..born + 1 : image'[t] = image'[u] /\ t < u => t \in Rows /\ ~Live(t)
      BY <1>r, <3>1, <3>2, <3>3 DEF OnlyLatestLive, MutexInv
    <3>5. OnlyLatestLive'
      BY <3>1, <3>4 DEF OnlyLatestLive, Live
    <3> QED
      BY <2>3, <3>5 DEF MutexInv
  <2> QED
    BY <1>8, <2>4, <2>5 DEF Insert, InsertFails
<1>9. CASE UNCHANGED vars
  BY <1>9 DEF vars, MutexInv, RoomKept, OnlyLatestLive, FreeToInsert, Live
<1> QED
  BY <1>4, <1>5, <1>6, <1>7, <1>8, <1>9 DEF Next, RequestStep, WorkerStep

-----------------------------------------------------------------------------
(* The worker: no task twice                                               *)

\* A task this process has upscaled does not wait any more, and a process that has not
\* recovered yet has upscaled none.
RunsInv ==
    /\ \A t \in Tasks : runs[t] <= 1
    /\ \A t \in Tasks : status[t] \in {"none", "queued"} => runs[t] = 0
    /\ wpc \in {"down", "requeueing"} => \A t \in Tasks : runs[t] = 0

\* Only MarkRunning, which finds the row queued, counts; only a process that has done nothing
\* yet puts running rows back.
LEMMA RunsStep == Basics /\ RunsInv /\ [Next]_vars => RunsInv'
<1> SUFFICES ASSUME Basics, RunsInv, [Next]_vars PROVE RunsInv'
  OBVIOUS
<1> USE DEF RunsInv, rowVars, callVars, workerVars, envVars, Basics, TypeOK
<1>1. CASE \E r \in Requests : \/ \E x \in Images : Lock(r, x)
                               \/ ReadLatest(r) \/ ReadResultFails(r) \/ ReadLatestFails(r)
                               \/ JudgeFull(r) \/ Send(r)
  BY <1>1 DEF Lock, ReadLatest, ReadResultFails, ReadLatestFails, JudgeFull, Send
<1>2. ASSUME NEW r \in Requests, Insert(r) \/ InsertFails(r) PROVE RunsInv'
  <2>1. CASE UNCHANGED rowVars
    BY <1>2, <2>1 DEF Insert, InsertFails
  <2>2. CASE NewRow(wants[r])
    <3>1. status[born + 1] = "none" /\ status' = [status EXCEPT ![born + 1] = "queued"]
      BY <2>2, BoundsAssumption DEF NewRow, SetStatus
    <3> QED
      BY <1>2, <3>1 DEF Insert, InsertFails
  <2> QED
    BY <1>2, <2>1, <2>2 DEF Insert, InsertFails
<1>3. CASE (\E t \in Tasks : RemoveResult(t)) \/ NewUpscaleService
  BY <1>3 DEF RemoveResult, NewUpscaleService, Turn
<1>4. CASE RequeueInterrupted \/ RequeueInterruptedFails
  BY <1>4 DEF RequeueInterrupted, RequeueInterruptedFails, Requeue, Turn, Ready
<1>5. CASE ListQueued \/ ListQueuedFails \/ TakeRecovered \/ Receive \/ GetByUID \/ FinishFails
  BY <1>5 DEF ListQueued, ListQueuedFails, TakeRecovered, Receive, GetByUID, FinishFails, Turn, Ready
<1>6. CASE MarkRunning
  <2>1. cur \in Tasks
    BY <1>6, BoundsAssumption DEF MarkRunning, Attached, Busy
  <2>2. CASE IsQueued(cur)
    <3>1. /\ status' = [status EXCEPT ![cur] = "running"]
          /\ runs' = [runs EXCEPT ![cur] = runs[cur] + 1]
          /\ wpc' = "upscaling" /\ runs[cur] = 0
      BY <1>6, <2>1, <2>2 DEF MarkRunning, SetStatus, IsQueued
    <3> QED
      BY <2>1, <3>1
  <2>3. CASE ~IsQueued(cur)
    BY <1>6, <2>3 DEF MarkRunning, Ready
  <2> QED
    BY <2>2, <2>3
<1>7. CASE ProcessFails
  BY <1>7 DEF ProcessFails, SetStatus, Ready
<1>8. CASE Finish
  BY <1>8 DEF Finish, SetStatus, Ready
<1>9. CASE Exit
  BY <1>9 DEF Exit
<1>10. CASE UNCHANGED vars
  BY <1>10 DEF vars
<1> QED
  BY <1>1, <1>2, <1>3, <1>4, <1>5, <1>6, <1>7, <1>8, <1>9, <1>10 DEF Next, RequestStep, WorkerStep

-----------------------------------------------------------------------------
(* The channel and the recovery: nothing lost, nothing overtaken           *)

\* Rows go through the channel in the order of their insertion.
QueueOrdered == \A m, n \in 1..Len(queue) : m < n => queue[m] < queue[n]

\* A row about to be sent is younger than all rows in the channel.
SendsLast == \A r \in Requests : pc[r] = "sending" => \A n \in 1..Len(queue) : queue[n] < born

ChannelInv == QueueOrdered /\ SendsLast

\* Send appends the youngest row, Receive takes the oldest one.
LEMMA ChannelStep == Basics /\ ChannelInv /\ [Next]_vars => ChannelInv'
<1> SUFFICES ASSUME Basics, ChannelInv, [Next]_vars PROVE ChannelInv'
  OBVIOUS
<1> USE DEF ChannelInv, QueueOrdered, SendsLast, rowVars, callVars, workerVars, envVars
<1>1. ASSUME NEW r \in Requests,
             \/ \E x \in Images : Lock(r, x)
             \/ ReadLatest(r) \/ ReadResultFails(r) \/ ReadLatestFails(r) \/ JudgeFull(r)
      PROVE  ChannelInv'
  <2>1. \A s \in Requests : pc'[s] = "sending" => pc[s] = "sending"
    BY <1>1 DEF Lock, ReadLatest, ReadResultFails, ReadLatestFails, JudgeFull, Go, Return, Basics, TypeOK
  <2>2. UNCHANGED <<queue, born>>
    BY <1>1 DEF Lock, ReadLatest, ReadResultFails, ReadLatestFails, JudgeFull
  <2> QED
    BY <2>1, <2>2
<1>2. ASSUME NEW r \in Requests, Insert(r) \/ InsertFails(r) PROVE ChannelInv'
  <2>1. queue' = queue /\ (born' = born + 1 \/ (born' = born /\ pc'[r] = "idle"))
    BY <1>2 DEF Insert, InsertFails, NewRow, Return, Basics, TypeOK
  <2>2. \A s \in Requests \ {r} : pc'[s] = "idle"
    BY <1>2, NullAssumption DEF Insert, InsertFails, Return, Basics, TypeOK, Attached
  <2>3. \A n \in 1..Len(queue) : queue[n] < born + 1
    BY DEF Basics, TypeOK
  <2> QED
    BY <2>1, <2>2, <2>3
<1>3. ASSUME NEW r \in Requests, Send(r) PROVE ChannelInv'
  <2>1. queue' = Append(queue, born) /\ born' = born
    BY <1>3 DEF Send, Basics, Attached
  <2>2. \A s \in Requests : pc'[s] = "idle"
    BY <1>3, NullAssumption DEF Send, Return, Basics, TypeOK, Attached
  <2>3. \A n \in 1..Len(queue) : queue[n] < born
    BY <1>3 DEF Send
  <2>4. queue \in Seq(Nat) /\ born \in Nat
    BY DEF Basics, TypeOK
  <2>5. Len(queue') = Len(queue) + 1 /\ queue'[Len(queue) + 1] = born
        /\ \A n \in 1..Len(queue) : queue'[n] = queue[n]
    BY <2>1, <2>4
  <2>6. QueueOrdered'
    <3> SUFFICES ASSUME NEW m \in 1..Len(queue'), NEW n \in 1..Len(queue'), m < n
                 PROVE  queue'[m] < queue'[n]
      BY DEF QueueOrdered
    <3>1. m \in 1..Len(queue) /\ (n \in 1..Len(queue) \/ n = Len(queue) + 1)
      BY <2>4, <2>5
    <3> QED
      BY <2>3, <2>5, <3>1 DEF QueueOrdered
  <2> QED
    BY <2>2, <2>6
<1>4. CASE Receive
  <2>1. queue \in Seq(Nat) /\ queue # <<>>
    BY <1>4 DEF Receive, Basics, TypeOK
  <2>2. Len(queue') = Len(queue) - 1 /\ \A n \in 1..Len(queue') : queue'[n] = queue[n + 1]
    BY <1>4, <2>1 DEF Receive
  <2>3. pc' = pc /\ born' = born
    BY <1>4 DEF Receive
  <2>4. Len(queue) \in Nat /\ \A n \in 1..Len(queue') : n + 1 \in 1..Len(queue)
    BY <2>1, <2>2
  <2>5. QueueOrdered'
    BY <2>2, <2>4
  <2>6. SendsLast'
    BY <2>2, <2>3, <2>4
  <2> QED
    BY <2>5, <2>6
<1>5. CASE \/ \E t \in Tasks : RemoveResult(t)
           \/ RequeueInterrupted \/ ListQueued \/ TakeRecovered \/ GetByUID \/ MarkRunning \/ Finish
           \/ RequeueInterruptedFails \/ ListQueuedFails \/ ProcessFails \/ FinishFails
           \/ NewUpscaleService \/ UNCHANGED vars
  BY <1>5 DEF RemoveResult, RequeueInterrupted, ListQueued, TakeRecovered, GetByUID, MarkRunning,
              Finish, RequeueInterruptedFails, ListQueuedFails, ProcessFails, FinishFails,
              NewUpscaleService, vars
<1>6. CASE Exit
  BY <1>6 DEF Exit
<1> QED
  BY <1>1, <1>2, <1>3, <1>4, <1>5, <1>6 DEF Next, RequestStep, WorkerStep

\* The task in the upscaler is the running one and, until a statement fails, the only one.
RunningOwned ==
    /\ wpc = "upscaling" => status[cur] = "running"
    /\ ~dirty /\ wpc \notin {"down", "requeueing"} =>
          \A t \in Rows : status[t] = "running" => wpc = "upscaling" /\ t = cur

\* What the recovery listed comes before everything else that is unfinished.
RecoveredFirst ==
    ~dirty => \A u \in rec, t \in Rows : Awaited(t) /\ t < u => t \in rec \/ t = cur

\* Nothing older than the worker's task is unfinished.
ServedInOrder ==
    ~dirty /\ wpc \in Busy => \A t \in Rows : t < cur => ~Awaited(t)

SightInv == RunningOwned /\ NothingStranded /\ RecoveredFirst /\ ServedInOrder

\* A statement that fails ends what is promised of this process.
LEMMA SightFaults ==
    ASSUME Basics, SightInv,
           RequeueInterruptedFails \/ ListQueuedFails \/ ProcessFails \/ FinishFails
    PROVE  SightInv'
  BY DEF SightInv, RunningOwned, NothingStranded, RecoveredFirst, ServedInOrder, Fault, Ready,
         RequeueInterruptedFails, ListQueuedFails, ProcessFails, FinishFails

\* Requests that do not reach their send, and deletions of results, change nobody's place.
LEMMA SightRequest ==
    ASSUME Basics, SightInv,
           \/ \E t \in Tasks : RemoveResult(t)
           \/ \E r \in Requests : \/ \E x \in Images : Lock(r, x)
                                  \/ ReadLatest(r) \/ ReadResultFails(r) \/ ReadLatestFails(r)
                                  \/ JudgeFull(r)
                                  \/ InsertFails(r) /\ UNCHANGED rowVars
    PROVE  SightInv'
<1> USE DEF rowVars, callVars, workerVars, envVars
<1>1. UNCHANGED <<status, born, queue, wpc, cur, rec, beyond, dirty>>
  BY DEF RemoveResult, Lock, ReadLatest, ReadResultFails, ReadLatestFails, JudgeFull, InsertFails,
         NewRow, Basics, TypeOK
<1>2. \A s \in Requests : pc[s] = "sending" => pc'[s] = "sending" /\ row'[s] = row[s]
  BY DEF RemoveResult, Lock, ReadLatest, ReadResultFails, ReadLatestFails, JudgeFull, InsertFails,
         Go, Return, Basics, TypeOK
<1>3. \A t \in Rows : InSight(t) => InSight(t)'
  BY <1>1, <1>2 DEF InSight
<1> QED
  BY <1>1, <1>3 DEF SightInv, RunningOwned, NothingStranded, RecoveredFirst, ServedInOrder, Awaited, Live

\* A new row is younger than all others, and about to be sent.
LEMMA SightInsert ==
    ASSUME Basics, SightInv, NEW r \in Requests,
           Insert(r) \/ (InsertFails(r) /\ NewRow(wants[r]))
    PROVE  SightInv'
<1> USE DEF callVars, workerVars, envVars
<1>1. born \in Nat /\ born' = born + 1 /\ UNCHANGED <<queue, wpc, cur, rec, beyond>>
  BY BoundsAssumption DEF Insert, InsertFails, NewRow, Fault, Basics, TypeOK
<1>2. /\ \A t \in Rows : status'[t] = status[t]
      /\ status'[born + 1] = "queued"
  BY <1>1, BoundsAssumption DEF Insert, NewRow, SetStatus, Basics, TypeOK
<1>3. wpc \in Busy <=> cur \in Rows
  BY NullAssumption DEF Basics, TypeOK, Attached
<1>4. RunningOwned'
  <2>1. wpc = "upscaling" => status'[cur] = "running"
    BY <1>2, <1>3 DEF SightInv, RunningOwned, Busy
  <2>2. dirty' \/ dirty' = dirty
    BY DEF Insert, InsertFails, Fault
  <2> QED
    BY <1>1, <1>2, <2>1, <2>2 DEF SightInv, RunningOwned
<1>5. CASE dirty'
  BY <1>4, <1>5 DEF SightInv, NothingStranded, RecoveredFirst, ServedInOrder
<1>6. CASE ~dirty'
  <2>0. 1..born' = Rows \cup {born + 1}
    BY <1>1
  <2>1. Insert(r) /\ ~dirty
    BY <1>1, <1>6 DEF Insert, InsertFails, Fault, rowVars, Basics, TypeOK
  <2>2. \A s \in Requests : pc[s] = "sending" => pc'[s] = "sending" /\ row'[s] = row[s]
    BY <2>1 DEF Insert, Basics, TypeOK
  <2>3. pc'[r] = "sending" /\ row'[r] = born + 1
    BY <2>1 DEF Insert, Basics, TypeOK
  <2>4. \A t \in Rows : InSight(t) => InSight(t)'
    BY <1>1, <2>2 DEF InSight
  <2>5. \A t : t = born + 1 => InSight(t)'
    BY <2>3 DEF InSight
  <2>6. NothingStranded'
    BY <1>1, <1>2, <2>0, <2>1, <2>4, <2>5 DEF SightInv, NothingStranded, Awaited, Live, Insert
  <2>7. RecoveredFirst'
    <3>1. \A u \in rec : u \in Nat /\ u <= born
      BY <1>1 DEF Basics, TypeOK
    <3> QED
      BY <1>1, <1>2, <2>0, <2>1, <3>1 DEF SightInv, RecoveredFirst, Awaited, Live
  <2>8. ServedInOrder'
    BY <1>1, <1>2, <1>3, <2>1 DEF SightInv, ServedInOrder, Awaited, Live
  <2> QED
    BY <1>4, <2>6, <2>7, <2>8 DEF SightInv
<1> QED
  BY <1>5, <1>6

\* The row goes from its request to the channel.
LEMMA SightSend ==
    ASSUME Basics, SightInv, NEW r \in Requests, Send(r)
    PROVE  SightInv'
<1> USE DEF rowVars, workerVars, envVars
<1>1. UNCHANGED <<status, born, wpc, cur, rec, beyond, dirty>> /\ queue' = Append(queue, row[r])
  BY DEF Send
<1>2. \A s \in Requests \ {r} : pc[s] = "idle"
  BY DEF Send, Basics, Attached
<1>3. queue \in Seq(Nat) /\ row[r] \in Nat
  BY DEF Basics, TypeOK, Attached, Send
<1>4. /\ Len(queue') = Len(queue) + 1 /\ queue'[Len(queue) + 1] = row[r]
      /\ \A n \in 1..Len(queue) : queue'[n] = queue[n]
  BY <1>1, <1>3
<1>5. \A t \in Rows : InSight(t) => InSight(t)'
  <2> SUFFICES ASSUME NEW t \in Rows, InSight(t) PROVE InSight(t)'
    OBVIOUS
  <2>1. CASE \E n \in 1..Len(queue) : queue[n] = t
    BY <1>3, <1>4, <2>1 DEF InSight
  <2>2. CASE \E s \in Requests : pc[s] = "sending" /\ row[s] = t
    <3>1. row[r] = t
      BY <1>2, <2>2
    <3>2. Len(queue) + 1 \in 1..Len(queue')
      BY <1>3, <1>4
    <3> QED
      BY <1>4, <3>1, <3>2 DEF InSight
  <2> QED
    BY <1>1, <2>1, <2>2 DEF InSight
<1> QED
  BY <1>1, <1>5 DEF SightInv, RunningOwned, NothingStranded, RecoveredFirst, ServedInOrder, Awaited, Live

\* The recovery puts running rows back, and then lists all that wait, up to its limit.
LEMMA SightRecovery ==
    ASSUME Basics, SightInv, RequeueInterrupted \/ ListQueued
    PROVE  SightInv'
<1> USE DEF rowVars, callVars, workerVars, envVars
<1>1. CASE RequeueInterrupted
  <2>1. wpc' = "listing" /\ rec' = {} /\ \A t \in Tasks : status'[t] # "running"
    BY <1>1 DEF RequeueInterrupted, Requeue, Turn, Basics, TypeOK, Attached
  <2>2. \A t \in 1..born' : t \in Tasks
    BY <1>1, BoundsAssumption DEF RequeueInterrupted, Basics, TypeOK
  <2> QED
    BY <2>1, <2>2 DEF SightInv, RunningOwned, NothingStranded, RecoveredFirst, ServedInOrder, Busy
<1>2. CASE ListQueued
  <2>1. wpc = "listing" /\ wpc' = "ready" /\ rec' = Listed /\ UNCHANGED <<status, born, queue, cur>>
    BY <1>2 DEF ListQueued
  <2>2. RunningOwned' /\ ServedInOrder'
    BY <1>2, <2>1 DEF ListQueued, SightInv, RunningOwned, ServedInOrder, Busy, Basics, TypeOK
  <2>3. CASE ~dirty'
    <3>1. ~dirty /\ beyond' = Queued \ Listed
      BY <1>2, <2>3 DEF ListQueued, Basics, TypeOK
    <3>2. \A t \in Rows : Live(t) => t \in Queued
      BY <2>1, <3>1, BoundsAssumption DEF SightInv, RunningOwned, Live, Unfinished, Queued, Basics, TypeOK
    <3>3. \A t \in Rows : Awaited(t)' => t \in rec'
      BY <2>1, <3>1, <3>2 DEF Awaited, Live
    <3> QED
      BY <2>1, <2>2, <3>3 DEF SightInv, NothingStranded, RecoveredFirst, InSight
  <2>4. CASE dirty'
    BY <2>2, <2>4 DEF SightInv, NothingStranded, RecoveredFirst
  <2> QED
    BY <2>3, <2>4
<1> QED
  BY <1>1, <1>2

\* The worker takes its next task: the oldest listed row, or the head of the channel when none
\* is left.  Either is the oldest unfinished row, if it is unfinished at all.
LEMMA SightTake ==
    ASSUME Basics, ChannelInv, SightInv, TakeRecovered \/ Receive
    PROVE  SightInv'
<1> USE DEF rowVars, callVars, workerVars, envVars
<1>1. UNCHANGED <<status, born, pc, row, beyond, dirty>> /\ wpc = "ready" /\ wpc' = "fetching" /\ cur = NULL
  BY DEF TakeRecovered, Receive, Basics, Attached, Busy
<1>2. RunningOwned'
  BY <1>1 DEF SightInv, RunningOwned
<1>3. CASE dirty
  BY <1>1, <1>2, <1>3 DEF SightInv, NothingStranded, RecoveredFirst, ServedInOrder
<1>4. CASE ~dirty /\ TakeRecovered
  <2>1. /\ cur' \in rec /\ (\A u \in rec : cur' <= u) /\ rec' = rec \ {cur'}
        /\ queue' = queue
    BY <1>4 DEF TakeRecovered
  <2>2. \A t \in Rows : InSight(t) => InSight(t)'
    BY <1>1, <2>1, NullAssumption DEF InSight, Busy
  <2>3. NothingStranded'
    BY <1>1, <1>4, <2>2 DEF SightInv, NothingStranded, Awaited, Live
  <2>4. \A u \in rec, t \in Rows : Awaited(t) /\ t < u => t \in rec
    BY <1>1, <1>4, NullAssumption DEF SightInv, RecoveredFirst, Basics, TypeOK
  <2>5. RecoveredFirst'
    BY <1>1, <2>1, <2>4 DEF RecoveredFirst, Awaited, Live
  <2>6. ServedInOrder'
    BY <1>1, <2>1, <2>4 DEF ServedInOrder, Awaited, Live, Basics, TypeOK
  <2> QED
    BY <1>2, <2>3, <2>5, <2>6 DEF SightInv
<1>5. CASE ~dirty /\ Receive
  <2>1. rec = {} /\ rec' = {} /\ queue # <<>> /\ cur' = Head(queue) /\ queue' = Tail(queue)
    BY <1>5 DEF Receive
  <2>2. queue \in Seq(Nat) /\ Len(queue) \in Nat /\ Len(queue) > 0 /\ cur' = queue[1]
    BY <2>1 DEF Basics, TypeOK
  <2>3. Len(queue') = Len(queue) - 1 /\ \A n \in 1..Len(queue') : queue'[n] = queue[n + 1]
    BY <2>1, <2>2
  <2>4. \A t \in Rows : InSight(t) => InSight(t)'
    <3> SUFFICES ASSUME NEW t \in Rows, InSight(t) PROVE InSight(t)'
      OBVIOUS
    <3>1. ASSUME NEW n \in 1..Len(queue), queue[n] = t PROVE InSight(t)'
      <4>1. CASE n = 1
        BY <1>1, <2>2, <3>1, <4>1 DEF InSight
      <4>2. CASE n # 1
        <5>1. n - 1 \in 1..Len(queue') /\ queue'[n - 1] = t
          BY <2>2, <2>3, <3>1, <4>2
        <5> QED
          BY <5>1 DEF InSight
      <4> QED
        BY <4>1, <4>2
    <3> QED
      BY <1>1, <2>1, <3>1 DEF InSight
  <2>5. NothingStranded'
    BY <1>1, <1>5, <2>4 DEF SightInv, NothingStranded, Awaited, Live
  <2>6. ASSUME NEW t \in Rows, t < queue[1], Awaited(t) PROVE FALSE
    <3>1. InSight(t)
      BY <1>1, <1>5, <2>6 DEF SightInv, NothingStranded
    <3>2. ASSUME NEW n \in 1..Len(queue), queue[n] = t PROVE FALSE
      BY <2>2, <2>6, <3>2 DEF ChannelInv, QueueOrdered
    <3>3. ASSUME NEW r \in Requests, pc[r] = "sending", row[r] = t PROVE FALSE
      BY <2>2, <2>6, <3>3 DEF ChannelInv, SendsLast, Basics, TypeOK, Attached
    <3> QED
      BY <1>1, <2>1, <3>1, <3>2, <3>3 DEF InSight
  <2>7. ServedInOrder'
    BY <1>1, <2>2, <2>6 DEF ServedInOrder, Awaited, Live
  <2> QED
    BY <1>2, <2>1, <2>5, <2>7 DEF SightInv, RecoveredFirst
<1> QED
  BY <1>3, <1>4, <1>5

\* A task leaves the worker only when it is no longer unfinished.
LEMMA SightProcess ==
    ASSUME Basics, SightInv, GetByUID \/ MarkRunning \/ Finish
    PROVE  SightInv'
<1> USE DEF rowVars, callVars, workerVars, envVars
<1>1. /\ UNCHANGED <<born, queue, pc, row, rec, beyond, dirty>>
      /\ cur \in Rows /\ cur \in Tasks /\ wpc \in Busy /\ status[cur] # "none"
  BY BoundsAssumption, NullAssumption
  DEF GetByUID, MarkRunning, Finish, Turn, Ready, Basics, TypeOK, Attached, Busy
<1>2. \A t \in Rows : t # cur => status'[t] = status[t]
  <2>1. status' = status \/ \E v : status' = [status EXCEPT ![cur] = v]
    BY DEF GetByUID, MarkRunning, Finish, SetStatus
  <2>2. status \in [Tasks -> {"none", "queued", "running", "done", "failed"}] /\ Rows \subseteq Tasks
    BY BoundsAssumption DEF Basics, TypeOK
  <2> QED
    BY <2>1, <2>2
<1>3. CASE wpc' = "ready"
  <2>1. cur' = NULL /\ (~dirty => status'[cur] \notin {"queued", "running"})
    <3>1. CASE GetByUID \/ MarkRunning
      BY <1>1, <1>3, <3>1 DEF GetByUID, MarkRunning, IsQueued, Turn, Ready, SightInv, RunningOwned, Busy
    <3>2. CASE Finish
      BY <1>1, <1>3, <3>2 DEF Finish, SetStatus, Ready, SightInv, RunningOwned, Basics, TypeOK
    <3> QED
      BY <3>1, <3>2
  <2>2. ~dirty => \A t \in Rows : Awaited(t)' => t # cur /\ Awaited(t)
    BY <1>1, <1>2, <2>1 DEF Awaited, Live, Unfinished
  <2>3. ~dirty => \A t \in Rows : Awaited(t)' => InSight(t)'
    BY <1>1, <2>2, NullAssumption DEF SightInv, NothingStranded, InSight, Busy
  <2>4. RunningOwned'
    BY <1>1, <1>2, <1>3, <2>1 DEF SightInv, RunningOwned, Busy
  <2>5. RecoveredFirst'
    BY <1>1, <2>2 DEF SightInv, RecoveredFirst
  <2> QED
    BY <1>1, <1>3, <2>3, <2>4, <2>5 DEF SightInv, NothingStranded, ServedInOrder, Busy
<1>4. CASE wpc' # "ready"
  <2>1. /\ cur' = cur /\ wpc' \in Busy /\ status'[cur] \in {"queued", "running"} /\ status[cur] = "queued"
        /\ wpc' = "upscaling" <=> status'[cur] = "running"
    BY <1>1, <1>4 DEF GetByUID, MarkRunning, Finish, IsQueued, Turn, Ready, SetStatus, Busy, Basics, TypeOK
  <2>2. \A t \in Rows : Awaited(t)' => Awaited(t)
    BY <1>1, <1>2, <2>1 DEF Awaited, Live, Unfinished
  <2>3. ~dirty => \A t \in Rows : Awaited(t) => InSight(t)'
    BY <1>1, <2>1 DEF SightInv, NothingStranded, InSight, Busy
  <2>4. RunningOwned'
    BY <1>1, <1>2, <2>1 DEF SightInv, RunningOwned, Busy
  <2>5. RecoveredFirst' /\ ServedInOrder'
    BY <1>1, <2>1, <2>2 DEF SightInv, RecoveredFirst, ServedInOrder
  <2> QED
    BY <1>1, <2>2, <2>3, <2>4, <2>5 DEF SightInv, NothingStranded
<1> QED
  BY <1>3, <1>4

\* Exit and NewUpscaleService promise nothing before the recovery is done.
LEMMA SightRestart ==
    ASSUME Basics, SightInv, Exit \/ NewUpscaleService
    PROVE  SightInv'
<1>1. wpc' \in {"down", "requeueing"} /\ rec' = {}
  BY DEF Exit, NewUpscaleService, Turn, Basics, Attached
<1> QED
  BY <1>1 DEF SightInv, RunningOwned, NothingStranded, RecoveredFirst, ServedInOrder, Busy

\* Every unfinished row stays in sight, in order, whatever happens next.
LEMMA SightStep == Basics /\ ChannelInv /\ SightInv /\ [Next]_vars => SightInv'
<1> SUFFICES ASSUME Basics, ChannelInv, SightInv, [Next]_vars PROVE SightInv'
  OBVIOUS
<1>1. CASE UNCHANGED vars
  BY <1>1 DEF vars, rowVars, callVars, workerVars, envVars, SightInv, RunningOwned, NothingStranded,
              RecoveredFirst, ServedInOrder, Awaited, Live, InSight
<1>2. ASSUME NEW r \in Requests, InsertFails(r) PROVE SightInv'
  <2>1. UNCHANGED rowVars \/ NewRow(wants[r])
    BY <1>2 DEF InsertFails, rowVars
  <2> QED
    BY <1>2, <2>1, SightRequest, SightInsert
<1>3. CASE Next
  BY <1>2, <1>3, SightFaults, SightRequest, SightInsert, SightSend, SightRecovery, SightTake,
     SightProcess, SightRestart
  DEF Next, RequestStep, WorkerStep
<1> QED
  BY <1>1, <1>3

-----------------------------------------------------------------------------
UpscaleInv == Basics /\ MutexInv /\ RunsInv /\ ChannelInv /\ SightInv

\* All of it holds of an empty table.
LEMMA UpscaleInit == Init => UpscaleInv
<1> SUFFICES ASSUME Init PROVE UpscaleInv
  OBVIOUS
<1>1. Basics
  BY BasicsInit
<1>2. MutexInv
  BY DEF Init, MutexInv, RoomKept, OnlyLatestLive, FreeToInsert
<1>3. RunsInv
  BY DEF Init, RunsInv
<1>4. ChannelInv
  BY DEF Init, ChannelInv, QueueOrdered, SendsLast
<1>5. SightInv
  BY DEF Init, SightInv, RunningOwned, NothingStranded, RecoveredFirst, ServedInOrder, Busy
<1> QED
  BY <1>1, <1>2, <1>3, <1>4, <1>5 DEF UpscaleInv

\* The inductive invariant of the upscale queue: Enqueue under its mutex, the channel, the
\* recovery and process, through failing statements and restarts.
THEOREM UpscaleInvariant == Spec => []UpscaleInv
<1>1. UpscaleInv /\ [Next]_vars => UpscaleInv'
  BY BasicsStep, MutexStep, RunsStep, ChannelStep, SightStep DEF UpscaleInv
<1> QED
  BY <1>1, UpscaleInit, PTL DEF Spec

\* The state of the upscale queue stays well typed: rows have images, the channel and the
\* worker only name rows that Enqueue inserted.
THEOREM UpscaleTypeCorrect == Spec => []TypeOK
<1>1. UpscaleInv => TypeOK
  BY DEF UpscaleInv, Basics
<1> QED
  BY <1>1, UpscaleInvariant, PTL

\* However many clicks, lost answers and restarts, Enqueue never leaves an image with two
\* unfinished rows.
THEOREM OneTaskPerImage == Spec => []OneLiveTaskPerImage
<1>1. UpscaleInv => OneLiveTaskPerImage
  BY DEF UpscaleInv, MutexInv, OnlyLatestLive, OneLiveTaskPerImage, Basics, TypeOK
<1> QED
  BY <1>1, UpscaleInvariant, PTL

\* The send in Enqueue, under the mutex, always finds room, for every capacity.
THEOREM NoBlockedSend == Spec => []SendNeverBlocks
<1>1. UpscaleInv => SendNeverBlocks
  BY DEF UpscaleInv, MutexInv, RoomKept, SendNeverBlocks
<1> QED
  BY <1>1, UpscaleInvariant, PTL

\* One process never upscales a task twice, though recoverPending and the channel may both
\* name it.
THEOREM UpscaledOnce == Spec => []OncePerProcess
<1>1. UpscaleInv => OncePerProcess
  BY DEF UpscaleInv, RunsInv, OncePerProcess
<1> QED
  BY <1>1, UpscaleInvariant, PTL

\* Until a statement fails, recoverPending and Enqueue together leave no unfinished row without
\* somebody who will get to it, except rows beyond the limit of recoverPending.
THEOREM NoTaskLost == Spec => []NothingStranded
<1>1. UpscaleInv => NothingStranded
  BY DEF UpscaleInv, SightInv
<1> QED
  BY <1>1, UpscaleInvariant, PTL

\* Until a statement fails, process upscales tasks in the order in which Enqueue inserted them,
\* restarts included; only rows beyond the limit of recoverPending may be overtaken.
THEOREM InOrder == Spec => []FirstComeFirstServed
<1>1. UpscaleInv => FirstComeFirstServed
  BY DEF UpscaleInv, SightInv, ServedInOrder, FirstComeFirstServed, Busy
<1> QED
  BY <1>1, UpscaleInvariant, PTL
=============================================================================
