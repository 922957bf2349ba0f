------------------------------- MODULE Images -------------------------------
(***************************************************************************)
(* Product images, their preprocessed variants, result images, and the     *)
(* nightly cleanup that deletes the expired ones: files first, rows second *)
(* and never an image of an unfinished batch.                              *)
(*                                                                         *)
(* A step is one SQL statement, or the operations on the object store that *)
(* belong to one image.  Batches are reduced to what the cleanup sees of   *)
(* them; JobQueue has the rest.  Each asset has one variant, each batch    *)
(* has one item, and so one asset and one result image, which has the      *)
(* batch's number.  The upload of an image whose file is there already     *)
(* answers with its row and changes nothing, so it is no action here.      *)
(***************************************************************************)
EXTENDS Naturals, FiniteSets

CONSTANTS
    Assets,          \* ids of uploads, in the order of their rows
    Stock,           \* those that are in the database from the start
    Batches,         \* ids of batches, and of their result images
    BatchLimit,      \* DefaultCleanupBatchLimit
    Stuck,           \* images whose file cannot be deleted
    MaxDisruptions,  \* bound: failing statements, failing deletions, crashes
    NULL

Objects == Assets \cup Batches

ASSUME IdsAssumption == Assets \subseteq Nat /\ Batches \subseteq Nat /\ Assets \cap Batches = {}
ASSUME StockAssumption == Stock \subseteq Assets
ASSUME LimitAssumption == BatchLimit \in Nat \ {0}
ASSUME StuckAssumption == Stuck \subseteq Objects
ASSUME BoundAssumption == MaxDisruptions \in Nat
ASSUME NullAssumption == NULL \notin Objects

VARIABLES
    row,          \* "live", or deleted_at set by the owner ("removed") or by the cleanup ("swept")
    old,          \* images created before the cutoff
    file,         \* images whose object is in the store
    vrow, vfile,  \* assets with a row, and with a file, for their variant
    up,           \* where the upload of an asset is
    batch, asset, \* what the cleanup sees of designkit_jobs and designkit_job_items
    wpc,          \* where the worker of a batch is
    enabled,      \* the switch is on and the retention is in range
    at, kind,     \* where the cleanup is, and in which of its two loops
    cand, todo,   \* the listed rows, and those whose files come next
    keyed, gone,  \* assets with a variant in the map; rows ready to be marked
    excused,      \* images that met the cleanup, or a lost answer, halfway
    strays,       \* images whose file a failure or a lost lease left without a row
    vstrays,      \* assets whose variant was left without a row, or recorded too late
    disruptions

rowVars   == <<row, old, vrow>>
fileVars  == <<file, vfile>>
batchVars == <<batch, asset>>
sweepVars == <<at, kind, cand, todo, keyed, gone>>
envVars   == <<enabled, disruptions>>
ghostVars == <<excused, strays, vstrays>>
vars      == <<rowVars, fileVars, up, batchVars, wpc, sweepVars, ghostVars, envVars>>

-----------------------------------------------------------------------------
Disrupt == disruptions < MaxDisruptions /\ disruptions' = disruptions + 1

\* The images a batch refers to.
Refers(b) == {asset[b], b}

\* cleanupBusyJobStatuses: an unfinished batch refers to the image.
Referenced(o) == \E b \in Batches : batch[b] = "busy" /\ o \in Refers(b)

Init ==
    /\ row = [o \in Objects |-> IF o \in Stock THEN "live" ELSE "none"]
    /\ old = {} /\ file = Stock /\ vrow = {} /\ vfile = {}
    /\ up = [a \in Assets |-> IF a \in Stock THEN "over" ELSE "new"]
    /\ batch = [b \in Batches |-> "none"]
    /\ asset = [b \in Batches |-> NULL]
    /\ wpc = [b \in Batches |-> "idle"]
    /\ enabled = FALSE
    /\ at = "idle" /\ kind = "images"
    /\ cand = {} /\ todo = {} /\ keyed = {} /\ gone = {}
    /\ excused = {} /\ strays = {} /\ vstrays = {} /\ disruptions = 0

-----------------------------------------------------------------------------
(* UploadAsset, for an image that is new, and DeleteAsset                  *)

PutAsset(a) ==
    /\ up[a] = "new"
    /\ up' = [up EXCEPT ![a] = "creating"]
    /\ file' = file \cup {a}
    /\ UNCHANGED <<rowVars, vfile, batchVars, wpc, sweepVars, ghostVars, envVars>>

CreateAsset(a) ==
    /\ up[a] = "creating"
    /\ up' = [up EXCEPT ![a] = "over"]
    /\ row' = [row EXCEPT ![a] = "live"]
    /\ UNCHANGED <<old, vrow, fileVars, batchVars, wpc, sweepVars, ghostVars, envVars>>

\* The INSERT reports an error, perhaps after taking effect; the file is deleted again.
CreateAssetFails(a) ==
    /\ up[a] = "creating"
    /\ Disrupt
    /\ up' = [up EXCEPT ![a] = "over"]
    /\ row' \in {row, [row EXCEPT ![a] = "live"]}
    /\ IF a \in Stuck
       THEN strays' = strays \cup {a} /\ UNCHANGED <<file, excused>>
       ELSE file' = file \ {a} /\ excused' = excused \cup {a} /\ UNCHANGED strays
    /\ UNCHANGED <<old, vrow, vfile, batchVars, wpc, sweepVars, vstrays, enabled>>

\* The file is kept: past batches refer to it.
DeleteAsset(a) ==
    /\ row[a] = "live"
    /\ row' = [row EXCEPT ![a] = "removed"]
    /\ excused' = excused \cup ({a} \cap (cand \cup (Assets \ file)))
    /\ UNCHANGED <<old, vrow, fileVars, up, batchVars, wpc, sweepVars, strays, vstrays, envVars>>

\* The image passes the cutoff.
Expire(o) ==
    /\ row[o] = "live" /\ o \notin old
    /\ old' = old \cup {o}
    /\ UNCHANGED <<row, vrow, fileVars, up, batchVars, wpc, sweepVars, ghostVars, envVars>>

-----------------------------------------------------------------------------
(* Batches: the images are looked up first, the rows inserted later        *)

PlanJob(b, a) ==
    /\ batch[b] = "none"
    /\ row[a] = "live"
    /\ asset' = [asset EXCEPT ![b] = a]
    /\ batch' = [batch EXCEPT ![b] = "planned"]
    /\ UNCHANGED <<rowVars, fileVars, up, wpc, sweepVars, ghostVars, envVars>>

\* The batch is there, and unfinished, from its INSERT on; what the cleanup has listed by now,
\* or deleted, may be lost to it.
CreateJobWithItems(b) ==
    /\ batch[b] = "planned"
    /\ batch' = [batch EXCEPT ![b] = "busy"]
    /\ excused' = excused \cup (Refers(b) \cap (cand \cup (Assets \ file)))
    /\ UNCHANGED <<rowVars, fileVars, up, asset, wpc, sweepVars, strays, vstrays, envVars>>

\* The batch reaches a terminal status, which it never leaves (JobQueue!TerminalIsForever).
EndJob(b) ==
    /\ batch[b] = "busy"
    /\ batch' = [batch EXCEPT ![b] = "over"]
    /\ UNCHANGED <<rowVars, fileVars, up, asset, wpc, sweepVars, ghostVars, envVars>>

\* abandonJob: the batch fails and its image stays in the queue (JobQueue has the steps).
Abandon(b) ==
    /\ batch[b] = "busy"
    /\ batch' = [batch EXCEPT ![b] = "forsaken"]
    /\ UNCHANGED <<rowVars, fileVars, up, asset, wpc, sweepVars, ghostVars, envVars>>

-----------------------------------------------------------------------------
(* The worker of a batch.  It only asks for its lease when it writes the   *)
(* result, so it may prepare an image for a batch that is over.            *)

Work(b, to) == wpc' = [wpc EXCEPT ![b] = to]

\* Images are handed out as long as they are in the queue, whatever the status of the batch.
InQueue(b) == batch[b] \in {"busy", "forsaken"}

\* The image of the batch is claimed.
Due(b) == wpc[b] = "idle" /\ InQueue(b) /\ row[b] = "none"

HasVariant(a) == a \in vrow /\ a \in vfile

\* resolveImage: no variant that can be read, so the original is fetched and preprocessed.
Preprocess(b) ==
    /\ Due(b) /\ ~HasVariant(asset[b])
    /\ row[asset[b]] = "live" /\ asset[b] \in file
    /\ Work(b, "putting")
    /\ UNCHANGED <<rowVars, fileVars, up, batchVars, sweepVars, ghostVars, envVars>>

PutVariant(b) ==
    /\ wpc[b] = "putting"
    /\ vfile' = vfile \cup {asset[b]}
    /\ Work(b, "upserting")
    /\ UNCHANGED <<rowVars, file, up, batchVars, sweepVars, ghostVars, envVars>>

\* The variant's key comes too late for the cleanup of its asset.
TooLate(a) == row[a] = "swept" \/ (a \in cand /\ at = "deleting")

UpsertVariant(b) ==
    /\ wpc[b] = "upserting"
    /\ vrow' = vrow \cup {asset[b]}
    /\ vstrays' = IF TooLate(asset[b]) THEN vstrays \cup {asset[b]} ELSE vstrays
    /\ Work(b, "generating")
    /\ UNCHANGED <<row, old, fileVars, up, batchVars, sweepVars, excused, strays, envVars>>

\* The row of a variant is only a cache: the worker goes on without it.
UpsertVariantFails(b) ==
    /\ wpc[b] = "upserting"
    /\ Disrupt
    /\ vrow' \in {vrow, vrow \cup {asset[b]}}
    /\ vstrays' = vstrays \cup {asset[b]}
    /\ Work(b, "generating")
    /\ UNCHANGED <<row, old, fileVars, up, batchVars, sweepVars, excused, strays, enabled>>

\* resolveImage finds the variant.
ReuseVariant(b) ==
    /\ Due(b) /\ HasVariant(asset[b])
    /\ Work(b, "generating")
    /\ UNCHANGED <<rowVars, fileVars, up, batchVars, sweepVars, ghostVars, envVars>>

\* storeImages, after the gateway's answer: every image of it is stored.
StoreImage(b) ==
    /\ wpc[b] = "generating"
    /\ file' = file \cup {b}
    /\ Work(b, "completing")
    /\ UNCHANGED <<rowVars, vfile, up, batchVars, sweepVars, ghostVars, envVars>>

\* The answer has several images and one of them cannot be stored: the attempt has failed,
\* and the files stored before it stay.
StoreImagesFails(b) ==
    /\ wpc[b] = "generating"
    /\ Disrupt
    /\ file' = file \cup {b}
    /\ strays' = strays \cup {b}
    /\ Work(b, "idle")
    /\ UNCHANGED <<rowVars, vfile, up, batchVars, sweepVars, excused, vstrays, enabled>>

\* The preprocessor, the gateway, or the first Put fails; a Put that fails leaves nothing.
GiveUp(b) ==
    /\ wpc[b] \in {"putting", "generating"}
    /\ Work(b, "idle")
    /\ UNCHANGED <<rowVars, fileVars, up, batchVars, sweepVars, ghostVars, envVars>>

\* CompleteItemSuccess of a worker that still has the lease; an image is only written back
\* while it is in the queue.
CompleteItemSuccess(b) ==
    /\ wpc[b] = "completing" /\ InQueue(b)
    /\ row' = [row EXCEPT ![b] = "live"]
    /\ Work(b, "idle")
    /\ UNCHANGED <<old, vrow, fileVars, up, batchVars, sweepVars, ghostVars, envVars>>

\* The guard on worker_id and status finds no row: the lease is lost, to the end of the batch
\* or to another worker, and the result is dropped.
LeaseLost(b) ==
    /\ wpc[b] = "completing"
    /\ strays' = strays \cup {b}
    /\ Work(b, "idle")
    /\ UNCHANGED <<rowVars, fileVars, up, batchVars, sweepVars, excused, vstrays, envVars>>

\* The transaction reports an error, perhaps after its commit; the stored file stays.
CompleteItemFails(b) ==
    /\ wpc[b] = "completing"
    /\ Disrupt
    /\ \/ UNCHANGED row
       \/ InQueue(b) /\ row' = [row EXCEPT ![b] = "live"]
    /\ strays' = strays \cup {b}
    /\ Work(b, "idle")
    /\ UNCHANGED <<old, vrow, fileVars, up, batchVars, sweepVars, excused, vstrays, enabled>>

-----------------------------------------------------------------------------
(* The cleanup: the switch is read once per round, then result images and  *)
(* after them assets, in batches until one is not full or brings nothing   *)

SetCleanup(on) ==
    /\ enabled # on
    /\ enabled' = on
    /\ UNCHANGED <<rowVars, fileVars, up, batchVars, wpc, sweepVars, ghostVars, disruptions>>

Sweep(to, k) == at' = to /\ kind' = k

\* The lists of one batch are gone.
Forget == cand' = {} /\ todo' = {} /\ keyed' = {} /\ gone' = {}

EndRound == Sweep("idle", "images") /\ Forget

\* The loop of this kind is over.
NextKind == IF kind = "images" THEN Sweep("listing", "assets") /\ Forget ELSE EndRound

RunOnce ==
    /\ at = "idle" /\ enabled
    /\ Sweep("listing", "images") /\ Forget
    /\ UNCHANGED <<rowVars, fileVars, up, batchVars, wpc, ghostVars, envVars>>

\* Mutant: the NOT EXISTS on unfinished batches is missing.
ExpiredOrBusy(o) == row[o] = "live" /\ o \in old

\* Mutant: rows deleted by their owners are listed too.
ExpiredOrRemoved(o) == row[o] \in {"live", "removed"} /\ o \in old /\ ~Referenced(o)

\* The WHERE of listExpiredImagesSQL and listExpiredAssetsSQL.
Expired(o) == row[o] = "live" /\ o \in old /\ ~Referenced(o)

\* ORDER BY id LIMIT n.
FirstOf(s) == {o \in s : Cardinality({p \in s : p < o}) < BatchLimit}

\* Mutant: both listings run the query for assets.
TableOfAssets(k) == Assets

\* The table a loop reads.
Table(k) == IF k = "images" THEN Batches ELSE Assets

ListExpired ==
    /\ at = "listing"
    /\ LET page == FirstOf({o \in Table(kind) : Expired(o)})
       IN  IF page = {} THEN NextKind
           ELSE /\ cand' = page /\ todo' = page /\ keyed' = {} /\ gone' = {}
                /\ Sweep(IF kind = "images" THEN "deleting" ELSE "keys", kind)
    /\ UNCHANGED <<rowVars, fileVars, up, batchVars, wpc, ghostVars, envVars>>

ListVariantKeysByAsset ==
    /\ at = "keys"
    /\ keyed' = cand \cap vrow
    /\ vstrays' = vstrays \ keyed'
    /\ Sweep("deleting", kind)
    /\ UNCHANGED <<rowVars, fileVars, up, batchVars, wpc, cand, todo, gone, excused, strays, envVars>>

IsNext(o) == at = "deleting" /\ o \in todo /\ \A p \in todo : o <= p

\* Objects.Delete for the variants and then the original; a missing key is no error.
DeleteFiles(o) ==
    /\ IsNext(o) /\ o \notin Stuck
    /\ file' = file \ {o}
    /\ vfile' = vfile \ ({o} \cap keyed)
    /\ todo' = todo \ {o} /\ gone' = gone \cup {o}
    /\ UNCHANGED <<rowVars, up, batchVars, wpc, at, kind, cand, keyed, ghostVars, envVars>>

\* Mutant: the error of the store is logged and forgotten.
DeleteFilesAnyway(o) ==
    /\ IsNext(o) /\ o \in Stuck
    /\ todo' = todo \ {o} /\ gone' = gone \cup {o}
    /\ UNCHANGED <<rowVars, fileVars, up, batchVars, wpc, at, kind, cand, keyed, ghostVars, envVars>>

\* Mutant: the round ends with the first file that cannot be deleted.
DeleteFilesOrStop(o) ==
    /\ IsNext(o) /\ o \in Stuck
    /\ EndRound
    /\ UNCHANGED <<rowVars, fileVars, up, batchVars, wpc, ghostVars, envVars>>

\* A deletion that always fails: the variants may be gone, the row is skipped.
SkipStuck(o) ==
    /\ IsNext(o) /\ o \in Stuck
    /\ vfile' = vfile \ ({o} \cap keyed)
    /\ todo' = todo \ {o}
    /\ UNCHANGED <<rowVars, file, up, batchVars, wpc, at, kind, cand, keyed, gone, ghostVars, envVars>>

\* A deletion that fails this once, at a variant or at the original.
DeleteFilesFails(o) ==
    /\ IsNext(o) /\ Disrupt
    /\ vfile' \in {vfile, vfile \ ({o} \cap keyed)}
    /\ todo' = todo \ {o}
    /\ UNCHANGED <<rowVars, file, up, batchVars, wpc, at, kind, cand, keyed, gone, ghostVars, enabled>>

\* The rows the UPDATE finds with deleted_at IS NULL.
Marked == {o \in gone : row[o] = "live"}

MarkRows == row' = [o \in Objects |-> IF o \in Marked THEN "swept" ELSE row[o]]

SoftDelete ==
    /\ at = "deleting" /\ todo = {}
    /\ MarkRows
    /\ IF Cardinality(cand) < BatchLimit \/ Marked = {}
       THEN NextKind
       ELSE Sweep("listing", kind) /\ Forget
    /\ UNCHANGED <<old, vrow, fileVars, up, batchVars, wpc, ghostVars, envVars>>

\* Any statement of the round fails, the last one perhaps after taking effect.
RoundFails ==
    /\ at # "idle" /\ Disrupt
    /\ \/ UNCHANGED row
       \/ at = "deleting" /\ todo = {} /\ MarkRows
    /\ EndRound
    /\ UNCHANGED <<old, vrow, fileVars, up, batchVars, wpc, ghostVars, enabled>>

-----------------------------------------------------------------------------
\* The process dies; files whose row it was about to write are left over.
Crash ==
    /\ Disrupt
    /\ strays' = strays \cup {a \in Assets : up[a] = "creating"}
                        \cup {b \in Batches : wpc[b] = "completing"}
    /\ vstrays' = vstrays \cup {asset[b] : b \in {c \in Batches : wpc[c] = "upserting"}}
    /\ up' = [a \in Assets |-> IF up[a] = "creating" THEN "over" ELSE up[a]]
    /\ wpc' = [b \in Batches |-> "idle"]
    /\ batch' = [b \in Batches |-> IF batch[b] = "planned" THEN "none" ELSE batch[b]]
    /\ asset' = [b \in Batches |-> IF batch[b] = "planned" THEN NULL ELSE asset[b]]
    /\ EndRound
    /\ UNCHANGED <<rowVars, fileVars, excused, enabled>>

-----------------------------------------------------------------------------
WorkerStep(b) ==
    \/ Preprocess(b) \/ PutVariant(b) \/ UpsertVariant(b) \/ UpsertVariantFails(b) \/ ReuseVariant(b)
    \/ StoreImage(b) \/ StoreImagesFails(b) \/ GiveUp(b)
    \/ CompleteItemSuccess(b) \/ LeaseLost(b) \/ CompleteItemFails(b)

SweepStep ==
    \/ RunOnce \/ ListExpired \/ ListVariantKeysByAsset \/ SoftDelete
    \/ \E o \in Objects : DeleteFiles(o) \/ SkipStuck(o)

Next ==
    \/ \E a \in Assets : PutAsset(a) \/ CreateAsset(a) \/ CreateAssetFails(a) \/ DeleteAsset(a)
    \/ \E o \in Objects : Expire(o)
    \/ \E b \in Batches :
          \/ \E a \in Assets : PlanJob(b, a)
          \/ CreateJobWithItems(b) \/ EndJob(b) \/ Abandon(b) \/ WorkerStep(b)
    \/ \E on \in BOOLEAN : SetCleanup(on)
    \/ SweepStep
    \/ \E o \in Objects : DeleteFilesFails(o)
    \/ RoundFails \/ Crash

Spec == Init /\ [][Next]_vars

\* The timer starts a round every night, and a round that started goes on.
Fairness == WF_vars(SweepStep)

FairSpec == Spec /\ Fairness

-----------------------------------------------------------------------------
\* Rows, files, batches, workers and the lists of a round have the values the code gives them.
TypeOK ==
    /\ row \in [Objects -> {"none", "live", "removed", "swept"}]
    /\ old \subseteq Objects /\ file \subseteq Objects
    /\ vrow \subseteq Assets /\ vfile \subseteq Assets
    /\ up \in [Assets -> {"new", "creating", "over"}]
    /\ batch \in [Batches -> {"none", "planned", "busy", "forsaken", "over"}]
    /\ asset \in [Batches -> Assets \cup {NULL}]
    /\ \A b \in Batches : asset[b] = NULL => batch[b] = "none" /\ wpc[b] = "idle"
    /\ wpc \in [Batches -> {"idle", "putting", "upserting", "generating", "completing"}]
    /\ enabled \in BOOLEAN
    /\ at \in {"idle", "listing", "keys", "deleting"} /\ kind \in {"images", "assets"}
    /\ cand \subseteq (IF kind = "images" THEN Batches ELSE Assets)
    /\ todo \cup gone \cup keyed \subseteq cand /\ todo \cap gone = {}
    /\ at \in {"idle", "listing"} => cand = {}
    /\ excused \subseteq Objects /\ strays \subseteq Objects /\ vstrays \subseteq Assets
    /\ disruptions \in 0..MaxDisruptions

\* An unfinished batch never loses the image it was submitted with, however rounds,
\* failures and crashes interleave; only one that is inserted between the listing of an image
\* and the end of its cleanup does, or after a round that deleted the file and not the row.
BusyKeepsOriginals ==
    \A b \in Batches : batch[b] = "busy" => asset[b] \in file \cup excused

\* The row names, or the upload or worker in progress is about to write the row that names,
\* the original (or result) file of o.
Accounted(o) ==
    \/ row[o] \in {"live", "removed"}
    \/ o \in Assets /\ up[o] = "creating"
    \/ o \in Batches /\ wpc[o] = "completing"

\* Files and rows are never written together, yet a file that nothing leads to is left behind
\* only as follows.  An original: the process dies between file and row, or the row's INSERT
\* fails and the file cannot be deleted again.  A result image: the attempt fails after some of
\* its images were stored, or the process dies, the lease is lost or the write-back fails
\* before their rows are there.  A variant: the process dies before its row is there, the row
\* cannot be written, or it is written after the cleanup of its asset listed the keys, against
\* cleanup.go:291, which says that the order of deletions leaves no orphan.
NoOrphanFiles ==
    /\ \A o \in file \ strays : Accounted(o)
    /\ \A a \in vfile \ vstrays :
          row[a] \in {"live", "removed"} \/ \E b \in Batches : asset[b] = a /\ wpc[b] = "upserting"

\* The file of an image deleted by its owner stays (past batches show it), unless the owner
\* deleted it after the cleanup had started on it; and an image that is listed but cannot be
\* opened is one that expired, whose row the next round marks, or one whose INSERT reported
\* an error.
RowsHaveFiles ==
    \A o \in Objects :
        /\ row[o] = "removed" => o \in file \cup excused
        /\ row[o] = "live" => o \in file \cup excused \cup old

\* A whole page of expired rows before o has files that cannot be deleted: the loop of its
\* table ends there, tonight and every other night.
Blocked(o) ==
    \E k \in {"images", "assets"} :
        /\ o \in Table(k)
        /\ Cardinality({p \in Table(k) \cap Stuck : p < o /\ Expired(p)}) >= BatchLimit

\* An expired image goes away once no unfinished batch needs it, as long as the switch stays
\* on, also when the files of other images cannot be deleted; a full page of those, which
\* ends the loop (cleanup.go:258), is what can keep the later rows for ever.
ExpiredGoesAway ==
    \A o \in Objects \ Stuck :
        (row[o] = "live" /\ o \in old) ~> (row[o] # "live" \/ Referenced(o) \/ ~enabled \/ Blocked(o))
=============================================================================
