---------------------------- MODULE ImagesProofs ----------------------------
(***************************************************************************)
(* Safety of images and their cleanup for any number of assets, batches,   *)
(* failures and undeletable files, and every size of the cleanup's pages.  *)
(***************************************************************************)
EXTENDS Images, TLAPS

Kept == {"live", "removed"}

\* Files come before their rows, rows before the batches and lists that name them.
Linked ==
    /\ \A a \in Assets : up[a] \in {"new", "creating"} => row[a] = "none"
    /\ \A a \in Assets : up[a] = "creating" => a \in file
    /\ \A b \in Batches : wpc[b] # "idle" => row[b] = "none" /\ batch[b] \in {"busy", "forsaken", "over"}
    /\ \A b \in Batches : wpc[b] = "completing" => b \in file
    /\ \A b \in Batches : asset[b] # NULL => row[asset[b]] # "none"
    /\ \A o \in cand : o \in old /\ row[o] \in Kept

Basics == TypeOK /\ Linked

USE DEF Objects

\* The database the program starts on has files for its rows.
LEMMA BasicsInit == Init => Basics
<1> SUFFICES ASSUME Init PROVE Basics
  OBVIOUS
<1> USE StockAssumption, BoundAssumption, NullAssumption DEF Init
<1>1. enabled \in BOOLEAN
  OBVIOUS
<1>2. TypeOK
  BY <1>1 DEF TypeOK
<1>3. Linked
  BY DEF Linked, Kept
<1> QED
  BY <1>2, <1>3 DEF Basics

\* UploadAsset and DeleteAsset.
LEMMA BasicsAssets ==
    ASSUME Basics, NEW a \in Assets,
           PutAsset(a) \/ CreateAsset(a) \/ CreateAssetFails(a) \/ DeleteAsset(a) \/ Expire(a)
    PROVE  Basics'
<1> USE IdsAssumption, NullAssumption, BoundAssumption DEF Basics, TypeOK, Linked, Kept
<1> USE DEF rowVars, fileVars, batchVars, sweepVars, envVars, ghostVars
<1>1. CASE PutAsset(a)
  BY <1>1 DEF PutAsset
<1>2. CASE CreateAsset(a)
  BY <1>2 DEF CreateAsset
<1>3. CASE CreateAssetFails(a)
  <2>1. /\ row' \in [Objects -> {"none", "live", "removed", "swept"}]
        /\ up' \in [Assets -> {"new", "creating", "over"}]
        /\ row[a] = "none" /\ up'[a] = "over" /\ row'[a] \in {"none", "live"}
        /\ \A o \in Objects \ {a} : row'[o] = row[o]
        /\ \A c \in Assets \ {a} : up'[c] = up[c]
    BY <1>3 DEF CreateAssetFails
  <2>2. file \ {a} \subseteq file' /\ file' \subseteq file
    BY <1>3 DEF CreateAssetFails
  <2>0. excused \subseteq Objects /\ strays \subseteq Objects /\ cand \subseteq Objects
    OBVIOUS
  <2>3. excused' \subseteq Objects /\ strays' \subseteq Objects
    <3> HIDE DEF Basics, TypeOK, Linked
    <3>1. CASE a \in Stuck
      BY <1>3, <2>0, <3>1 DEF CreateAssetFails
    <3>2. CASE a \notin Stuck
      BY <1>3, <2>0, <3>2 DEF CreateAssetFails
    <3> QED
      BY <3>1, <3>2
  <2>4. TypeOK'
    BY <1>3, <2>1, <2>2, <2>3 DEF CreateAssetFails, Disrupt
  <2>5. Linked'
    <3>1. UNCHANGED <<old, batchVars, wpc, sweepVars>>
      BY <1>3 DEF CreateAssetFails
    <3>2. \A c \in Assets : up'[c] \in {"new", "creating"} => row'[c] = "none"
      BY <2>1
    <3>3. \A c \in Assets : up'[c] = "creating" => c \in file'
      BY <2>1, <2>2
    <3>4. \A b \in Batches : wpc'[b] # "idle" => row'[b] = "none" /\ batch'[b] \in {"busy", "forsaken", "over"}
      BY <2>1, <3>1
    <3>5. \A b \in Batches : wpc'[b] = "completing" => b \in file'
      BY <2>2, <3>1
    <3>6. \A b \in Batches : asset'[b] # NULL => row'[asset'[b]] # "none"
      <4> TAKE b \in Batches
      <4> HAVE asset'[b] # NULL
      <4>1. asset'[b] = asset[b] /\ asset[b] \in Assets /\ row[asset[b]] # "none"
        BY <3>1
      <4>2. asset[b] \in Objects \ {a}
        BY <2>1, <4>1
      <4> HIDE DEF Basics, TypeOK, Linked
      <4>3. row'[asset[b]] = row[asset[b]]
        BY <2>1, <4>2
      <4> QED
        BY <4>1, <4>3
    <3>7. \A o \in cand' : o \in old' /\ row'[o] \in Kept
      BY <2>0, <2>1, <3>1
    <3> QED
      BY <3>2, <3>3, <3>4, <3>5, <3>6, <3>7
  <2> QED
    BY <2>4, <2>5
<1>4. CASE DeleteAsset(a)
  BY <1>4 DEF DeleteAsset
<1>5. CASE Expire(a)
  BY <1>5 DEF Expire
<1> QED
  BY <1>1, <1>2, <1>3, <1>4, <1>5

\* A batch is planned, inserted, and over.
LEMMA BasicsBatch ==
    ASSUME Basics, NEW b \in Batches,
           (\E a \in Assets : PlanJob(b, a)) \/ CreateJobWithItems(b) \/ EndJob(b) \/ Abandon(b) \/ Expire(b)
    PROVE  Basics'
<1> USE IdsAssumption, NullAssumption, BoundAssumption DEF Basics, TypeOK, Linked, Kept
<1> USE DEF rowVars, fileVars, batchVars, sweepVars, envVars, ghostVars
<1>1. ASSUME NEW a \in Assets, PlanJob(b, a) PROVE Basics'
  BY <1>1 DEF PlanJob
<1>2. CASE CreateJobWithItems(b)
  <2>0. excused \subseteq Objects /\ asset[b] \in Assets
    BY <1>2 DEF CreateJobWithItems
  <2>3. excused' \subseteq Objects
    <3> HIDE DEF Basics, TypeOK, Linked
    <3> QED
      BY <1>2, <2>0 DEF CreateJobWithItems, Refers
  <2>1. TypeOK'
    BY <1>2, <2>0, <2>3 DEF CreateJobWithItems
  <2>2. Linked'
    BY <1>2 DEF CreateJobWithItems
  <2> QED
    BY <2>1, <2>2
<1>3. CASE EndJob(b)
  BY <1>3 DEF EndJob
<1>4. CASE Abandon(b)
  BY <1>4 DEF Abandon
<1>5. CASE Expire(b)
  BY <1>5 DEF Expire
<1> QED
  BY <1>1, <1>2, <1>3, <1>4, <1>5

\* The worker of a batch.
LEMMA BasicsWorker ==
    ASSUME Basics, NEW b \in Batches, WorkerStep(b)
    PROVE  Basics'
<1> USE IdsAssumption, NullAssumption, BoundAssumption DEF Basics, TypeOK, Linked, Kept
<1> USE DEF rowVars, fileVars, batchVars, sweepVars, envVars, ghostVars, Due, InQueue
<1>0. asset[b] \in Assets
  BY DEF WorkerStep, Preprocess, PutVariant, UpsertVariant, UpsertVariantFails, ReuseVariant, StoreImage,
         StoreImagesFails, CompleteItemSuccess, LeaseLost, CompleteItemFails, GiveUp
<1>w. ASSUME NEW to \in {"idle", "putting", "upserting", "generating", "completing"}, Work(b, to)
      PROVE  /\ wpc' \in [Batches -> {"idle", "putting", "upserting", "generating", "completing"}]
             /\ wpc'[b] = to /\ \A c \in Batches \ {b} : wpc'[c] = wpc[c]
  BY <1>w DEF Work
<1>1. CASE Preprocess(b) \/ ReuseVariant(b)
  <2>0. /\ batch[b] \in {"busy", "forsaken"} /\ row[b] = "none" /\ (Work(b, "putting") \/ Work(b, "generating"))
        /\ UNCHANGED <<rowVars, fileVars, up, batchVars, sweepVars, ghostVars, envVars>>
    BY <1>1 DEF Preprocess, ReuseVariant
  <2>1. TypeOK'
    BY <1>0, <1>w, <2>0
  <2>2. Linked'
    BY <1>0, <1>w, <2>0
  <2> QED
    BY <2>1, <2>2
<1>2. CASE PutVariant(b)
  <2>0. vfile' \subseteq Assets /\ Work(b, "upserting")
        /\ UNCHANGED <<rowVars, file, up, batchVars, sweepVars, ghostVars, envVars>>
    <3>1. vfile \subseteq Assets
      OBVIOUS
    <3> HIDE DEF Basics, TypeOK, Linked
    <3> QED
      BY <1>0, <1>2, <3>1 DEF PutVariant
  <2>1. TypeOK'
    BY <1>0, <1>w, <2>0
  <2>2. Linked'
    BY <1>2, <1>w DEF PutVariant
  <2> QED
    BY <2>1, <2>2
<1>3. CASE UpsertVariant(b) \/ UpsertVariantFails(b)
  <2>0. /\ vrow' \subseteq Assets /\ vstrays' \subseteq Assets
        /\ wpc[b] = "upserting" /\ Work(b, "generating")
        /\ disruptions' \in 0..MaxDisruptions
        /\ UNCHANGED <<row, old, fileVars, up, batchVars, sweepVars, excused, strays, enabled>>
    <3>1. vrow \subseteq Assets /\ vstrays \subseteq Assets /\ disruptions \in 0..MaxDisruptions
      OBVIOUS
    <3> HIDE DEF Basics, TypeOK, Linked
    <3>2. CASE UpsertVariant(b)
      <4>1. vstrays' \in {vstrays, vstrays \cup {asset[b]}}
        BY <3>2 DEF UpsertVariant
      <4> QED
        BY <1>0, <3>1, <3>2, <4>1 DEF UpsertVariant
    <3>3. CASE UpsertVariantFails(b)
      <4>1. vrow' \subseteq Assets /\ vstrays' \subseteq Assets
        BY <1>0, <3>1, <3>3 DEF UpsertVariantFails
      <4> QED
        BY <3>1, <3>3, <4>1 DEF UpsertVariantFails, Disrupt
    <3> QED
      BY <1>3, <3>2, <3>3
  <2>1. TypeOK'
    BY <1>0, <1>w, <2>0
  <2>2. Linked'
    BY <1>w, <2>0
  <2> QED
    BY <2>1, <2>2
<1>4. CASE StoreImage(b) \/ StoreImagesFails(b)
  <2>0. /\ file' = file \cup {b} /\ strays' \subseteq Objects /\ wpc[b] = "generating"
        /\ Work(b, "completing") \/ Work(b, "idle")
        /\ disruptions' \in 0..MaxDisruptions
        /\ UNCHANGED <<rowVars, vfile, up, batchVars, sweepVars, excused, vstrays, enabled>>
    <3>1. strays \subseteq Objects /\ disruptions \in 0..MaxDisruptions
      OBVIOUS
    <3> HIDE DEF Basics, TypeOK, Linked
    <3>2. CASE StoreImage(b)
      BY <3>1, <3>2 DEF StoreImage
    <3>3. CASE StoreImagesFails(b)
      <4>1. strays' \subseteq Objects
        BY <3>1, <3>3 DEF StoreImagesFails
      <4> QED
        BY <3>1, <3>3, <4>1 DEF StoreImagesFails, Disrupt
    <3> QED
      BY <1>4, <3>2, <3>3
  <2>1. TypeOK'
    BY <1>0, <1>w, <2>0
  <2>2. Linked'
    BY <1>0, <1>w, <2>0
  <2> QED
    BY <2>1, <2>2
<1>5. CASE CompleteItemSuccess(b) \/ LeaseLost(b) \/ CompleteItemFails(b)
  <2>0. /\ strays' \subseteq Objects /\ wpc[b] = "completing" /\ Work(b, "idle")
        /\ disruptions' \in 0..MaxDisruptions
        /\ UNCHANGED <<old, vrow, fileVars, up, batchVars, sweepVars, excused, vstrays, enabled>>
    <3>1. strays \subseteq Objects /\ disruptions \in 0..MaxDisruptions
      OBVIOUS
    <3> HIDE DEF Basics, TypeOK, Linked
    <3>2. CASE CompleteItemSuccess(b)
      BY <3>1, <3>2 DEF CompleteItemSuccess
    <3>3. CASE LeaseLost(b)
      BY <3>1, <3>3 DEF LeaseLost
    <3>4. CASE CompleteItemFails(b)
      BY <3>1, <3>4 DEF CompleteItemFails, Disrupt
    <3> QED
      BY <1>5, <3>2, <3>3, <3>4
  <2>1. /\ row' \in [Objects -> {"none", "live", "removed", "swept"}]
        /\ row[b] = "none" /\ \A o \in Objects \ {b} : row'[o] = row[o]
    BY <1>5 DEF CompleteItemSuccess, LeaseLost, CompleteItemFails
  <2>2. TypeOK'
    <3>1. \A c \in Batches : asset'[c] = NULL => batch'[c] = "none" /\ wpc'[c] = "idle"
      BY <1>0, <1>w, <2>0
    <3> QED
      BY <1>w, <2>0, <2>1, <3>1
  <2>3. Linked'
    <3>1. \A c \in Batches : asset[c] # NULL => asset[c] \in Objects \ {b} /\ row[asset[c]] # "none"
      OBVIOUS
    <3>2. \A c \in Batches : asset'[c] # NULL => row'[asset'[c]] # "none"
      <4> HIDE DEF Basics, TypeOK, Linked
      <4> QED
        BY <2>0, <2>1, <3>1
    <3>3. \A c \in Batches : wpc'[c] # "idle" =>
              c # b /\ wpc'[c] = wpc[c] /\ row'[c] = "none" /\ batch'[c] \in {"busy", "forsaken", "over"}
      BY <1>w, <2>0, <2>1
    <3>4. \A o \in cand : o \in Objects \ {b}
      BY <2>1
    <3>5. \A o \in cand' : o \in old' /\ row'[o] \in Kept
      BY <2>0, <2>1, <3>4
    <3> QED
      BY <2>0, <2>1, <3>2, <3>3, <3>5
  <2> QED
    BY <2>2, <2>3
<1>6. CASE GiveUp(b)
  BY <1>0, <1>6, <1>w DEF GiveUp
<1> QED
  BY <1>1, <1>2, <1>3, <1>4, <1>5, <1>6 DEF WorkerStep

\* A round of the cleanup up to the deletion of files.
LEMMA BasicsListing ==
    ASSUME Basics, (\E on \in BOOLEAN : SetCleanup(on)) \/ RunOnce \/ ListExpired \/ ListVariantKeysByAsset
    PROVE  Basics'
<1> USE IdsAssumption, NullAssumption, BoundAssumption DEF Basics, TypeOK, Linked, Kept
<1> USE DEF rowVars, fileVars, batchVars, sweepVars, envVars, ghostVars, Sweep, Forget
<1>1. CASE \E on \in BOOLEAN : SetCleanup(on)
  BY <1>1 DEF SetCleanup
<1>2. CASE RunOnce
  BY <1>2 DEF RunOnce
<1>3. CASE ListExpired
  <2> DEFINE page == FirstOf({o \in Table(kind) : Expired(o)})
  <2>1. page \subseteq Table(kind) /\ \A o \in page : Expired(o)
    BY DEF FirstOf
  <2>2. CASE page = {}
    BY <1>3, <2>2 DEF ListExpired, NextKind, EndRound
  <2>3. CASE page # {}
    BY <1>3, <2>1, <2>3 DEF ListExpired, Table, Expired
  <2> QED
    BY <2>2, <2>3
<1>4. CASE ListVariantKeysByAsset
  BY <1>4 DEF ListVariantKeysByAsset
<1> QED
  BY <1>1, <1>2, <1>3, <1>4

\* Files are deleted and rows marked; the round may fail and the process die.
LEMMA BasicsDeleting ==
    ASSUME Basics,
           \/ \E o \in Objects : DeleteFiles(o) \/ SkipStuck(o) \/ DeleteFilesFails(o)
           \/ SoftDelete \/ RoundFails \/ Crash
    PROVE  Basics'
<1> USE IdsAssumption, NullAssumption, BoundAssumption DEF Basics, TypeOK, Linked, Kept
<1> USE DEF rowVars, fileVars, batchVars, sweepVars, envVars, ghostVars, Sweep, Forget
<1>1. ASSUME NEW o \in Objects, DeleteFiles(o) \/ SkipStuck(o) \/ DeleteFilesFails(o) PROVE Basics'
  <2>1. /\ at = "deleting" /\ o \in todo /\ todo' = todo \ {o} /\ gone' \in {gone, gone \cup {o}}
        /\ vfile' \subseteq vfile /\ file' \in {file, file \ {o}}
        /\ disruptions' \in 0..MaxDisruptions
        /\ UNCHANGED <<rowVars, up, batchVars, wpc, at, kind, cand, keyed, ghostVars, enabled>>
    BY <1>1 DEF DeleteFiles, SkipStuck, DeleteFilesFails, IsNext, Disrupt
  <2>2. row[o] \in Kept /\ o \in cand
    BY <2>1
  <2>3. TypeOK'
    BY <2>1, <2>2
  <2>4. Linked'
    BY <2>1, <2>2
  <2> QED
    BY <2>3, <2>4
<1>2. MarkRows => /\ row' \in [Objects -> {"none", "live", "removed", "swept"}]
                  /\ \A o \in Objects : row'[o] = "none" <=> row[o] = "none"
  BY DEF MarkRows, Marked
<1>3. ASSUME SoftDelete \/ RoundFails PROVE Basics'
  <2>1. /\ cand' = {} /\ todo' = {} /\ keyed' = {} /\ gone' = {}
        /\ at' \in {"idle", "listing"} /\ kind' \in {"images", "assets"}
        /\ disruptions' \in 0..MaxDisruptions
        /\ UNCHANGED <<old, vrow, fileVars, up, batchVars, wpc, ghostVars, enabled>>
    BY <1>3 DEF SoftDelete, RoundFails, NextKind, EndRound, Disrupt
  <2>2. /\ row' \in [Objects -> {"none", "live", "removed", "swept"}]
        /\ \A o \in Objects : row'[o] = "none" <=> row[o] = "none"
    <3>1. MarkRows \/ UNCHANGED row
      BY <1>3 DEF SoftDelete, RoundFails
    <3> QED
      BY <1>2, <3>1
  <2>3. TypeOK'
    BY <2>1, <2>2
  <2>4. Linked'
    <3>1. \A b \in Batches : asset[b] # NULL => asset[b] \in Objects /\ row[asset[b]] # "none"
      OBVIOUS
    <3>2. \A b \in Batches : asset'[b] # NULL => row'[asset'[b]] # "none"
      <4> HIDE DEF Basics, TypeOK, Linked
      <4> QED
        BY <2>1, <2>2, <3>1
    <3> QED
      BY <2>1, <2>2, <3>2
  <2> QED
    BY <2>3, <2>4
<1>4. CASE Crash
  <2>1. /\ cand' = {} /\ todo' = {} /\ keyed' = {} /\ gone' = {} /\ at' = "idle" /\ kind' = "images"
        /\ disruptions' \in 0..MaxDisruptions
        /\ UNCHANGED <<rowVars, fileVars, excused, enabled>>
    BY <1>4 DEF Crash, EndRound, Disrupt
  <2>2. strays' \subseteq Objects /\ vstrays' \subseteq Assets
    <3>1. \A b \in Batches : wpc[b] = "upserting" => asset[b] \in Assets
      OBVIOUS
    <3>2. strays \subseteq Objects /\ vstrays \subseteq Assets
      OBVIOUS
    <3> HIDE DEF Basics, TypeOK, Linked
    <3>3. strays' \subseteq Objects
      BY <1>4, <3>2 DEF Crash
    <3>4. {asset[b] : b \in {c \in Batches : wpc[c] = "upserting"}} \subseteq Assets
      BY <3>1
    <3> QED
      BY <1>4, <3>2, <3>3, <3>4 DEF Crash
  <2>3. /\ up' \in [Assets -> {"new", "creating", "over"}]
        /\ \A a \in Assets : up'[a] \in {"new", "over"} /\ (up'[a] = "new" => up[a] = "new")
    BY <1>4 DEF Crash
  <2>4. /\ wpc' = [b \in Batches |-> "idle"]
        /\ batch' \in [Batches -> {"none", "planned", "busy", "forsaken", "over"}]
        /\ asset' \in [Batches -> Assets \cup {NULL}]
        /\ \A b \in Batches : asset'[b] = NULL => batch'[b] = "none"
        /\ \A b \in Batches : asset'[b] # NULL => asset'[b] = asset[b]
    BY <1>4 DEF Crash
  <2>5. TypeOK'
    BY <2>1, <2>2, <2>3, <2>4
  <2>6. Linked'
    BY <2>1, <2>3, <2>4
  <2> QED
    BY <2>5, <2>6
<1> QED
  BY <1>1, <1>3, <1>4

\* No step writes a row before its file, or lists an image without a row.
LEMMA BasicsStep == Basics /\ [Next]_vars => Basics'
<1> SUFFICES ASSUME Basics, [Next]_vars PROVE Basics'
  OBVIOUS
<1>1. CASE UNCHANGED vars
  BY <1>1 DEF vars, rowVars, fileVars, batchVars, sweepVars, envVars, ghostVars, Basics, TypeOK, Linked
<1>2. CASE Next
  BY <1>2, BasicsAssets, BasicsBatch, BasicsWorker, BasicsListing, BasicsDeleting DEF Next, SweepStep
<1> QED
  BY <1>1, <1>2

-----------------------------------------------------------------------------
\* A listed image that its owner deletes, or that a new batch uses, is excused at once.
Sheltered ==
    /\ BusyKeepsOriginals
    /\ RowsHaveFiles
    /\ \A o \in cand : row[o] = "removed" => o \in excused
    /\ \A b \in Batches : batch[b] = "busy" /\ asset[b] \in cand => asset[b] \in excused

\* Steps that delete no file, write no row and list no image.
LEMMA ShelteredQuiet ==
    ASSUME Sheltered, UNCHANGED <<row, batch, asset>>,
           file \subseteq file', excused \subseteq excused', old \subseteq old', cand' \subseteq cand
    PROVE  Sheltered'
BY DEF Sheltered, BusyKeepsOriginals, RowsHaveFiles

\* Rows are written after their files, and an owner's deletion keeps the file.
LEMMA ShelteredAssets ==
    ASSUME Basics, Sheltered, NEW a \in Assets,
           PutAsset(a) \/ CreateAsset(a) \/ CreateAssetFails(a) \/ DeleteAsset(a) \/ Expire(a)
    PROVE  Sheltered'
<1> USE DEF rowVars, fileVars, batchVars, sweepVars, envVars, ghostVars
<1>0. /\ row \in [Objects -> {"none", "live", "removed", "swept"}] /\ cand \subseteq Objects
      /\ \A b \in Batches : batch[b] = "busy" => asset[b] \in Assets /\ row[asset[b]] # "none"
      /\ \A o \in cand : row[o] \in Kept
  BY DEF Basics, TypeOK, Linked, Kept
<1>1. CASE PutAsset(a) \/ Expire(a)
  <2>1. /\ UNCHANGED <<row, batch, asset, excused, cand>> /\ file \subseteq file' /\ old \subseteq old'
    BY <1>1 DEF PutAsset, Expire
  <2> QED
    BY <2>1, ShelteredQuiet
<1>2. CASE CreateAsset(a) \/ CreateAssetFails(a)
  <2>1. row[a] = "none" /\ a \in file
    BY <1>2 DEF CreateAsset, CreateAssetFails, Basics, Linked
  <2>2. /\ UNCHANGED <<batch, asset, cand, old>> /\ excused \subseteq excused' /\ file \ {a} \subseteq file'
        /\ a \in file' \cup excused'
    BY <1>2, <2>1 DEF CreateAsset, CreateAssetFails
  <2>3. row'[a] \in {"none", "live"} /\ \A o \in Objects \ {a} : row'[o] = row[o]
    BY <1>0, <1>2, <2>1 DEF CreateAsset, CreateAssetFails
  <2>4. a \notin cand /\ \A b \in Batches : batch[b] = "busy" => asset[b] # a
    BY <1>0, <2>1 DEF Kept
  <2> QED
    BY <1>0, <2>2, <2>3, <2>4 DEF Sheltered, BusyKeepsOriginals, RowsHaveFiles
<1>3. CASE DeleteAsset(a)
  <2>1. /\ UNCHANGED <<batch, asset, cand, old, file>> /\ excused \subseteq excused'
        /\ a \in file \cup excused' /\ (a \in cand => a \in excused')
    BY <1>3 DEF DeleteAsset
  <2>2. row'[a] = "removed" /\ \A o \in Objects \ {a} : row'[o] = row[o]
    BY <1>0, <1>3 DEF DeleteAsset
  <2> QED
    BY <1>0, <2>1, <2>2 DEF Sheltered, BusyKeepsOriginals, RowsHaveFiles
<1> QED
  BY <1>1, <1>2, <1>3

\* A batch is inserted after its image was looked up.
LEMMA ShelteredBatch ==
    ASSUME Basics, Sheltered, NEW b \in Batches,
           (\E a \in Assets : PlanJob(b, a)) \/ CreateJobWithItems(b) \/ EndJob(b) \/ Abandon(b) \/ Expire(b) \/ WorkerStep(b)
    PROVE  Sheltered'
<1> USE DEF rowVars, fileVars, batchVars, sweepVars, envVars, ghostVars
<1>0. /\ row \in [Objects -> {"none", "live", "removed", "swept"}] /\ cand \subseteq Objects
      /\ batch \in [Batches -> {"none", "planned", "busy", "forsaken", "over"}]
      /\ asset \in [Batches -> Assets \cup {NULL}]
      /\ \A c \in Batches : batch[c] = "busy" => asset[c] \in Assets
      /\ batch[b] = "planned" => asset[b] \in Assets
      /\ \A o \in cand : row[o] \in Kept
  BY DEF Basics, TypeOK, Linked
<1>1. ASSUME NEW a \in Assets, PlanJob(b, a) PROVE Sheltered'
  <2>1. /\ UNCHANGED <<row, file, excused, old, cand>> /\ batch'[b] = "planned"
        /\ \A c \in Batches \ {b} : batch'[c] = batch[c] /\ asset'[c] = asset[c]
    BY <1>0, <1>1 DEF PlanJob
  <2> QED
    BY <2>1 DEF Sheltered, BusyKeepsOriginals, RowsHaveFiles
<1>2. CASE CreateJobWithItems(b)
  <2>1. /\ UNCHANGED <<row, file, asset, old, cand>> /\ excused \subseteq excused'
        /\ asset[b] \in file \cup excused' /\ (asset[b] \in cand => asset[b] \in excused')
    BY <1>0, <1>2 DEF CreateJobWithItems, Refers
  <2>2. \A c \in Batches \ {b} : batch'[c] = batch[c]
    BY <1>0, <1>2 DEF CreateJobWithItems
  <2> QED
    BY <2>1, <2>2 DEF Sheltered, BusyKeepsOriginals, RowsHaveFiles
<1>3. CASE EndJob(b) \/ Abandon(b)
  <2>1. /\ UNCHANGED <<row, file, asset, old, cand, excused>> /\ batch'[b] # "busy"
        /\ \A c \in Batches \ {b} : batch'[c] = batch[c]
    BY <1>0, <1>3 DEF EndJob, Abandon
  <2> QED
    BY <2>1 DEF Sheltered, BusyKeepsOriginals, RowsHaveFiles
<1>4. CASE Expire(b) \/ Preprocess(b) \/ PutVariant(b) \/ UpsertVariant(b) \/ UpsertVariantFails(b)
           \/ ReuseVariant(b) \/ StoreImage(b) \/ StoreImagesFails(b) \/ GiveUp(b)
  <2>1. UNCHANGED <<row, batch, asset, excused, cand>> /\ file \subseteq file' /\ old \subseteq old'
    BY <1>4 DEF Expire, Preprocess, PutVariant, UpsertVariant, UpsertVariantFails, ReuseVariant, StoreImage,
                StoreImagesFails, GiveUp
  <2> QED
    BY <2>1, ShelteredQuiet
<1>5. CASE CompleteItemSuccess(b) \/ LeaseLost(b) \/ CompleteItemFails(b)
  <2>1. row[b] = "none" /\ b \in file
    BY <1>5 DEF CompleteItemSuccess, LeaseLost, CompleteItemFails, Basics, Linked
  <2>2. UNCHANGED <<batch, asset, excused, cand, old, file>>
    BY <1>5 DEF CompleteItemSuccess, LeaseLost, CompleteItemFails
  <2>3. row'[b] \in {"none", "live"} /\ \A o \in Objects \ {b} : row'[o] = row[o]
    BY <1>0, <1>5, <2>1 DEF CompleteItemSuccess, LeaseLost, CompleteItemFails
  <2>4. b \notin cand
    BY <1>0, <2>1 DEF Kept
  <2> QED
    BY <1>0, <2>1, <2>2, <2>3, <2>4 DEF Sheltered, BusyKeepsOriginals, RowsHaveFiles
<1> QED
  BY <1>1, <1>2, <1>3, <1>4, <1>5 DEF WorkerStep

\* A round lists no image of an unfinished batch, and deletes only what it listed.
LEMMA ShelteredRound ==
    ASSUME Basics, Sheltered,
           \/ \E on \in BOOLEAN : SetCleanup(on)
           \/ RunOnce \/ ListExpired \/ ListVariantKeysByAsset
           \/ \E o \in Objects : DeleteFiles(o) \/ SkipStuck(o) \/ DeleteFilesFails(o)
           \/ SoftDelete \/ RoundFails \/ Crash
    PROVE  Sheltered'
<1> USE DEF rowVars, fileVars, batchVars, sweepVars, envVars, ghostVars, Sweep, Forget
<1>0. /\ row \in [Objects -> {"none", "live", "removed", "swept"}]
      /\ cand \subseteq Objects /\ todo \subseteq cand /\ \A o \in cand : o \in old
  BY DEF Basics, TypeOK, Linked
<1>1. CASE \/ (\E on \in BOOLEAN : SetCleanup(on)) \/ RunOnce \/ ListVariantKeysByAsset
           \/ \E o \in Objects : SkipStuck(o) \/ DeleteFilesFails(o)
  <2>1. UNCHANGED <<row, batch, asset, excused, old, file>> /\ cand' \subseteq cand
    BY <1>1 DEF SetCleanup, RunOnce, ListVariantKeysByAsset, SkipStuck, DeleteFilesFails
  <2> QED
    BY <2>1, ShelteredQuiet
<1>2. CASE ListExpired
  <2> DEFINE page == FirstOf({o \in Table(kind) : Expired(o)})
  <2>1. page \subseteq Table(kind) /\ \A o \in page : Expired(o)
    BY DEF FirstOf
  <2>2. UNCHANGED <<row, batch, asset, excused, old, file>>
    BY <1>2 DEF ListExpired
  <2>3. CASE page = {}
    <3>1. cand' = {}
      BY <1>2, <2>3 DEF ListExpired, NextKind, EndRound
    <3> QED
      BY <2>2, <3>1, ShelteredQuiet
  <2>4. CASE page # {}
    <3>1. cand' = page
      BY <1>2, <2>4 DEF ListExpired
    <3>2. \A o \in cand' : row[o] = "live" /\ \A b \in Batches : batch[b] = "busy" => asset[b] # o
      BY <2>1, <3>1 DEF Expired, Referenced, Refers
    <3> QED
      BY <2>2, <3>2 DEF Sheltered, BusyKeepsOriginals, RowsHaveFiles
  <2> QED
    BY <2>3, <2>4
<1>3. ASSUME NEW o \in Objects, DeleteFiles(o) PROVE Sheltered'
  <2>1. UNCHANGED <<row, batch, asset, excused, old, cand>> /\ file' = file \ {o} /\ o \in cand
    BY <1>0, <1>3 DEF DeleteFiles, IsNext
  <2> QED
    BY <1>0, <2>1 DEF Sheltered, BusyKeepsOriginals, RowsHaveFiles
<1>4. CASE SoftDelete \/ RoundFails
  <2>1. UNCHANGED <<batch, asset, excused, old, file>> /\ cand' = {} /\ (MarkRows \/ UNCHANGED row)
    BY <1>4 DEF SoftDelete, RoundFails, NextKind, EndRound
  <2>2. \A o \in Objects : row'[o] \in {row[o], "swept"}
    BY <1>0, <2>1 DEF MarkRows
  <2> QED
    BY <2>1, <2>2 DEF Sheltered, BusyKeepsOriginals, RowsHaveFiles
<1>5. CASE Crash
  <2>1. /\ UNCHANGED <<row, excused, old, file>> /\ cand' = {}
        /\ \A b \in Batches : batch'[b] = "busy" => batch[b] = "busy" /\ asset'[b] = asset[b]
    BY <1>5 DEF Crash, EndRound
  <2> QED
    BY <2>1 DEF Sheltered, BusyKeepsOriginals, RowsHaveFiles
<1> QED
  BY <1>1, <1>2, <1>3, <1>4, <1>5

\* Every step keeps the files of unfinished batches and of rows.
LEMMA ShelteredStep == Basics /\ Sheltered /\ [Next]_vars => Sheltered'
<1> SUFFICES ASSUME Basics, Sheltered, [Next]_vars PROVE Sheltered'
  OBVIOUS
<1>1. CASE UNCHANGED vars
  BY <1>1, ShelteredQuiet DEF vars, rowVars, fileVars, batchVars, sweepVars, ghostVars
<1>2. CASE Next
  BY <1>2, ShelteredAssets, ShelteredBatch, ShelteredRound DEF Next, SweepStep
<1> QED
  BY <1>1, <1>2

-----------------------------------------------------------------------------
\* A worker is between the file and the row of the variant of a.
Upserting(a) == \E b \in Batches : asset[b] = a /\ wpc[b] = "upserting"

\* What the round has deleted is gone from the store, and a variant it leaves behind is one
\* whose row is still to come.
Traced ==
    /\ NoOrphanFiles
    /\ \A a \in vfile \ vstrays : a \in vrow \/ Upserting(a)
    /\ gone \cap file = {}
    /\ \A a \in (gone \cap vfile) \ vstrays : Upserting(a)
    /\ at = "deleting" => \A a \in (cand \cap vfile) \ vstrays : a \in keyed \/ Upserting(a)
    /\ at # "deleting" => gone = {}

\* Steps that write no variant and no row, and change nothing in the store.
LEMMA TracedQuiet ==
    ASSUME Traced, \A a \in Assets : Upserting(a) => Upserting(a)',
           UNCHANGED <<row, file, vrow, vfile, strays, vstrays, up>>,
           \A b \in Batches : wpc[b] = "completing" => wpc'[b] = "completing",
           vfile \subseteq Assets,
           UNCHANGED <<at, cand, keyed, gone>> \/ (gone' = {} /\ at' # "deleting")
    PROVE  Traced'
BY DEF Traced, NoOrphanFiles, Accounted, Upserting

\* The file of an upload comes before its row.
LEMMA TracedAssets ==
    ASSUME Basics, Traced, NEW a \in Assets,
           PutAsset(a) \/ CreateAsset(a) \/ CreateAssetFails(a) \/ DeleteAsset(a) \/ Expire(a)
    PROVE  Traced'
<1> USE DEF rowVars, fileVars, batchVars, sweepVars, envVars, ghostVars
<1>0. /\ row \in [Objects -> {"none", "live", "removed", "swept"}] /\ cand \subseteq Objects
      /\ up \in [Assets -> {"new", "creating", "over"}]
      /\ vfile \subseteq Assets /\ file \subseteq Objects /\ gone \subseteq cand
      /\ \A o \in cand : row[o] \in Kept
      /\ up[a] \in {"new", "creating"} => row[a] = "none"
  BY DEF Basics, TypeOK, Linked, Kept
<1>1. UNCHANGED <<asset, wpc, vfile, vrow, vstrays, at, cand, keyed, gone>>
  BY DEF PutAsset, CreateAsset, CreateAssetFails, DeleteAsset, Expire
<1>2. CASE Expire(a)
  BY <1>0, <1>1, <1>2, TracedQuiet DEF Expire, Upserting
<1>3. /\ strays \subseteq strays' /\ file' \ {a} \subseteq file
      /\ \A o \in Objects \ {a} : row'[o] = row[o]
      /\ \A c \in Assets \ {a} : up'[c] = up[c]
  BY <1>0 DEF PutAsset, CreateAsset, CreateAssetFails, DeleteAsset, Expire
<1>4. a \in file' \ strays' => Accounted(a)'
  <2>1. CASE PutAsset(a)
    BY <1>0, <2>1 DEF PutAsset, Accounted
  <2>2. CASE CreateAsset(a)
    BY <1>0, <2>2 DEF CreateAsset, Accounted
  <2>3. CASE CreateAssetFails(a)
    BY <1>0, <2>3 DEF CreateAssetFails, Accounted
  <2>4. CASE DeleteAsset(a)
    BY <1>0, <2>4 DEF DeleteAsset, Accounted
  <2> QED
    BY <1>0, <1>1, <1>2, <2>1, <2>2, <2>3, <2>4 DEF Expire, Accounted, Traced, NoOrphanFiles
<1>5. row[a] \in Kept => row'[a] \in Kept
  BY <1>0 DEF PutAsset, CreateAsset, CreateAssetFails, DeleteAsset, Expire, Kept
<1>6. gone' \cap file' = {}
  <2>1. CASE a \in gone
    <3>1. row[a] \in Kept
      BY <1>0, <2>1
    <3>2. DeleteAsset(a) \/ Expire(a)
      BY <1>0, <3>1 DEF PutAsset, CreateAsset, CreateAssetFails, Kept
    <3> QED
      BY <1>1, <3>2 DEF DeleteAsset, Expire, Traced
  <2> QED
    BY <1>1, <1>3, <2>1 DEF Traced
<1>7. NoOrphanFiles'
  <2>1. ASSUME NEW o \in file' \ strays' PROVE Accounted(o)'
    <3>1. CASE o # a
      BY <1>0, <1>1, <1>3, <2>1, <3>1 DEF Accounted, Traced, NoOrphanFiles
    <3> QED
      BY <1>4, <2>1, <3>1
  <2>2. ASSUME NEW c \in vfile' \ vstrays' PROVE row'[c] \in Kept \/ Upserting(c)'
    <3>1. row[c] \in Kept \/ Upserting(c)
      BY <1>1, <1>3, <2>2 DEF Traced, NoOrphanFiles, Upserting, Kept
    <3> QED
      BY <1>0, <1>1, <1>3, <1>5, <2>2, <3>1 DEF Upserting
  <2> QED
    BY <2>1, <2>2 DEF NoOrphanFiles, Upserting, Kept
<1> QED
  BY <1>1, <1>3, <1>6, <1>7 DEF Traced, Upserting

\* The batch of a worker is planned before the worker starts.
LEMMA TracedBatch ==
    ASSUME Basics, Traced, NEW b \in Batches,
           (\E a \in Assets : PlanJob(b, a)) \/ CreateJobWithItems(b) \/ EndJob(b) \/ Abandon(b) \/ Expire(b)
    PROVE  Traced'
<1> USE DEF rowVars, fileVars, batchVars, sweepVars, envVars, ghostVars
<1>0. /\ vfile \subseteq Assets /\ asset \in [Batches -> Assets \cup {NULL}]
      /\ \A c \in Batches : wpc[c] # "idle" => batch[c] \in {"busy", "forsaken", "over"}
  BY DEF Basics, TypeOK, Linked
<1>1. UNCHANGED <<row, file, vrow, vfile, strays, vstrays, up, at, cand, keyed, gone, wpc>>
  BY DEF PlanJob, CreateJobWithItems, EndJob, Abandon, Expire
<1>2. \A c \in Batches : wpc[c] # "idle" => asset'[c] = asset[c]
  BY <1>0 DEF PlanJob, CreateJobWithItems, EndJob, Abandon, Expire
<1> QED
  BY <1>0, <1>1, <1>2, TracedQuiet DEF Upserting

\* A worker writes the file of a variant, or of a result, before its row.
LEMMA TracedWorker ==
    ASSUME Basics, Traced, NEW b \in Batches, WorkerStep(b)
    PROVE  Traced'
<1> USE DEF rowVars, fileVars, batchVars, sweepVars, envVars, ghostVars, Work
<1> DEFINE a == asset[b]
<1>0. /\ row \in [Objects -> {"none", "live", "removed", "swept"}] /\ cand \subseteq Objects
      /\ wpc \in [Batches -> {"idle", "putting", "upserting", "generating", "completing"}]
      /\ vfile \subseteq Assets /\ file \subseteq Objects /\ gone \subseteq cand
      /\ \A o \in cand : row[o] \in Kept
      /\ wpc[b] # "idle" => a \in Assets /\ row[a] # "none" /\ row[b] = "none"
      /\ Assets \cap Batches = {}
  BY IdsAssumption DEF Basics, TypeOK, Linked
<1>1. UNCHANGED <<asset, up, at, cand, keyed, gone>> /\ \A c \in Batches \ {b} : wpc'[c] = wpc[c]
  BY <1>0 DEF WorkerStep, Preprocess, PutVariant, UpsertVariant, UpsertVariantFails, ReuseVariant, StoreImage,
              StoreImagesFails, CompleteItemSuccess, LeaseLost, CompleteItemFails, GiveUp
<1>2. CASE Preprocess(b) \/ ReuseVariant(b) \/ GiveUp(b)
  <2>1. wpc[b] \notin {"upserting", "completing"} /\ UNCHANGED <<row, file, vrow, vfile, strays, vstrays>>
    BY <1>2 DEF Preprocess, ReuseVariant, GiveUp, Due
  <2>2. \A c \in Assets : Upserting(c) => Upserting(c)'
    BY <1>1, <2>1 DEF Upserting
  <2> QED
    BY <1>0, <1>1, <2>1, <2>2, TracedQuiet
<1>3. CASE PutVariant(b)
  <2>1. /\ UNCHANGED <<row, file, vrow, strays, vstrays>> /\ vfile' = vfile \cup {a}
        /\ wpc[b] = "putting" /\ wpc'[b] = "upserting"
    BY <1>0, <1>3 DEF PutVariant
  <2>2. Upserting(a)' /\ \A c \in Assets : Upserting(c) => Upserting(c)'
    BY <1>1, <2>1 DEF Upserting
  <2>3. NoOrphanFiles'
    <3>1. \A o \in file' \ strays' : Accounted(o)'
      BY <1>1, <2>1 DEF Accounted, Traced, NoOrphanFiles
    <3>2. \A c \in vfile \ vstrays : row[c] \in Kept \/ Upserting(c)
      BY DEF Traced, NoOrphanFiles, Upserting, Kept
    <3>3. \A c \in vfile' \ vstrays' : row'[c] \in Kept \/ Upserting(c)'
      <4> TAKE c \in vfile' \ vstrays'
      <4>1. CASE c = a
        BY <1>1, <2>1, <4>1 DEF Upserting
      <4>2. CASE c # a
        BY <1>0, <2>1, <2>2, <3>2, <4>2
      <4> QED
        BY <4>1, <4>2
    <3> QED
      BY <3>1, <3>3 DEF NoOrphanFiles, Upserting, Kept
  <2> QED
    BY <1>0, <1>1, <2>1, <2>2, <2>3 DEF Traced
<1>4. CASE UpsertVariant(b) \/ UpsertVariantFails(b)
  <2>1. /\ UNCHANGED <<row, file, vfile, strays>> /\ vrow \subseteq vrow' /\ vstrays \subseteq vstrays'
        /\ wpc[b] = "upserting" /\ wpc'[b] = "generating"
    BY <1>0, <1>4 DEF UpsertVariant, UpsertVariantFails
  <2>2. a \in vstrays' \/ (~TooLate(a) /\ a \in vrow')
    BY <1>4 DEF UpsertVariant, UpsertVariantFails
  <2>3. \A c \in Assets \ {a} : Upserting(c) => Upserting(c)'
    BY <1>1, <2>1 DEF Upserting
  <2>4. a \notin vstrays' => row[a] \in Kept /\ a \in vrow' /\ (at = "deleting" => a \notin cand)
    BY <1>0, <2>1, <2>2 DEF TooLate, Kept
  <2>5. NoOrphanFiles'
    <3>1. \A o \in file' \ strays' : Accounted(o)'
      BY <1>1, <2>1 DEF Accounted, Traced, NoOrphanFiles
    <3>2. \A c \in vfile' \ vstrays' : row'[c] \in Kept \/ Upserting(c)'
      <4> TAKE c \in vfile' \ vstrays'
      <4>1. CASE c = a
        BY <2>1, <2>4, <4>1
      <4>2. CASE c # a
        <5>1. row[c] \in Kept \/ Upserting(c)
          BY <2>1 DEF Traced, NoOrphanFiles, Upserting, Kept
        <5> QED
          BY <1>0, <2>1, <2>3, <4>2, <5>1
      <4> QED
        BY <4>1, <4>2
    <3> QED
      BY <3>1, <3>2 DEF NoOrphanFiles, Upserting, Kept
  <2>6. /\ \A c \in vfile' \ vstrays' : c \in vrow' \/ Upserting(c)'
        /\ \A c \in (gone' \cap vfile') \ vstrays' : Upserting(c)'
    BY <1>0, <1>1, <2>1, <2>3, <2>4 DEF Traced
  <2>7. at' = "deleting" => \A c \in (cand' \cap vfile') \ vstrays' : c \in keyed' \/ Upserting(c)'
    BY <1>0, <1>1, <2>1, <2>3, <2>4 DEF Traced
  <2> QED
    BY <1>1, <2>1, <2>5, <2>6, <2>7 DEF Traced
<1>5. CASE \/ StoreImage(b) \/ StoreImagesFails(b)
           \/ CompleteItemSuccess(b) \/ LeaseLost(b) \/ CompleteItemFails(b)
  <2>1. /\ UNCHANGED <<vrow, vfile, vstrays>> /\ strays \subseteq strays' /\ file' \ {b} \subseteq file
        /\ wpc[b] \in {"generating", "completing"} /\ \A o \in Objects \ {b} : row'[o] = row[o]
    BY <1>0, <1>5 DEF StoreImage, StoreImagesFails, CompleteItemSuccess, LeaseLost, CompleteItemFails
  <2>2. b \notin cand
    BY <1>0, <2>1 DEF Kept
  <2>3. b \in file' \ strays' => Accounted(b)'
    <3>1. CASE StoreImage(b)
      BY <1>0, <3>1 DEF StoreImage, Accounted
    <3>2. CASE CompleteItemSuccess(b)
      BY <1>0, <3>2 DEF CompleteItemSuccess, Accounted
    <3>3. CASE StoreImagesFails(b) \/ LeaseLost(b) \/ CompleteItemFails(b)
      BY <3>3 DEF StoreImagesFails, LeaseLost, CompleteItemFails
    <3> QED
      BY <1>5, <3>1, <3>2, <3>3
  <2>4. \A c \in Assets : Upserting(c) => Upserting(c)'
    BY <1>1, <2>1 DEF Upserting
  <2>5. NoOrphanFiles'
    <3>1. \A o \in file' \ strays' : Accounted(o)'
      <4> TAKE o \in file' \ strays'
      <4>1. CASE o # b
        BY <1>0, <1>1, <2>1, <4>1 DEF Accounted, Traced, NoOrphanFiles
      <4> QED
        BY <2>3, <4>1
    <3>2. \A c \in vfile' \ vstrays' : row'[c] \in Kept \/ Upserting(c)'
      <4> TAKE c \in vfile' \ vstrays'
      <4>1. row[c] \in Kept \/ Upserting(c)
        BY <2>1 DEF Traced, NoOrphanFiles, Upserting, Kept
      <4>2. c \in Assets /\ c # b
        BY <1>0, <2>1
      <4> QED
        BY <2>1, <2>4, <4>1, <4>2
    <3> QED
      BY <3>1, <3>2 DEF NoOrphanFiles, Upserting, Kept
  <2> QED
    BY <1>0, <1>1, <2>1, <2>2, <2>4, <2>5 DEF Traced
<1> QED
  BY <1>2, <1>3, <1>4, <1>5 DEF WorkerStep

\* A round learns the keys of variants before it deletes files, and deletes files before rows.
LEMMA TracedRound ==
    ASSUME Basics, Traced,
           \/ \E on \in BOOLEAN : SetCleanup(on)
           \/ RunOnce \/ ListExpired \/ ListVariantKeysByAsset
           \/ \E o \in Objects : DeleteFiles(o) \/ SkipStuck(o) \/ DeleteFilesFails(o)
    PROVE  Traced'
<1> USE DEF rowVars, fileVars, batchVars, sweepVars, envVars, ghostVars, Sweep, Forget
<1>0. /\ vfile \subseteq Assets /\ cand \subseteq Objects /\ todo \subseteq cand /\ gone \subseteq cand
      /\ \A o \in cand : row[o] \in Kept
      /\ Assets \cap Batches = {}
  BY IdsAssumption DEF Basics, TypeOK, Linked
<1>1. UNCHANGED <<row, vrow, up, asset, wpc>>
  BY DEF SetCleanup, RunOnce, ListExpired, ListVariantKeysByAsset, DeleteFiles, SkipStuck, DeleteFilesFails
<1>2. \A a : Upserting(a)' <=> Upserting(a)
  BY <1>1 DEF Upserting
<1>3. CASE (\E on \in BOOLEAN : SetCleanup(on)) \/ RunOnce
  <2>1. /\ UNCHANGED <<file, vfile, strays, vstrays>>
        /\ UNCHANGED <<at, cand, keyed, gone>> \/ (gone' = {} /\ at' # "deleting")
    BY <1>3 DEF SetCleanup, RunOnce
  <2> QED
    BY <1>0, <1>1, <1>2, <2>1, TracedQuiet
<1>4. CASE ListExpired
  <2> DEFINE page == FirstOf({o \in Table(kind) : Expired(o)})
  <2>1. page \subseteq Table(kind)
    BY DEF FirstOf
  <2>2. UNCHANGED <<file, vfile, strays, vstrays>>
    BY <1>4 DEF ListExpired
  <2>3. gone' = {} /\ (at' = "deleting" => cand' \subseteq Batches)
    <3>1. CASE page = {}
      BY <1>4, <3>1 DEF ListExpired, NextKind, EndRound
    <3>2. CASE page # {}
      BY <1>4, <2>1, <3>2 DEF ListExpired, Table
    <3> QED
      BY <3>1, <3>2
  <2>4. NoOrphanFiles'
    BY <1>1, <2>2 DEF Traced, NoOrphanFiles, Accounted
  <2> QED
    BY <1>0, <1>1, <1>2, <2>2, <2>3, <2>4 DEF Traced
<1>5. CASE ListVariantKeysByAsset
  <2>1. /\ UNCHANGED <<file, vfile, cand, gone, strays>> /\ at = "keys" /\ at' = "deleting"
        /\ keyed' = cand \cap vrow /\ vstrays' = vstrays \ keyed'
    BY <1>5 DEF ListVariantKeysByAsset
  <2>2. NoOrphanFiles'
    <3>1. \A o \in file' \ strays' : Accounted(o)'
      BY <1>1, <2>1 DEF Traced, NoOrphanFiles, Accounted
    <3>2. \A a \in vfile' \ vstrays' : row'[a] \in Kept \/ Upserting(a)'
      <4> TAKE a \in vfile' \ vstrays'
      <4>1. a \in vfile \ vstrays \/ row[a] \in Kept
        BY <1>0, <2>1
      <4> QED
        BY <1>1, <1>2, <4>1 DEF Traced, NoOrphanFiles, Upserting, Kept
    <3> QED
      BY <3>1, <3>2 DEF NoOrphanFiles, Upserting, Kept
  <2>3. gone = {}
    BY <2>1 DEF Traced
  <2> QED
    BY <1>0, <1>1, <1>2, <2>1, <2>2, <2>3 DEF Traced
<1>6. ASSUME NEW o \in Objects, DeleteFiles(o) \/ SkipStuck(o) \/ DeleteFilesFails(o) PROVE Traced'
  <2>1. /\ UNCHANGED <<strays, vstrays, at, cand, keyed>> /\ at = "deleting" /\ o \in cand
        /\ vfile' \subseteq vfile /\ file' \subseteq file /\ vfile \ keyed \subseteq vfile'
    BY <1>0, <1>6 DEF DeleteFiles, SkipStuck, DeleteFilesFails, IsNext
  <2>2. gone' = gone \/ (gone' = gone \cup {o} /\ o \notin file' /\ (o \in keyed => o \notin vfile'))
    BY <1>6 DEF DeleteFiles, SkipStuck, DeleteFilesFails
  <2>3. NoOrphanFiles'
    <3>1. \A p \in file' \ strays' : Accounted(p)'
      BY <1>1, <2>1 DEF Traced, NoOrphanFiles, Accounted
    <3>2. \A a \in vfile' \ vstrays' : row'[a] \in Kept \/ Upserting(a)'
      BY <1>1, <1>2, <2>1 DEF Traced, NoOrphanFiles, Upserting, Kept
    <3> QED
      BY <3>1, <3>2 DEF NoOrphanFiles, Upserting, Kept
  <2> QED
    BY <1>0, <1>1, <1>2, <2>1, <2>2, <2>3 DEF Traced
<1> QED
  BY <1>3, <1>4, <1>5, <1>6

\* Marking the rows, a failing round, and a crash.
LEMMA TracedEnd ==
    ASSUME Basics, Traced, SoftDelete \/ RoundFails \/ Crash
    PROVE  Traced'
<1> USE DEF rowVars, fileVars, batchVars, sweepVars, envVars, ghostVars, Sweep, Forget
<1>0. /\ row \in [Objects -> {"none", "live", "removed", "swept"}]
      /\ vfile \subseteq Assets /\ file \subseteq Objects
  BY DEF Basics, TypeOK
<1>1. CASE SoftDelete \/ RoundFails
  <2>1. /\ UNCHANGED <<file, vfile, vrow, up, asset, wpc, strays, vstrays>>
        /\ gone' = {} /\ at' # "deleting" /\ (MarkRows \/ UNCHANGED row)
    BY <1>1 DEF SoftDelete, RoundFails, NextKind, EndRound
  <2>2. \A o \in Objects \ gone : row'[o] = row[o]
    BY <1>0, <2>1 DEF MarkRows, Marked
  <2>3. \A a : Upserting(a)' <=> Upserting(a)
    BY <2>1 DEF Upserting
  <2>4. NoOrphanFiles'
    <3>1. \A o \in file' \ strays' : Accounted(o)'
      BY <1>0, <2>1, <2>2 DEF Traced, NoOrphanFiles, Accounted
    <3>2. \A a \in vfile' \ vstrays' : row'[a] \in Kept \/ Upserting(a)'
      <4> TAKE a \in vfile' \ vstrays'
      <4>1. CASE a \in gone
        BY <2>1, <2>3, <4>1 DEF Traced
      <4>2. CASE a \notin gone
        <5>1. row[a] \in Kept \/ Upserting(a)
          BY <2>1 DEF Traced, NoOrphanFiles, Upserting, Kept
        <5> QED
          BY <1>0, <2>1, <2>2, <2>3, <4>2, <5>1
      <4> QED
        BY <4>1, <4>2
    <3> QED
      BY <3>1, <3>2 DEF NoOrphanFiles, Upserting, Kept
  <2> QED
    BY <2>1, <2>3, <2>4 DEF Traced
<1>2. CASE Crash
  <2>1. /\ UNCHANGED <<row, file, vrow, vfile>> /\ gone' = {} /\ at' = "idle"
        /\ strays \subseteq strays' /\ vstrays \subseteq vstrays'
    BY <1>2 DEF Crash, EndRound
  <2>2. \A a : Upserting(a) => a \in vstrays'
    BY <1>2 DEF Crash, Upserting
  <2>3. \A o : Accounted(o) /\ o \notin strays' => row[o] \in Kept
    BY <1>2 DEF Crash, Accounted, Kept
  <2>4. NoOrphanFiles'
    <3>1. \A o \in file' \ strays' : Accounted(o)'
      <4> TAKE o \in file' \ strays'
      <4>1. row[o] \in Kept
        BY <2>1, <2>3 DEF Traced, NoOrphanFiles
      <4> QED
        BY <2>1, <4>1 DEF Accounted, Kept
    <3>2. \A a \in vfile' \ vstrays' : row'[a] \in Kept
      BY <2>1, <2>2 DEF Traced, NoOrphanFiles, Upserting, Kept
    <3> QED
      BY <3>1, <3>2 DEF NoOrphanFiles, Kept
  <2> QED
    BY <2>1, <2>2, <2>4 DEF Traced
<1> QED
  BY <1>1, <1>2

\* Every step leaves files that something names.
LEMMA TracedStep == Basics /\ Traced /\ [Next]_vars => Traced'
<1> SUFFICES ASSUME Basics, Traced, [Next]_vars PROVE Traced'
  OBVIOUS
<1>1. CASE UNCHANGED vars
  <2>1. vfile \subseteq Assets
    BY DEF Basics, TypeOK
  <2> QED
    BY <1>1, <2>1, TracedQuiet DEF vars, rowVars, fileVars, batchVars, sweepVars, ghostVars, Upserting
<1>2. CASE Next
  BY <1>2, TracedAssets, TracedBatch, TracedWorker, TracedRound, TracedEnd DEF Next, SweepStep
<1> QED
  BY <1>1, <1>2

-----------------------------------------------------------------------------
\* The inductive invariant of images and their cleanup.
IInv == Basics /\ Sheltered /\ Traced

\* IInv holds in every reachable state, for any sets of images and batches, any page size, any
\* undeletable files and any number of failures.
THEOREM ImagesInvariant == Spec => []IInv
<1>1. Init => IInv
  <2> SUFFICES ASSUME Init PROVE IInv
    OBVIOUS
  <2>1. Basics
    BY BasicsInit
  <2>2. Sheltered
    BY StockAssumption DEF Init, Sheltered, BusyKeepsOriginals, RowsHaveFiles
  <2>3. Traced
    BY StockAssumption DEF Init, Traced, NoOrphanFiles, Accounted
  <2> QED
    BY <2>1, <2>2, <2>3 DEF IInv
<1>2. IInv /\ [Next]_vars => IInv'
  BY BasicsStep, ShelteredStep, TracedStep DEF IInv
<1> QED
  BY <1>1, <1>2, PTL DEF Spec

\* Rows, files, batches, workers and the lists of a round stay well typed.
THEOREM ImagesTypeCorrect == Spec => []TypeOK
<1>1. IInv => TypeOK
  BY DEF IInv, Basics
<1> QED
  BY <1>1, ImagesInvariant, PTL

\* The nightly cleanup never takes the image of an unfinished batch, unless the batch was
\* inserted after the image was listed or its file deleted.
THEOREM OriginalsKept == Spec => []BusyKeepsOriginals
<1>1. IInv => BusyKeepsOriginals
  BY DEF IInv, Sheltered
<1> QED
  BY <1>1, ImagesInvariant, PTL

\* An image its owner deleted keeps its file and one that is listed can be opened, unless it
\* met the cleanup, or a lost answer, halfway, or is expired and about to be marked.
THEOREM RowsKeepFiles == Spec => []RowsHaveFiles
<1>1. IInv => RowsHaveFiles
  BY DEF IInv, Sheltered
<1> QED
  BY <1>1, ImagesInvariant, PTL

\* Whatever the sizes and the number of failures, a file that nothing leads to was left by a
\* failure or a crash between file and row, by an attempt that failed with some images stored,
\* by a worker that lost its lease, or is a variant recorded after its keys were listed.
THEOREM OrphansExplained == Spec => []NoOrphanFiles
<1>1. IInv => NoOrphanFiles
  BY DEF IInv, Traced
<1> QED
  BY <1>1, ImagesInvariant, PTL

=============================================================================
