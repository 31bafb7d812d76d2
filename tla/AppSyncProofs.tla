--------------------------- MODULE AppSyncProofs ---------------------------
(***************************************************************************)
(* Proofs about AppSync: types, the media of manifest and browsers, and    *)
(* the newest version of every project, for any number of browsers,        *)
(* projects, media and syncs.                                              *)
(***************************************************************************)
EXTENDS AppSync, FiniteSetTheorems, TLAPS

(* Facts about the operators.                                              *)

\* The keys collected from projects are storage keys, and every medium of a
\* project is among them (collectStorageKeys).
LEMMA Keys ==
  ASSUME NEW docs \in Docs
  PROVE  /\ CollectStorageKeys(docs) \subseteq Files
         /\ \A p \in Projects : docs[p].file \in CollectStorageKeys(docs) \cup {None}
BY DEF CollectStorageKeys, Docs

\* Merging keeps the type, and of each project takes one of the two versions, the
\* later one (mergeById).
LEMMA MergedById ==
  ASSUME NEW mine \in Docs, NEW theirs \in Docs
  PROVE  /\ MergeById(mine, theirs) \in Docs
         /\ \A p \in Projects : LET m == MergeById(mine, theirs)[p] IN
              \/ m = mine[p] /\ mine[p].time >= theirs[p].time
              \/ m = theirs[p] /\ mine[p].time < theirs[p].time
<1> USE AppConstants DEF Docs
<1>1. \A p \in Projects : mine[p] \in [time : 0..MaxTime, file : Files \cup {None}]
                       /\ theirs[p] \in [time : 0..MaxTime, file : Files \cup {None}]
  OBVIOUS
<1>2. \A p \in Projects : mine[p].time \in Nat /\ theirs[p].time \in Nat
  BY <1>1
<1>3. MergeById(mine, theirs) \in Docs
  BY <1>1 DEF MergeById
<1>4. QED  BY <1>2, <1>3 DEF MergeById

\* A sync under way that a change of the user meets is only marked.
LEMMA TouchedRun ==
  ASSUME TypeOK, NEW d \in Devices, NEW p \in Projects
  PROVE  /\ Touched(d, p) \in [Runs -> Syncs]
         /\ \A r \in Runs : Touched(d, p)[r].at # "off" => Touched(d, p)[r].dev \in Devices
         /\ \A r \in Runs : LET x == Touched(d, p)[r] IN
              /\ x.at = run[r].at /\ x.dev = run[r].dev /\ x.base = run[r].base
              /\ x.merged = run[r].merged /\ x.todo = run[r].todo /\ x.files = run[r].files
              /\ run[r].edited \subseteq x.edited
              /\ run[r].at = "download" /\ run[r].dev = d => p \in x.edited
<1>1. \A r \in Runs : run[r] \in Syncs  BY DEF TypeOK
<1>2. SUFFICES ASSUME NEW r \in Runs
               PROVE  LET x == Touched(d, p)[r] IN
                        /\ x \in Syncs /\ (x.at # "off" => x.dev \in Devices)
                        /\ x.at = run[r].at /\ x.dev = run[r].dev /\ x.base = run[r].base
                        /\ x.merged = run[r].merged /\ x.todo = run[r].todo /\ x.files = run[r].files
                        /\ run[r].edited \subseteq x.edited
                        /\ run[r].at = "download" /\ run[r].dev = d => p \in x.edited
  BY DEF Touched
<1>3. run[r] \in Syncs /\ (run[r].at # "off" => run[r].dev \in Devices)
  BY <1>1 DEF TypeOK
<1>4. QED  BY <1>3 DEF Touched, RunsOf, Syncs

\* The empty values have their types.
LEMMA Empty ==
  /\ NoDoc \in [time : 0..MaxTime, file : Files \cup {None}] /\ NoDocs \in Docs
  /\ NoManifest \in Manifests /\ NoRun \in Syncs /\ NoSweep \in Sweeps
  /\ NoRun.at = "off"
<1>1. NoDoc \in [time : 0..MaxTime, file : Files \cup {None}]
  BY AppConstants DEF NoDoc
<1>2. NoDocs \in Docs  BY <1>1 DEF NoDocs, Docs
<1>3. QED  BY <1>1, <1>2 DEF NoManifest, Manifests, NoRun, Syncs, NoSweep, Sweeps

-----------------------------------------------------------------------------
(* Types.                                                                  *)

LEMMA InitType == Init => TypeOK
<1> SUFFICES ASSUME Init PROVE TypeOK
  OBVIOUS
<1> USE AppConstants, Empty
<1>1. /\ adding \in [Devices -> Files \cup {None}] /\ sweep \in Sweeps
      /\ run \in [Runs -> Syncs] /\ \A r \in Runs : run[r].at = "off"
      /\ manifest \in Manifests
      /\ server = {} /\ torn \subseteq Files /\ saved = store
  BY DEF Init
<1>2. PICK d \in Devices, p \in Projects, f \in Files :
        \/ Begin(d, NoDocs, {})
        \/ Begin(d, [NoDocs EXCEPT ![p] = [time |-> 1, file |-> f]], {f})
  BY DEF Init
<1>3. CASE Begin(d, NoDocs, {})
  <2>1. Cardinality({}) = 0  BY FS_EmptySet
  <2>2. \A q \in Projects : NoDocs[q].time = 0  BY DEF NoDocs, NoDoc
  <2>3. last \in [Projects -> Changes]  BY <1>3 DEF Begin, Changes
  <2>4. QED  BY <1>1, <1>3, <2>1, <2>2, <2>3 DEF Begin, TypeOK
<1>4. CASE Begin(d, [NoDocs EXCEPT ![p] = [time |-> 1, file |-> f]], {f})
  <2> DEFINE D == [NoDocs EXCEPT ![p] = [time |-> 1, file |-> f]]
  <2>1. Cardinality({f}) = 1  BY FS_Singleton
  <2>2. D \in Docs  BY DEF Docs
  <2>3. \A q \in Projects : D[q].time \in 0..MaxTime  BY <2>2 DEF Docs
  <2> HIDE DEF D
  <2>4. Begin(d, D, {f})  BY <1>4 DEF D
  <2>5. last \in [Projects -> Changes]  BY <2>4 DEF Begin, Changes
  <2>6. QED  BY <1>1, <2>1, <2>2, <2>3, <2>4, <2>5 DEF Begin, TypeOK
<1>5. QED  BY <1>2, <1>3, <1>4

\* A change of a project keeps the types.
LEMMA EditType ==
  ASSUME TypeOK, NEW d \in Devices, NEW p \in Projects, NEW f \in Files \cup {None},
         Edit(d, p, f)
  PROVE  /\ store' \in [Devices -> Docs] /\ run' \in [Runs -> Syncs]
         /\ \A r \in Runs : run'[r].at # "off" => run'[r].dev \in Devices
         /\ clock' \in 0..MaxTime /\ newest' \in [Projects -> 0..MaxTime]
         /\ clock' = clock + 1 /\ manifest' = manifest /\ server' = server /\ torn' = torn
         /\ saved' = saved /\ last' \in [Projects -> Changes]
<1> USE AppConstants
<1>1. clock' = clock + 1 /\ clock' \in 0..MaxTime
  BY DEF Edit, Tick, TypeOK
<1>2. newest' \in [Projects -> 0..MaxTime]
  BY <1>1 DEF Edit, TypeOK
<1>3. [time |-> clock', file |-> f] \in [time : 0..MaxTime, file : Files \cup {None}]
  BY <1>1
<1>4. store' \in [Devices -> Docs]
  BY <1>3 DEF Edit, TypeOK, Docs
<1>5. run' \in [Runs -> Syncs] /\ \A r \in Runs : run'[r].at # "off" => run'[r].dev \in Devices
  BY TouchedRun DEF Edit
<1>6. last' \in [Projects -> Changes]  BY DEF Edit, TypeOK, Changes
<1>7. QED  BY <1>1, <1>2, <1>4, <1>5, <1>6 DEF Edit, remote

LEMMA UserType ==
  ASSUME TypeOK, NEW d \in Devices, UserStep(d)
  PROVE  TypeOK'
<1> USE AppConstants
<1>1. ASSUME NEW p \in Projects, Create(d, p) PROVE TypeOK'
  BY <1>1, EditType DEF Create, TypeOK
<1>2. ASSUME NEW p \in Projects, Touch(d, p) PROVE TypeOK'
  <2>1. store[d][p].file \in Files \cup {None}  BY DEF TypeOK, Docs
  <2>2. QED  BY <1>2, <2>1, EditType DEF Touch, TypeOK
<1>3. ASSUME NEW p \in Projects, AddNode(d, p) PROVE TypeOK'
  <2>1. adding[d] \in Files \cup {None}  BY DEF TypeOK
  <2>2. QED  BY <1>3, <2>1, EditType DEF AddNode, TypeOK
<1>4. ASSUME NEW p \in Projects, DeleteNode(d, p) PROVE TypeOK'
  <2>1. store[d][p].file \in Files  BY <1>4 DEF DeleteNode, TypeOK, Docs
  <2>2. sweep' \in Sweeps  BY <1>4, <2>1 DEF DeleteNode, Sweeps
  <2>3. QED  BY <1>4, <2>2, EditType DEF DeleteNode, TypeOK
<1>5. ASSUME NEW p \in Projects, Delete(d, p) PROVE TypeOK'
  <2>1. sweep' \in Sweeps  BY <1>5 DEF Delete, Sweeps
  <2>2. store' \in [Devices -> Docs]  BY <1>5, Empty DEF Delete, TypeOK, Docs
  <2>3. run' \in [Runs -> Syncs] /\ \A r \in Runs : run'[r].at # "off" => run'[r].dev \in Devices
    BY <1>5, TouchedRun DEF Delete
  <2>4. clock' \in 0..MaxTime  BY <1>5 DEF Delete, Tick, TypeOK
  <2>5. last' \in [Projects -> Changes]  BY <1>5 DEF Delete, TypeOK, Changes
  <2>6. QED  BY <1>5, <2>1, <2>2, <2>3, <2>4, <2>5 DEF Delete, TypeOK, remote
<1>6. ASSUME NEW f \in Files, StoreImage(d, f) PROVE TypeOK'
  BY <1>6 DEF StoreImage, TypeOK, remote
<1>7. QED  BY <1>1, <1>2, <1>3, <1>4, <1>5, <1>6 DEF UserStep

LEMMA BrowserType ==
  ASSUME TypeOK, NEW d \in Devices,
         Persist(d) \/ Crash(d) \/ ScanUsed(d) \/ SweepFiles(d)
  PROVE  TypeOK'
<1> USE AppConstants
<1>1. CASE Crash(d)
  <2>1. run' \in [Runs -> Syncs] /\ \A r \in Runs : run'[r].at # "off" => run'[r].dev \in Devices
    BY <1>1, Empty DEF Crash, TypeOK
  <2>2. last' \in [Projects -> Changes]  BY <1>1 DEF Crash, TypeOK, Changes
  <2>3. QED  BY <1>1, <2>1, <2>2, Empty DEF Crash, TypeOK, remote
<1>2. CASE ScanUsed(d)
  <2>1. CollectStorageKeys(store[d]) \subseteq Files  BY Keys DEF TypeOK
  <2>2. sweep' \in Sweeps  BY <1>2, <2>1 DEF ScanUsed, TypeOK, Sweeps
  <2>3. QED  BY <1>2, <2>2 DEF ScanUsed, TypeOK, remote, history
<1>3. CASE SweepFiles(d)
  <2>1. blobs' \in [Devices -> SUBSET made]  BY <1>3 DEF SweepFiles, TypeOK
  <2>2. torn' \subseteq Files  BY <1>3 DEF SweepFiles, TypeOK
  <2>3. QED  BY <1>3, <2>1, <2>2, Empty DEF SweepFiles, TypeOK, remote
<1>4. CASE Persist(d)
  BY <1>4 DEF Persist, TypeOK, remote, history
<1>5. QED  BY <1>1, <1>2, <1>3, <1>4

LEMMA SyncType ==
  ASSUME TypeOK, NEW r \in Runs, SyncStep(r)
  PROVE  TypeOK'
<1> USE AppConstants
<1>0. run[r] \in Syncs  BY DEF TypeOK
<1>1. ASSUME NEW d \in Devices, ReadManifest(r, d) PROVE TypeOK'
  <2>1. manifest.files \subseteq Files /\ manifest.docs \in Docs  BY DEF TypeOK, Manifests
  <2>2. run' \in [Runs -> Syncs]
    BY <1>1, <2>1, Empty DEF ReadManifest, TypeOK, Syncs, NoRun, Reading
  <2>3. \A s \in Runs : run'[s].at # "off" => run'[s].dev \in Devices
    BY <1>1 DEF ReadManifest, TypeOK, NoRun
  <2>4. QED  BY <1>1, <2>2, <2>3 DEF ReadManifest, TypeOK, local, remote, history
<1>7. CASE MergeData(r)
  <2> DEFINE docs == MergeById(store[run[r].dev], run[r].merged)
  <2>1. run[r].dev \in Devices  BY <1>7 DEF MergeData, TypeOK, Reading
  <2>2. docs \in Docs  BY <1>0, <2>1, MergedById DEF TypeOK, Syncs
  <2>3. CollectStorageKeys(docs) \subseteq Files  BY <2>2, Keys
  <2> HIDE DEF docs
  <2>4. run' = [run EXCEPT ![r].at = IF @ = "read" THEN "download" ELSE "upload",
          ![r].merged = docs, ![r].todo = CollectStorageKeys(docs)]
    BY <1>7 DEF MergeData, docs
  <2>5. run' \in [Runs -> Syncs]  BY <1>0, <2>2, <2>3, <2>4 DEF TypeOK, Syncs, Merged
  <2>6. \A s \in Runs : run'[s].at # "off" => run'[s].dev \in Devices
    BY <1>0, <2>1, <2>4 DEF TypeOK, Syncs
  <2>7. QED  BY <1>7, <2>5, <2>6 DEF MergeData, TypeOK, local, remote, history
<1>2. ASSUME NEW f \in Files, DownloadFile(r, f) PROVE TypeOK'
  <2>1. run' \in [Runs -> Syncs]  BY <1>0, <1>2 DEF DownloadFile, TypeOK, Syncs
  <2>2. Fetched(r, f) \subseteq made  BY DEF Fetched, TypeOK
  <2>3. blobs' \in [Devices -> SUBSET made]  BY <1>2, <2>2 DEF DownloadFile, TypeOK
  <2>4. QED  BY <1>2, <2>1, <2>3 DEF DownloadFile, TypeOK, remote, history
<1>3. ASSUME NEW f \in Files, UploadFile(r, f) PROVE TypeOK'
  <2>1. Listed(r, f) \subseteq Files  BY DEF Listed
  <2>2. run' \in [Runs -> Syncs]  BY <1>0, <1>3, <2>1 DEF UploadFile, TypeOK, Syncs
  <2>3. server' \subseteq made
    <3>1. server' = server \cup ({f} \cap (blobs[run[r].dev] \ run[r].base))  BY <1>3 DEF UploadFile
    <3>2. blobs[run[r].dev] \subseteq made  BY <1>3 DEF UploadFile, RunIs, TypeOK
    <3>3. QED  BY <3>1, <3>2 DEF TypeOK
  <2>4. QED  BY <1>3, <2>2, <2>3 DEF UploadFile, TypeOK, local, history
<1>4. CASE ApplyData(r)
  <2>1. CollectStorageKeys(run[r].merged) \subseteq Files  BY <1>0, Keys DEF Syncs
  <2>2. run' \in [Runs -> Syncs]  BY <1>0, <1>4, <2>1 DEF ApplyData, TypeOK, Syncs, Merged
  <2>3. store' \in [Devices -> Docs]  BY <1>0, <1>4 DEF ApplyData, TypeOK, Syncs
  <2>4. last' \in [Projects -> Changes]  BY <1>4 DEF ApplyData, TypeOK, Changes
  <2>5. QED  BY <1>4, <2>2, <2>3, <2>4 DEF ApplyData, TypeOK, remote
<1>5. CASE PutManifest(r)
  <2>1. manifest' \in Manifests  BY <1>0, <1>5 DEF PutManifest, Manifests, Syncs
  <2>2. run' \in [Runs -> Syncs] /\ \A s \in Runs : run'[s].at # "off" => run'[s].dev \in Devices
    BY <1>5, Empty DEF PutManifest, TypeOK
  <2>3. QED  BY <1>5, <2>1, <2>2 DEF PutManifest, TypeOK, local, history
<1>6. CASE Fail(r)
  BY <1>6, Empty DEF Fail, TypeOK, local, remote, history
<1>8. QED  BY <1>1, <1>2, <1>3, <1>4, <1>5, <1>6, <1>7 DEF SyncStep

\* A step leaves the types as they are.
LEMMA NextType == TypeOK /\ [Next]_vars => TypeOK'
<1> SUFFICES ASSUME TypeOK, [Next]_vars PROVE TypeOK'
  OBVIOUS
<1>1. CASE UNCHANGED vars
  BY <1>1 DEF vars, local, remote, history, TypeOK
<1>2. CASE Next
  BY <1>2, UserType, BrowserType, SyncType DEF Next
<1>3. QED  BY <1>1, <1>2

\* Every variable keeps its type, and a sync under way has its browser.
THEOREM TypeCorrect == Spec => []TypeOK
BY InitType, NextType, PTL DEF Spec

-----------------------------------------------------------------------------
(* Media.                                                                  *)

\* Where medium f of the projects of sync r is. Before the merge the old manifest
\* lists it. Before the merge is applied it is in the browser or still to be
\* downloaded; after it, listed for the new manifest or in the browser and still to
\* be uploaded.
Placed(r, f) ==
  \/ f \in torn \cup {None} \/ run[r].at = "off"
  \/ run[r].at \in Reading /\ f \in run[r].base
  \/ run[r].at = "download" /\ f \in blobs[run[r].dev] \cup (run[r].base \cap run[r].todo)
  \/ run[r].at = "upload" /\ f \in run[r].files \cup (run[r].todo \cap blobs[run[r].dev])

\* A sync knows only files that are on the server, and where its media are.
RunMedia(r) ==
  /\ run[r].base \subseteq server /\ run[r].files \subseteq server
  /\ \A p \in Projects : Placed(r, run[r].merged[p].file)
  /\ run[r].at = "readNone" => \A p \in Projects : run[r].merged[p].file = None

ServerMedia ==
  /\ manifest.files \subseteq server
  /\ \A p \in Projects : manifest.docs[p].file \in manifest.files \cup torn \cup {None}
  /\ ~manifest.there => \A p \in Projects : manifest.docs[p].file = None

BrowserMedia(d) ==
  /\ \A p \in Projects : store[d][p].file \in blobs[d] \cup torn \cup {None}
  /\ \A p \in Projects : saved[d][p].file \in blobs[d] \cup torn \cup {None}
  /\ adding[d] \in blobs[d] \cup torn \cup {None}

MediaInv ==
  /\ ServerMedia
  /\ \A d \in Devices : BrowserMedia(d)
  /\ \A r \in Runs : RunMedia(r)

LEMMA InitMedia == Init => MediaInv
<1> SUFFICES ASSUME Init PROVE MediaInv
  OBVIOUS
<1>1. ServerMedia
  BY DEF Init, ServerMedia, NoManifest, NoDocs, NoDoc
<1>2. \A r \in Runs : RunMedia(r)
  BY DEF Init, RunMedia, Placed, NoRun
<1>3. ASSUME NEW d \in Devices PROVE BrowserMedia(d)
  <2>1. PICK e \in Devices, p \in Projects, f \in Files :
          \/ Begin(e, NoDocs, {})
          \/ Begin(e, [NoDocs EXCEPT ![p] = [time |-> 1, file |-> f]], {f})
    BY DEF Init
  <2>2. QED  BY <2>1 DEF Init, Begin, BrowserMedia, NoDocs, NoDoc
<1>4. QED  BY <1>1, <1>2, <1>3 DEF MediaInv

\* A step of a user that adds no medium a browser does not have: what the syncs do
\* is not disturbed.
LEMMA EditMedia ==
  ASSUME TypeOK, MediaInv, NEW d \in Devices, NEW p \in Projects, NEW f,
         Edit(d, p, f), blobs' = blobs, f \in blobs[d] \cup torn \cup {None},
         \A e \in Devices : adding'[e] \in {adding[e], None}
  PROVE  MediaInv'
<1>1. manifest' = manifest /\ server' = server /\ torn' = torn /\ run' = Touched(d, p)
  BY DEF Edit, remote
<1>2. ServerMedia'
  BY <1>1 DEF MediaInv, ServerMedia
<1>3. ASSUME NEW r \in Runs PROVE RunMedia(r)'
  BY <1>1, TouchedRun DEF MediaInv, RunMedia, Placed
<1>4. ASSUME NEW e \in Devices PROVE BrowserMedia(e)'
  <2>1. \A q \in Projects : store'[e][q].file \in {store[e][q].file, f}
                         /\ (e # d => store'[e][q] = store[e][q])
    BY DEF Edit, TypeOK, Docs
  <2>2. saved' = saved  BY DEF Edit
  <2>3. QED  BY <1>1, <2>1, <2>2 DEF MediaInv, BrowserMedia
<1>5. QED  BY <1>2, <1>3, <1>4 DEF MediaInv

LEMMA UserMedia ==
  ASSUME TypeOK, MediaInv, NEW d \in Devices, UserStep(d)
  PROVE  MediaInv'
<1>1. ASSUME NEW p \in Projects, Create(d, p) PROVE MediaInv'
  BY <1>1, EditMedia DEF Create
<1>2. ASSUME NEW p \in Projects, Touch(d, p) PROVE MediaInv'
  <2>1. store[d][p].file \in blobs[d] \cup torn \cup {None}  BY DEF MediaInv, BrowserMedia
  <2>2. QED  BY <1>2, <2>1, EditMedia DEF Touch
<1>3. ASSUME NEW p \in Projects, AddNode(d, p) PROVE MediaInv'
  <2>1. adding[d] \in blobs[d] \cup torn \cup {None}  BY DEF MediaInv, BrowserMedia
  <2>2. \A e \in Devices : adding'[e] \in {adding[e], None}  BY <1>3 DEF AddNode, TypeOK
  <2>3. QED  BY <1>3, <2>1, <2>2, EditMedia DEF AddNode
<1>4. ASSUME NEW p \in Projects, DeleteNode(d, p) PROVE MediaInv'
  BY <1>4, EditMedia DEF DeleteNode
<1>5. ASSUME NEW p \in Projects, Delete(d, p) PROVE MediaInv'
  <2>1. ServerMedia'
    BY <1>5 DEF Delete, remote, MediaInv, ServerMedia
  <2>2. ASSUME NEW r \in Runs PROVE RunMedia(r)'
    BY <1>5, TouchedRun DEF Delete, remote, MediaInv, RunMedia, Placed
  <2>3. ASSUME NEW e \in Devices PROVE BrowserMedia(e)'
    <3>1. \A q \in Projects : store'[e][q] \in {store[e][q], NoDoc}
      BY <1>5 DEF Delete, TypeOK, Docs
    <3>2. QED  BY <1>5, <3>1 DEF Delete, NoDoc, MediaInv, BrowserMedia
  <2>4. QED  BY <2>1, <2>2, <2>3 DEF MediaInv
<1>6. ASSUME NEW f \in Files, StoreImage(d, f) PROVE MediaInv'
  <2>1. ServerMedia'
    BY <1>6 DEF StoreImage, remote, MediaInv, ServerMedia
  <2>2. ASSUME NEW e \in Devices PROVE blobs[e] \subseteq blobs'[e]
    BY <1>6 DEF StoreImage, TypeOK
  <2>3. ASSUME NEW r \in Runs PROVE RunMedia(r)'
    BY <1>6, <2>2 DEF StoreImage, remote, MediaInv, RunMedia, Placed, TypeOK
  <2>4. ASSUME NEW e \in Devices PROVE BrowserMedia(e)'
    <3>1. adding'[e] \in blobs'[e] \cup torn \cup {None}
      BY <1>6, <2>2 DEF StoreImage, TypeOK, MediaInv, BrowserMedia
    <3>2. QED  BY <1>6, <2>2, <3>1 DEF StoreImage, MediaInv, BrowserMedia
  <2>5. QED  BY <2>1, <2>3, <2>4 DEF MediaInv
<1>7. QED  BY <1>1, <1>2, <1>3, <1>4, <1>5, <1>6 DEF UserStep

LEMMA CleanupMedia ==
  ASSUME TypeOK, MediaInv, NEW d \in Devices,
         Persist(d) \/ Crash(d) \/ ScanUsed(d) \/ SweepFiles(d)
  PROVE  MediaInv'
<1>1. CASE Crash(d)
  <2>1. \A r \in Runs : run'[r] \in {run[r], NoRun}  BY <1>1 DEF Crash
  <2>2. \A r \in Runs : RunMedia(r)'
    BY <1>1, <2>1 DEF Crash, remote, MediaInv, RunMedia, Placed, NoRun
  <2>3. ASSUME NEW e \in Devices PROVE BrowserMedia(e)'
    <3>1. store'[e] \in {store[e], saved[e]} /\ adding'[e] \in {adding[e], None}
      BY <1>1 DEF Crash, TypeOK
    <3>2. QED  BY <1>1, <3>1 DEF Crash, MediaInv, BrowserMedia
  <2>4. QED  BY <1>1, <2>2, <2>3 DEF Crash, remote, MediaInv, ServerMedia
<1>2. CASE ScanUsed(d)
  BY <1>2 DEF ScanUsed, remote, history, MediaInv, ServerMedia, BrowserMedia, RunMedia, Placed
<1>3. CASE SweepFiles(d)
  \* What is removed and needed is torn.
  <2>1. ASSUME NEW e \in Devices, NEW f, f \in blobs[e], e # d \/ f \in Needed(d)
        PROVE  f \in blobs'[e] \cup torn'
    BY <1>3, <2>1 DEF SweepFiles, TypeOK
  <2>2. torn \subseteq torn'  BY <1>3 DEF SweepFiles
  <2>3. ServerMedia'
    BY <1>3, <2>2 DEF SweepFiles, remote, MediaInv, ServerMedia
  <2>4. ASSUME NEW e \in Devices PROVE BrowserMedia(e)'
    <3>1. ASSUME NEW p \in Projects PROVE store[e][p].file \in blobs'[e] \cup torn' \cup {None}
      <4>1. store[e] \in Docs  BY DEF TypeOK
      <4>2. store[e][p].file \in CollectStorageKeys(store[e]) \cup {None}  BY <4>1, Keys
      <4>3. store[e][p].file \in blobs[e] \cup torn \cup {None}  BY DEF MediaInv, BrowserMedia
      <4>4. QED  BY <2>1, <2>2, <4>2, <4>3 DEF Needed
    <3>2. adding[e] \in blobs'[e] \cup torn' \cup {None}
      <4>1. adding[e] \in blobs[e] \cup torn \cup {None}  BY DEF MediaInv, BrowserMedia
      <4>2. QED  BY <2>1, <2>2, <4>1 DEF Needed
    <3>3. ASSUME NEW p \in Projects PROVE saved[e][p].file \in blobs'[e] \cup torn' \cup {None}
      <4>1. saved[e] \in Docs  BY DEF TypeOK
      <4>2. saved[e][p].file \in CollectStorageKeys(saved[e]) \cup {None}  BY <4>1, Keys
      <4>3. saved[e][p].file \in blobs[e] \cup torn \cup {None}  BY DEF MediaInv, BrowserMedia
      <4>4. QED  BY <2>1, <2>2, <4>2, <4>3 DEF Needed
    <3>4. QED  BY <1>3, <3>1, <3>2, <3>3 DEF SweepFiles, BrowserMedia
  <2>5. ASSUME NEW r \in Runs PROVE RunMedia(r)'
    <3>1. ASSUME NEW p \in Projects PROVE Placed(r, run[r].merged[p].file)'
      <4> DEFINE f == run[r].merged[p].file
      <4>1. CASE run[r].at \notin Merged
        <5>1. Placed(r, f)  BY DEF MediaInv, RunMedia
        <5>2. QED  BY <1>3, <2>2, <4>1, <5>1 DEF SweepFiles, Placed, Merged
      <4>2. CASE run[r].at \in Merged
        <5>1. run[r].dev \in Devices /\ run[r].merged \in Docs  BY <4>2 DEF TypeOK, Syncs, Merged
        <5>2. f \in CollectStorageKeys(run[r].merged) \cup {None}  BY <5>1, Keys
        <5>3. run[r].dev = d => f \in Needed(d) \cup {None}  BY <4>2, <5>2 DEF Needed, RunsOf, Merged
        <5>4. f \in blobs[run[r].dev] => f \in blobs'[run[r].dev] \cup torn' \cup {None}
          BY <2>1, <5>1, <5>3
        <5>5. Placed(r, f)  BY DEF MediaInv, RunMedia
        <5>6. run' = run  BY <1>3 DEF SweepFiles
        <5>7. QED  BY <2>2, <5>4, <5>5, <5>6 DEF Placed
      <4>3. QED  BY <4>1, <4>2
    <3>2. QED  BY <1>3, <3>1 DEF SweepFiles, remote, MediaInv, RunMedia
  <2>6. QED  BY <2>3, <2>4, <2>5 DEF MediaInv
<1>4. CASE Persist(d)
  <2>1. \A e \in Devices : saved'[e] \in {store[e], saved[e]}  BY <1>4 DEF Persist, TypeOK
  <2>2. \A e \in Devices : BrowserMedia(e)'
    BY <1>4, <2>1 DEF Persist, history, MediaInv, BrowserMedia
  <2>3. QED  BY <1>4, <2>2 DEF Persist, remote, history, MediaInv, ServerMedia, RunMedia, Placed
<1>5. QED  BY <1>1, <1>2, <1>3, <1>4

LEMMA SyncMedia ==
  ASSUME TypeOK, MediaInv, NEW r \in Runs, SyncStep(r)
  PROVE  MediaInv'
<1>0. run[r] \in Syncs  BY DEF TypeOK
<1>1. ASSUME NEW d \in Devices, ReadManifest(r, d) PROVE MediaInv'
  <2>1. /\ run'[r].at = IF manifest.there THEN "read" ELSE "readNone"
        /\ run'[r].base = manifest.files /\ run'[r].merged = manifest.docs /\ run'[r].files = {}
        /\ \A s \in Runs : s # r => run'[s] = run[s]
    BY <1>1 DEF ReadManifest, NoRun, TypeOK
  <2>2. RunMedia(r)'
    BY <1>1, <2>1 DEF ReadManifest, local, remote, history, MediaInv, ServerMedia, RunMedia, Placed, Reading
  <2>3. ASSUME NEW s \in Runs, s # r PROVE RunMedia(s)'
    BY <1>1, <2>1, <2>3 DEF ReadManifest, local, remote, history, MediaInv, RunMedia, Placed
  <2>4. QED
    BY <1>1, <2>2, <2>3
    DEF ReadManifest, local, remote, history, MediaInv, ServerMedia, BrowserMedia
<1>7. CASE MergeData(r)
  <2> DEFINE d == run[r].dev
             docs == MergeById(store[d], run[r].merged)
  <2>1. d \in Devices /\ run[r].at \in Reading  BY <1>7 DEF MergeData, TypeOK, Reading
  <2>2. store[d] \in Docs /\ run[r].merged \in Docs  BY <1>0, <2>1 DEF TypeOK, Syncs
  <2>3. docs \in Docs  BY <2>2, MergedById
  <2>4. \A p \in Projects : docs[p].file \in CollectStorageKeys(docs) \cup {None}  BY <2>3, Keys
  <2>5. \A p \in Projects : docs[p] = store[d][p] \/ docs[p] = run[r].merged[p]
    BY <2>2, MergedById
  <2>6. \A p \in Projects : store[d][p].file \in blobs[d] \cup torn \cup {None}
    BY <2>1 DEF MediaInv, BrowserMedia
  <2>7. /\ run[r].base \subseteq server /\ run[r].files \subseteq server
        /\ \A p \in Projects : \/ run[r].merged[p].file \in torn \cup {None}
                               \/ run[r].at = "read" /\ run[r].merged[p].file \in run[r].base
    BY <2>1 DEF MediaInv, RunMedia, Placed, Reading
  <2> HIDE DEF docs
  <2>8. /\ run'[r].at = (IF run[r].at = "read" THEN "download" ELSE "upload")
        /\ run'[r].dev = d /\ run'[r].base = run[r].base /\ run'[r].merged = docs
        /\ run'[r].todo = CollectStorageKeys(docs) /\ run'[r].files = run[r].files
        /\ \A s \in Runs : s # r => run'[s] = run[s]
    BY <1>0, <1>7 DEF MergeData, docs, TypeOK, Syncs
  <2>9. server' = server /\ blobs' = blobs /\ torn' = torn
    BY <1>7 DEF MergeData, local, remote, history
  <2>10. RunMedia(r)'
    <3>1. ASSUME NEW p \in Projects PROVE Placed(r, run[r].merged[p].file)'
      <4>1. \/ docs[p].file \in torn \cup {None}
            \/ docs[p].file \in CollectStorageKeys(docs) \cap blobs[d]
            \/ run[r].at = "read" /\ docs[p].file \in CollectStorageKeys(docs) \cap run[r].base
        BY <2>4, <2>5, <2>6, <2>7
      <4>2. QED  BY <2>1, <2>8, <2>9, <4>1 DEF Placed
    <3>2. run'[r].at # "readNone"  BY <2>8
    <3>3. QED  BY <2>7, <2>8, <2>9, <3>1, <3>2 DEF RunMedia
  <2>11. ASSUME NEW s \in Runs, s # r PROVE RunMedia(s)'
    BY <2>8, <2>9, <2>11 DEF MediaInv, RunMedia, Placed
  <2>12. QED
    BY <1>7, <2>10, <2>11
    DEF MergeData, local, remote, history, MediaInv, ServerMedia, BrowserMedia
<1>2. ASSUME NEW f \in Files, DownloadFile(r, f) PROVE MediaInv'
  <2>1. /\ run[r].at = "download" /\ f \in run[r].todo /\ run[r].dev \in Devices
        /\ server' = server /\ manifest' = manifest /\ torn' = torn
        /\ store' = store /\ saved' = saved /\ adding' = adding
    BY <1>2 DEF DownloadFile, RunIs, remote, history, TypeOK
  <2>2. /\ run'[r].at = "download" /\ run'[r].dev = run[r].dev /\ run'[r].base = run[r].base
        /\ run'[r].merged = run[r].merged /\ run'[r].files = run[r].files
        /\ run'[r].todo = run[r].todo \ {f}
        /\ \A s \in Runs : s # r => run'[s] = run[s]
    BY <1>0, <1>2, <2>1 DEF DownloadFile, TypeOK, Syncs
  <2>3. \A e \in Devices : blobs[e] \subseteq blobs'[e]
    BY <1>2 DEF DownloadFile, TypeOK
  <2>4. f \in run[r].base => f \in blobs'[run[r].dev]
    <3>1. run[r].base \subseteq server  BY DEF MediaInv, RunMedia
    <3>2. QED  BY <1>2, <2>1, <3>1 DEF DownloadFile, Fetched, TypeOK
  <2>5. ASSUME NEW p \in Projects PROVE Placed(r, run[r].merged[p].file)'
    <3>1. Placed(r, run[r].merged[p].file)  BY DEF MediaInv, RunMedia
    <3>2. QED  BY <2>1, <2>2, <2>3, <2>4, <3>1 DEF Placed
  <2>6. RunMedia(r)'
    BY <2>1, <2>2, <2>5 DEF MediaInv, RunMedia
  <2>7. ASSUME NEW s \in Runs, s # r PROVE RunMedia(s)'
    BY <2>1, <2>2, <2>3, <2>7 DEF MediaInv, RunMedia, Placed, TypeOK
  <2>8. QED
    BY <2>1, <2>3, <2>6, <2>7 DEF MediaInv, ServerMedia, BrowserMedia
<1>3. ASSUME NEW f \in Files, UploadFile(r, f) PROVE MediaInv'
  <2>1. /\ run[r].at = "upload" /\ run[r].dev \in Devices
        /\ manifest' = manifest /\ torn' = torn
        /\ store' = store /\ saved' = saved /\ adding' = adding /\ blobs' = blobs
        /\ server' = server \cup ({f} \cap (blobs[run[r].dev] \ run[r].base))
    BY <1>3 DEF UploadFile, RunIs, local, history, TypeOK
  <2>2. /\ run'[r].at = "upload" /\ run'[r].dev = run[r].dev /\ run'[r].base = run[r].base
        /\ run'[r].merged = run[r].merged /\ run'[r].files = run[r].files \cup Listed(r, f)
        /\ run'[r].todo = run[r].todo \ {f}
        /\ \A s \in Runs : s # r => run'[s] = run[s]
    BY <1>0, <1>3, <2>1 DEF UploadFile, TypeOK, Syncs
  <2>3. run[r].base \subseteq server /\ run[r].files \subseteq server
    BY DEF MediaInv, RunMedia
  <2>4. Listed(r, f) \subseteq server'  BY <2>1, <2>3 DEF Listed
  <2>5. f \in blobs[run[r].dev] => f \in Listed(r, f)  BY DEF Listed
  <2>6. ASSUME NEW p \in Projects PROVE Placed(r, run[r].merged[p].file)'
    <3>1. Placed(r, run[r].merged[p].file)  BY DEF MediaInv, RunMedia
    <3>2. QED  BY <2>1, <2>2, <2>5, <3>1 DEF Placed
  <2>7. RunMedia(r)'
    BY <2>1, <2>2, <2>3, <2>4, <2>6 DEF RunMedia
  <2>8. ASSUME NEW s \in Runs, s # r PROVE RunMedia(s)'
    BY <2>1, <2>2, <2>8 DEF MediaInv, RunMedia, Placed
  <2>9. QED
    BY <2>1, <2>7, <2>8 DEF MediaInv, ServerMedia, BrowserMedia
<1>4. CASE ApplyData(r)
  <2> DEFINE d == run[r].dev
  <2>1. /\ run[r].at = "download" /\ run[r].todo = {} /\ d \in Devices /\ run[r].merged \in Docs
        /\ manifest' = manifest /\ server' = server /\ torn' = torn
        /\ saved' = saved /\ adding' = adding /\ blobs' = blobs
    BY <1>0, <1>4 DEF ApplyData, RunIs, remote, TypeOK, Syncs
  <2>2. /\ run'[r].at = "upload" /\ run'[r].dev = d /\ run'[r].base = run[r].base
        /\ run'[r].merged = run[r].merged /\ run'[r].files = run[r].files
        /\ run'[r].todo = CollectStorageKeys(run[r].merged)
        /\ \A s \in Runs : s # r => run'[s] = run[s]
    BY <1>0, <1>4 DEF ApplyData, TypeOK, Syncs
  <2>3. store'[d] = run[r].merged /\ \A e \in Devices : e # d => store'[e] = store[e]
    BY <1>4, <2>1 DEF ApplyData, TypeOK
  <2>4. \A p \in Projects : run[r].merged[p].file \in blobs[d] \cup torn \cup {None}
    BY <2>1 DEF MediaInv, RunMedia, Placed, Reading
  <2>5. \A p \in Projects : run[r].merged[p].file \in CollectStorageKeys(run[r].merged) \cup {None}
    BY <2>1, Keys
  <2>6. \A p \in Projects : Placed(r, run[r].merged[p].file)'
    BY <2>1, <2>2, <2>4, <2>5 DEF Placed
  <2>7. RunMedia(r)'
    BY <2>1, <2>2, <2>6 DEF MediaInv, RunMedia
  <2>8. ASSUME NEW s \in Runs, s # r PROVE RunMedia(s)'
    BY <2>1, <2>2, <2>8 DEF MediaInv, RunMedia, Placed
  <2>9. ASSUME NEW e \in Devices PROVE BrowserMedia(e)'
    BY <2>1, <2>3, <2>4 DEF MediaInv, BrowserMedia
  <2>10. QED
    BY <2>1, <2>7, <2>8, <2>9 DEF MediaInv, ServerMedia
<1>5. CASE PutManifest(r)
  <2>1. /\ run[r].at = "upload" /\ run[r].todo = {}
        /\ manifest'.docs = run[r].merged /\ manifest'.files = run[r].files
        /\ store' = store /\ saved' = saved /\ blobs' = blobs /\ adding' = adding
        /\ server' = server /\ torn' = torn /\ manifest'.there
        /\ \A s \in Runs : run'[s] \in {run[s], NoRun}
    BY <1>5 DEF PutManifest, RunIs, local, history, TypeOK
  <2>2. \A p \in Projects : run[r].merged[p].file \in run[r].files \cup torn \cup {None}
    BY <2>1 DEF MediaInv, RunMedia, Placed, Reading
  <2>3. ServerMedia'
    BY <2>1, <2>2 DEF MediaInv, RunMedia, ServerMedia
  <2>4. ASSUME NEW s \in Runs PROVE RunMedia(s)'
    BY <2>1 DEF MediaInv, RunMedia, Placed, NoRun
  <2>5. QED
    BY <2>1, <2>3, <2>4 DEF MediaInv, BrowserMedia
<1>6. CASE Fail(r)
  <2>1. \A s \in Runs : run'[s] \in {run[s], NoRun}  BY <1>6 DEF Fail, TypeOK
  <2>2. ASSUME NEW s \in Runs PROVE RunMedia(s)'
    BY <1>6, <2>1 DEF Fail, local, remote, history, MediaInv, RunMedia, Placed, NoRun
  <2>3. QED
    BY <1>6, <2>2 DEF Fail, local, remote, history, MediaInv, ServerMedia, BrowserMedia
<1>8. QED  BY <1>1, <1>2, <1>3, <1>4, <1>5, <1>6, <1>7 DEF SyncStep

LEMMA NextMedia == TypeOK /\ MediaInv /\ [Next]_vars => MediaInv'
<1> SUFFICES ASSUME TypeOK, MediaInv, [Next]_vars PROVE MediaInv'
  OBVIOUS
<1>1. CASE UNCHANGED vars
  BY <1>1 DEF vars, local, remote, history, MediaInv, ServerMedia, BrowserMedia, RunMedia, Placed
<1>2. CASE Next
  BY <1>2, UserMedia, CleanupMedia, SyncMedia DEF Next
<1>3. QED  BY <1>1, <1>2

\* The inductive invariant: where the media of every project are, on the server, in
\* the browsers and in the syncs under way.
THEOREM MediaInvariant == Spec => []MediaInv
BY TypeCorrect, InitMedia, NextMedia, PTL DEF Spec

\* The manifest names only media that are on the server and lists those of all its
\* projects, but those a cleanup took from something that needed them, however many
\* syncs overlap, fail or are cut off (syncDomain).
THEOREM ManifestIsWhole == Spec => []ManifestWhole
<1>1. TypeOK /\ MediaInv => ManifestWhole
  BY DEF MediaInv, ServerMedia, ManifestWhole, CollectStorageKeys
<1>2. QED  BY <1>1, TypeCorrect, MediaInvariant, PTL

\* A browser has the media of every project it shows or will show once the page is
\* loaded again, but those a cleanup took from something else (downloadMissingFiles).
THEOREM MediaAreKept == Spec => []MediaKept
<1>1. TypeOK /\ MediaInv => MediaKept
  BY DEF MediaInv, BrowserMedia, MediaKept, CollectStorageKeys
<1>2. QED  BY <1>1, TypeCorrect, MediaInvariant, PTL

-----------------------------------------------------------------------------
(* The newest version of a project.                                        *)

\* No copy of project p is newer than the last change of a user.
Bounded(p) ==
  /\ newest[p] <= clock /\ manifest.docs[p].time <= newest[p]
  /\ \A d \in Devices : store[d][p].time <= newest[p] /\ saved[d][p].time <= newest[p]
  /\ \A r \in Runs : run[r].merged[p].time <= newest[p]

\* Browser d has the newest version of p, and a sync that is about to write the
\* merged projects brings it again, or knows that the user has changed p since.
Keeps(d, p) ==
  /\ store[d][p].time = newest[p]
  /\ \A r \in Runs : run[r].at = "download" /\ run[r].dev = d
       => run[r].merged[p].time = newest[p] \/ p \in run[r].edited

NewestInv ==
  /\ \A p \in Projects : Bounded(p)
  /\ \A p \in Projects : last[p].what = "edit" => Keeps(last[p].by, p)

\* What the times of the model are.
LEMMA Times ==
  ASSUME TypeOK
  PROVE  /\ clock \in Nat
         /\ \A p \in Projects :
              /\ newest[p] \in Nat /\ manifest.docs[p].time \in Nat
              /\ \A d \in Devices : store[d][p].time \in Nat /\ saved[d][p].time \in Nat
              /\ \A r \in Runs : run[r].merged[p].time \in Nat
BY AppConstants DEF TypeOK, Docs, Manifests, Syncs

LEMMA LastBy ==
  ASSUME TypeOK, NEW p \in Projects, last[p].what = "edit"
  PROVE  last[p].by \in Devices
BY DEF TypeOK, Changes, Lost

LEMMA InitNewest == Init => NewestInv
<1> SUFFICES ASSUME Init PROVE NewestInv
  OBVIOUS
<1>1. PICK d \in Devices, p \in Projects, f \in Files :
        \/ Begin(d, NoDocs, {})
        \/ Begin(d, [NoDocs EXCEPT ![p] = [time |-> 1, file |-> f]], {f})
  BY DEF Init
<1>2. /\ \A q \in Projects : NoDocs[q].time = 0 /\ manifest.docs[q].time = 0
      /\ \A r \in Runs : run[r].at = "off" /\ \A q \in Projects : run[r].merged[q].time = 0
  BY DEF Init, NoDocs, NoDoc, NoManifest, NoRun
<1>3. \E docs, n : /\ store = [e \in Devices |-> IF e = d THEN docs ELSE NoDocs]
                   /\ newest = [q \in Projects |-> docs[q].time] /\ clock = n /\ n \in Nat
                   /\ \A q \in Projects : docs[q].time \in 0..n
  <2>1. CASE Begin(d, NoDocs, {})
    BY <1>2, <2>1, FS_EmptySet DEF Begin
  <2>2. CASE Begin(d, [NoDocs EXCEPT ![p] = [time |-> 1, file |-> f]], {f})
    <3> DEFINE docs == [NoDocs EXCEPT ![p] = [time |-> 1, file |-> f]]
    <3>1. Cardinality({f}) = 1  BY FS_Singleton
    <3>2. \A q \in Projects : docs[q].time \in 0..1  BY <1>2 DEF NoDocs
    <3> HIDE DEF docs
    <3>3. Begin(d, docs, {f})  BY <2>2 DEF docs
    <3>4. QED  BY <3>1, <3>2, <3>3 DEF Begin
  <2>3. QED  BY <1>1, <2>1, <2>2
<1>4. PICK docs, n : /\ store = [e \in Devices |-> IF e = d THEN docs ELSE NoDocs]
                     /\ newest = [q \in Projects |-> docs[q].time] /\ clock = n /\ n \in Nat
                     /\ \A q \in Projects : docs[q].time \in 0..n
  BY <1>3
<1>5. \A q \in Projects : Bounded(q)  BY <1>2, <1>4 DEF Bounded, Init
<1>6. \A q \in Projects : Keeps(d, q)  BY <1>2, <1>4 DEF Keeps
<1>7. \A q \in Projects : last[q].by = d  BY <1>1 DEF Begin
<1>8. QED  BY <1>5, <1>6, <1>7 DEF NewestInv

\* Edit makes browser d keep the newest version of p.
LEMMA EditNewest ==
  ASSUME TypeOK, NewestInv, NEW d \in Devices, NEW p \in Projects, NEW f,
         Edit(d, p, f)
  PROVE  NewestInv'
<1> DEFINE now == clock + 1
<1>1. /\ clock' = now /\ manifest' = manifest /\ run' = Touched(d, p) /\ saved' = saved
      /\ last'[p].by = d /\ \A q \in Projects : q # p => last'[q] = last[q]
      /\ newest'[p] = now /\ \A q \in Projects : q # p => newest'[q] = newest[q]
      /\ store'[d][p].time = now
      /\ \A e \in Devices, q \in Projects : e # d \/ q # p => store'[e][q] = store[e][q]
  BY DEF Edit, Tick, remote, TypeOK, Docs
<1>2. \A r \in Runs :
        /\ run'[r].at = run[r].at /\ run'[r].dev = run[r].dev /\ run'[r].merged = run[r].merged
        /\ run[r].edited \subseteq run'[r].edited
        /\ run[r].at = "download" /\ run[r].dev = d => p \in run'[r].edited
  BY <1>1, TouchedRun
<1>3. ASSUME NEW q \in Projects PROVE Bounded(q)'
  <2>1. Bounded(q)  BY DEF NewestInv
  <2>2. CASE q = p
    BY <1>1, <1>2, <2>1, <2>2, Times DEF Bounded
  <2>3. CASE q # p
    BY <1>1, <1>2, <2>1, <2>3, Times DEF Bounded
  <2>4. QED  BY <2>2, <2>3
<1>4. Keeps(d, p)'
  BY <1>1, <1>2 DEF Keeps
<1>5. ASSUME NEW q \in Projects, q # p, NEW e \in Devices, Keeps(e, q) PROVE Keeps(e, q)'
  BY <1>1, <1>2, <1>5 DEF Keeps
<1>6. ASSUME NEW q \in Projects, last'[q].what = "edit" PROVE Keeps(last[q].by, q)'
  <2>1. CASE q = p  BY <1>1, <1>4, <2>1
  <2>2. CASE q # p
    <3>1. last[q].what = "edit" /\ last[q].by \in Devices
      BY <1>1, <1>6, <2>2, LastBy
    <3>2. QED  BY <1>1, <1>5, <2>2, <3>1 DEF NewestInv
  <2>3. QED  BY <2>1, <2>2
<1>7. QED  BY <1>3, <1>6 DEF NewestInv

LEMMA UserNewest ==
  ASSUME TypeOK, NewestInv, NEW d \in Devices, UserStep(d)
  PROVE  NewestInv'
<1>1. ASSUME NEW p \in Projects, Create(d, p) PROVE NewestInv'
  BY <1>1, EditNewest DEF Create
<1>2. ASSUME NEW p \in Projects, Touch(d, p) PROVE NewestInv'
  BY <1>2, EditNewest DEF Touch
<1>3. ASSUME NEW p \in Projects, AddNode(d, p) PROVE NewestInv'
  BY <1>3, EditNewest DEF AddNode
<1>4. ASSUME NEW p \in Projects, DeleteNode(d, p) PROVE NewestInv'
  BY <1>4, EditNewest DEF DeleteNode
<1>5. ASSUME NEW p \in Projects, Delete(d, p) PROVE NewestInv'
  <2>1. /\ clock' = clock + 1 /\ manifest' = manifest /\ newest' = newest
        /\ last'[p].what = "delete" /\ \A q \in Projects : q # p => last'[q] = last[q]
        /\ run' = Touched(d, p) /\ store'[d][p].time = 0 /\ saved' = saved
        /\ \A e \in Devices, q \in Projects : e # d \/ q # p => store'[e][q] = store[e][q]
    BY <1>5 DEF Delete, Tick, remote, TypeOK, Docs, NoDoc
  <2>2. \A r \in Runs :
          /\ run'[r].at = run[r].at /\ run'[r].dev = run[r].dev /\ run'[r].merged = run[r].merged
          /\ run[r].edited \subseteq run'[r].edited
    BY <2>1, TouchedRun
  <2>3. ASSUME NEW q \in Projects PROVE Bounded(q)'
    BY <2>1, <2>2, Times DEF NewestInv, Bounded
  <2>4. ASSUME NEW q \in Projects, q # p, NEW e \in Devices, Keeps(e, q) PROVE Keeps(e, q)'
    BY <2>1, <2>2, <2>4 DEF Keeps
  <2>5. ASSUME NEW q \in Projects, last'[q].what = "edit" PROVE Keeps(last[q].by, q)'
    <3>1. q # p  BY <2>1, <2>5
    <3>2. last'[q] = last[q] /\ last[q].by \in Devices  BY <2>1, <2>5, <3>1, LastBy
    <3>3. QED  BY <2>4, <2>5, <3>1, <3>2 DEF NewestInv
  <2>6. QED  BY <2>3, <2>5 DEF NewestInv
<1>6. ASSUME NEW f \in Files, StoreImage(d, f) PROVE NewestInv'
  BY <1>6 DEF StoreImage, remote, NewestInv, Bounded, Keeps
<1>7. QED  BY <1>1, <1>2, <1>3, <1>4, <1>5, <1>6 DEF UserStep

\* Runs that end disturb nothing.
LEMMA EndNewest ==
  ASSUME TypeOK, NewestInv, \A r \in Runs : run'[r] \in {run[r], NoRun},
         UNCHANGED <<store, newest, clock, last>>,
         \A d \in Devices : saved'[d] \in {saved[d], store[d]},
         \A p \in Projects : manifest'.docs[p].time <= newest[p]
  PROVE  NewestInv'
<1>1. NoRun.at = "off" /\ \A p \in Projects : NoRun.merged[p].time = 0
  BY DEF NoRun, NoDocs, NoDoc
<1>2. ASSUME NEW p \in Projects PROVE Bounded(p)'
  BY <1>1, Times DEF NewestInv, Bounded
<1>3. ASSUME NEW p \in Projects, NEW d \in Devices, Keeps(d, p) PROVE Keeps(d, p)'
  BY <1>1, <1>3 DEF Keeps
<1>4. ASSUME NEW p \in Projects, last[p].what = "edit" PROVE Keeps(last[p].by, p)'
  BY <1>3, <1>4, LastBy DEF NewestInv
<1>5. QED  BY <1>2, <1>4 DEF NewestInv

LEMMA BrowserNewest ==
  ASSUME TypeOK, NewestInv, NEW d \in Devices,
         Persist(d) \/ Crash(d) \/ ScanUsed(d) \/ SweepFiles(d)
  PROVE  NewestInv'
<1>1. \A p \in Projects : manifest.docs[p].time <= newest[p]  BY DEF NewestInv, Bounded
\* A change that was not saved is lost; what was saved is shown again.
<1>2. CASE Crash(d)
  <2>1. /\ store'[d] = saved[d] /\ \A e \in Devices : e # d => store'[e] = store[e]
        /\ UNCHANGED <<saved, manifest, newest, clock>>
        /\ \A r \in Runs : run'[r] \in {run[r], NoRun}
        /\ \A p \in Projects : last'[p] = IF last[p].by = d /\ saved[d][p] # store[d][p]
                                         THEN Lost ELSE last[p]
    BY <1>2 DEF Crash, remote, TypeOK
  <2>2. NoRun.at = "off" /\ \A p \in Projects : NoRun.merged[p].time = 0
    BY DEF NoRun, NoDocs, NoDoc
  <2>3. ASSUME NEW p \in Projects PROVE Bounded(p)'
    BY <2>1, <2>2, Times DEF NewestInv, Bounded
  <2>4. ASSUME NEW p \in Projects, last'[p].what = "edit" PROVE Keeps(last[p].by, p)'
    <3>1. last'[p] = last[p] /\ (last[p].by = d => saved[d][p] = store[d][p])
      BY <2>1, <2>4 DEF Lost
    <3>2. last[p].by \in Devices /\ Keeps(last[p].by, p)
      BY <2>4, <3>1, LastBy DEF NewestInv
    <3>3. ASSUME NEW e \in Devices, Keeps(e, p), e = d => saved[d][p] = store[d][p]
          PROVE  Keeps(e, p)'
      <4>1. store'[e][p] = store[e][p]  BY <2>1, <3>3
      <4>2. QED  BY <2>1, <2>2, <3>3, <4>1 DEF Keeps
    <3>4. QED  BY <3>1, <3>2, <3>3
  <2>5. QED  BY <2>3, <2>4 DEF NewestInv
<1>6. CASE Persist(d)
  BY <1>1, <1>6, EndNewest DEF Persist, remote, history, TypeOK
<1>3. CASE ScanUsed(d)
  BY <1>1, <1>3, EndNewest DEF ScanUsed, remote, history
<1>4. CASE SweepFiles(d)
  BY <1>1, <1>4, EndNewest DEF SweepFiles, remote
<1>7. QED  BY <1>2, <1>3, <1>4, <1>6

LEMMA SyncNewest ==
  ASSUME TypeOK, NewestInv, NEW r \in Runs, SyncStep(r)
  PROVE  NewestInv'
<1>0. run[r] \in Syncs /\ \A p \in Projects : Bounded(p)  BY DEF TypeOK, NewestInv
<1>1. ASSUME NEW d \in Devices, ReadManifest(r, d) PROVE NewestInv'
  <2>1. /\ run'[r].at # "download" /\ run'[r].merged = manifest.docs
        /\ \A s \in Runs : s # r => run'[s] = run[s]
        /\ UNCHANGED <<store, saved, manifest, newest, clock, last>>
    BY <1>1 DEF ReadManifest, NoRun, TypeOK, local, remote, history
  <2>2. ASSUME NEW p \in Projects PROVE Bounded(p)'
    BY <1>0, <2>1 DEF Bounded
  <2>3. ASSUME NEW p \in Projects, NEW e \in Devices, Keeps(e, p) PROVE Keeps(e, p)'
    BY <2>1, <2>3 DEF Keeps
  <2>4. ASSUME NEW p \in Projects, last[p].what = "edit" PROVE Keeps(last[p].by, p)'
    BY <2>1, <2>3, <2>4, LastBy DEF NewestInv
  <2>5. QED  BY <2>1, <2>2, <2>4 DEF NewestInv
<1>6. CASE MergeData(r)
  <2> DEFINE d == run[r].dev
             docs == MergeById(store[d], run[r].merged)
  <2>1. d \in Devices  BY <1>6 DEF MergeData, TypeOK, Reading
  <2>2. store[d] \in Docs /\ run[r].merged \in Docs  BY <1>0, <2>1 DEF TypeOK, Syncs
  <2>3. \A p \in Projects : \/ docs[p] = store[d][p]
                            \/ docs[p] = run[r].merged[p] /\ store[d][p].time < run[r].merged[p].time
    BY <2>2, MergedById
  <2> HIDE DEF docs
  <2>4. /\ run'[r].dev = d /\ run'[r].merged = docs
        /\ \A s \in Runs : s # r => run'[s] = run[s]
        /\ UNCHANGED <<store, saved, manifest, newest, clock, last>>
    BY <1>0, <1>6 DEF MergeData, docs, TypeOK, Syncs, local, remote, history
  <2>5. ASSUME NEW p \in Projects PROVE Bounded(p)'
    BY <1>0, <2>1, <2>3, <2>4 DEF Bounded
  <2>6. ASSUME NEW p \in Projects, NEW e \in Devices, Keeps(e, p) PROVE Keeps(e, p)'
    <3>1. e = d => docs[p].time = newest[p]
      <4>1. run[r].merged[p].time <= newest[p]  BY <1>0 DEF Bounded
      <4>2. QED  BY <2>3, <2>6, <4>1, Times DEF Keeps
    <3>2. QED  BY <2>4, <2>6, <3>1 DEF Keeps
  <2>7. ASSUME NEW p \in Projects, last[p].what = "edit" PROVE Keeps(last[p].by, p)'
    BY <2>4, <2>6, <2>7, LastBy DEF NewestInv
  <2>8. QED  BY <2>4, <2>5, <2>7 DEF NewestInv
<1>2. ASSUME NEW f \in Files, DownloadFile(r, f) \/ UploadFile(r, f) PROVE NewestInv'
  <2>1. /\ UNCHANGED <<store, saved, manifest, newest, clock, last>>
        /\ \A s \in Runs : /\ run'[s].at = run[s].at /\ run'[s].dev = run[s].dev
                           /\ run'[s].merged = run[s].merged /\ run'[s].edited = run[s].edited
    BY <1>0, <1>2 DEF DownloadFile, UploadFile, local, remote, history, TypeOK, Syncs
  <2>2. ASSUME NEW p \in Projects PROVE Bounded(p)'
    BY <1>0, <2>1 DEF Bounded
  <2>3. ASSUME NEW p \in Projects, last[p].what = "edit" PROVE Keeps(last[p].by, p)'
    BY <2>1, <2>3 DEF NewestInv, Keeps
  <2>4. QED  BY <2>1, <2>2, <2>3 DEF NewestInv
<1>3. CASE ApplyData(r)
  <2> DEFINE d == run[r].dev
  <2>1. /\ run[r].at = "download" /\ d \in Devices /\ store'[d] = run[r].merged
        /\ \A e \in Devices : e # d => store'[e] = store[e]
        /\ UNCHANGED <<saved, manifest, newest, clock>>
        /\ \A p \in Projects : last'[p] =
             IF last[p].by = d /\ p \in run[r].edited /\ run[r].merged[p] # store[d][p]
               THEN Lost ELSE last[p]
    BY <1>3 DEF ApplyData, RunIs, remote, TypeOK
  <2>2. /\ run'[r].at = "upload" /\ run'[r].merged = run[r].merged
        /\ \A s \in Runs : s # r => run'[s] = run[s]
    BY <1>0, <1>3 DEF ApplyData, TypeOK, Syncs
  <2>3. ASSUME NEW p \in Projects PROVE Bounded(p)'
    BY <1>0, <2>1, <2>2 DEF Bounded
  <2>4. ASSUME NEW p \in Projects, last'[p].what = "edit" PROVE Keeps(last[p].by, p)'
    <3>1. /\ last'[p] = last[p]
          /\ last[p].by = d => p \notin run[r].edited \/ run[r].merged[p] = store[d][p]
      BY <2>1, <2>4 DEF Lost
    <3>2. last[p].by \in Devices /\ Keeps(last[p].by, p)
      BY <2>4, <3>1, LastBy DEF NewestInv
    <3>3. ASSUME NEW e \in Devices, Keeps(e, p),
                 e = d => p \notin run[r].edited \/ run[r].merged[p] = store[d][p]
          PROVE  Keeps(e, p)'
      <4>1. e = d => run[r].merged[p].time = newest[p]  BY <2>1, <3>3 DEF Keeps
      <4>2. QED  BY <2>1, <2>2, <3>3, <4>1 DEF Keeps
    <3>4. QED  BY <3>1, <3>2, <3>3
  <2>5. QED  BY <2>3, <2>4 DEF NewestInv
<1>4. CASE PutManifest(r)
  <2>1. \A p \in Projects : run[r].merged[p].time <= newest[p]  BY <1>0 DEF Bounded
  <2>2. QED  BY <1>4, <2>1, EndNewest DEF PutManifest, local, history, TypeOK
<1>5. CASE Fail(r)
  <2>1. \A p \in Projects : manifest.docs[p].time <= newest[p]  BY <1>0 DEF Bounded
  <2>2. QED  BY <1>5, <2>1, EndNewest DEF Fail, local, remote, history, TypeOK
<1>7. QED  BY <1>1, <1>2, <1>3, <1>4, <1>5, <1>6 DEF SyncStep

LEMMA NextNewest == TypeOK /\ NewestInv /\ [Next]_vars => NewestInv'
<1> SUFFICES ASSUME TypeOK, NewestInv, [Next]_vars PROVE NewestInv'
  OBVIOUS
<1>1. CASE UNCHANGED vars
  BY <1>1 DEF vars, local, remote, history, NewestInv, Bounded, Keeps
<1>2. CASE Next
  BY <1>2, UserNewest, BrowserNewest, SyncNewest DEF Next
<1>3. QED  BY <1>1, <1>2

\* The browser the last change of a project was made in keeps it for ever, unless the
\* project is deleted, the page closed before the save, or a sync of that browser was
\* about to write what it had merged (mergeById, applyData).
THEOREM NewestIsKept == Spec => []NewestSurvives
<1>1. NewestInv => NewestSurvives
  BY DEF NewestInv, Keeps, NewestSurvives
<1>2. QED  BY <1>1, TypeCorrect, InitNewest, NextNewest, PTL DEF Spec
=============================================================================
