------------------------------ MODULE AppSync ------------------------------
(***************************************************************************)
(* The infinite canvas and its WebDAV synchronisation: the projects and    *)
(* media of several browsers (use-canvas-store.ts, image-storage.ts,       *)
(* file-storage.ts), the cleanup of media nobody uses, and syncDomain      *)
(* (services/app-sync.ts), which merges the projects through a manifest    *)
(* and files on a WebDAV server.                                           *)
(*                                                                         *)
(* One of the four domains is modelled.  They have manifests of their own, *)
(* but one call syncs all four: when one of them fails the button works    *)
(* again while the others are still under way, so a browser may have two   *)
(* syncs of a domain at a time.  A project is its updatedAt and one medium *)
(* of its nodes.  The clocks of the browsers agree, and each has the canvas *)
(* open in one tab: tabs would share the saved projects and the media and  *)
(* keep a store of their own.                                              *)
(***************************************************************************)
EXTENDS Naturals, FiniteSets

CONSTANTS
  Devices,   \* browsers that sync with one WebDAV directory
  Projects,  \* project IDs
  Files,     \* storage keys of media
  Runs,      \* bound: syncs under way at a time
  None,      \* no medium, no device
  MaxTime    \* bound: changes the users make in all

ASSUME AppConstants ==
  /\ None \notin Files \cup Devices
  /\ MaxTime \in Nat \ {0}

VARIABLES
  \* the browsers
  store,     \* useCanvasStore.projects
  saved,     \* what of them the debounced save has written
  blobs,     \* the media in IndexedDB
  adding,    \* a medium that is stored and not yet part of a node
  sweep,     \* cleanupUnusedImages and cleanupUnusedMedia of a browser, one at a time
  run,       \* syncDomain
  \* the WebDAV server
  manifest, server,
  \* history
  clock,     \* ticks with every change of a user
  made,      \* storage keys in use: nanoid gives every medium its own
  newest,    \* the last updatedAt of each project
  last,      \* the last change of each project, and the browser it was made in
  torn       \* media a cleanup removed while something still needed them

local == <<store, saved, blobs, adding, sweep>>
remote == <<manifest, server>>
history == <<clock, made, newest, last, torn>>
vars == <<local, run, remote, history>>

NoDoc == [time |-> 0, file |-> None]
NoDocs == [p \in Projects |-> NoDoc]
Lost == [what |-> "lost", by |-> None]
NoSweep == [at |-> "off", dev |-> None, used |-> {}]
NoManifest == [there |-> FALSE, docs |-> NoDocs, files |-> {}]
NoRun == [at |-> "off", dev |-> None, base |-> {}, merged |-> NoDocs,
          todo |-> {}, files |-> {}, edited |-> {}]

\* Nothing yet, or a project with a medium that has not been synced.
Begin(d, docs, files) ==
  /\ store = [e \in Devices |-> IF e = d THEN docs ELSE NoDocs]
  /\ blobs = [e \in Devices |-> IF e = d THEN files ELSE {}]
  /\ clock = Cardinality(files) /\ made = files
  /\ newest = [p \in Projects |-> docs[p].time]
  /\ last = [p \in Projects |-> [what |-> "edit", by |-> d]]

Init ==
  /\ \E d \in Devices, p \in Projects, f \in Files :
       \/ Begin(d, NoDocs, {})
       \/ Begin(d, [NoDocs EXCEPT ![p] = [time |-> 1, file |-> f]], {f})
  /\ saved = store
  /\ adding = [d \in Devices |-> None]
  /\ sweep = NoSweep
  /\ run = [r \in Runs |-> NoRun]
  /\ manifest = NoManifest /\ server = {}
  /\ torn = {}

-----------------------------------------------------------------------------
(* Definitions the operations share.                                       *)

\* Mutant: a node without a medium counts as one.
CollectStorageKeysAll(docs) == {docs[p].file : p \in Projects}

CollectStorageKeys(docs) == {docs[p].file : p \in Projects} \ {None}

\* Mutant: the server's version wins.
MergeByIdRemote(mine, theirs) ==
  [p \in Projects |-> IF theirs[p].time = 0 THEN mine[p] ELSE theirs[p]]

\* The later of two versions of a project, the local one when they are as old.
MergeById(mine, theirs) ==
  [p \in Projects |-> IF mine[p].time >= theirs[p].time THEN mine[p] ELSE theirs[p]]

\* Where a sync has read the manifest, and where it has merged the projects.
Reading == {"read", "readNone"}
Merged == {"download", "upload"}

RunsOf(d) == {r \in Runs : run[r].at # "off" /\ run[r].dev = d}

\* The user changes project p: a sync that has merged the projects does not know.
Touched(d, p) == [r \in Runs |->
  IF r \in RunsOf(d) /\ run[r].at = "download" THEN [run[r] EXCEPT !.edited = @ \cup {p}] ELSE run[r]]

Tick == clock < MaxTime /\ clock' = clock + 1

\* set({ projects }) with project p as the user leaves it, stamped with the time.
Edit(d, p, file) ==
  /\ Tick
  /\ newest' = [newest EXCEPT ![p] = clock']
  /\ last' = [last EXCEPT ![p] = [what |-> "edit", by |-> d]]
  /\ store' = [store EXCEPT ![d][p] = [time |-> clock', file |-> file]]
  /\ run' = Touched(d, p)
  /\ UNCHANGED <<saved, remote, torn>>

-----------------------------------------------------------------------------
(* The canvas store and the editor.                                        *)

\* createProject, importProject without media.
Create(d, p) ==
  /\ newest[p] = 0
  /\ Edit(d, p, None)
  /\ UNCHANGED <<blobs, adding, sweep, made>>

\* renameProject, or updateProject without a change of media. The page of a project
\* does the latter as soon as it is open.
Touch(d, p) ==
  /\ store[d][p].time # 0
  /\ Edit(d, p, store[d][p].file)
  /\ UNCHANGED <<blobs, adding, sweep, made>>

\* storeImage, uploadMediaFile: the medium is stored before a node gets its key.
StoreImage(d, f) ==
  /\ adding[d] = None /\ f \notin made /\ store[d] # NoDocs
  /\ blobs' = [blobs EXCEPT ![d] = @ \cup {f}]
  /\ adding' = [adding EXCEPT ![d] = f]
  /\ made' = made \cup {f}
  /\ UNCHANGED <<store, saved, sweep, run, remote, clock, newest, last, torn>>

\* updateProject with the node of the new medium.
AddNode(d, p) ==
  /\ adding[d] # None /\ store[d][p].time # 0
  /\ Edit(d, p, adding[d])
  /\ adding' = [adding EXCEPT ![d] = None]
  /\ UNCHANGED <<blobs, sweep, made>>

\* The node is deleted: cleanupCanvasFiles, which spares what undo may bring back.
DeleteNode(d, p) ==
  /\ store[d][p].file # None /\ sweep = NoSweep
  /\ Edit(d, p, None)
  /\ sweep' = [at |-> "due", dev |-> d, used |-> {store[d][p].file}]
  /\ UNCHANGED <<blobs, adding, made>>

\* deleteProjects, cleanupImages.
Delete(d, p) ==
  /\ store[d][p].time # 0 /\ sweep = NoSweep /\ Tick
  /\ store' = [store EXCEPT ![d][p] = NoDoc]
  /\ sweep' = [at |-> "due", dev |-> d, used |-> {}]
  /\ run' = Touched(d, p)
  /\ last' = [last EXCEPT ![p] = [what |-> "delete", by |-> d]]
  /\ UNCHANGED <<saved, blobs, adding, remote, made, newest, torn>>

\* The debounced save, 400 ms after the last change of the projects.
Persist(d) ==
  /\ saved[d] # store[d]
  /\ saved' = [saved EXCEPT ![d] = store[d]]
  /\ UNCHANGED <<store, blobs, adding, sweep, run, remote, history>>

\* The page is closed and loaded again: the projects are those of the last save, so
\* that a change since is lost and a deletion since undone.
Crash(d) ==
  /\ store' = [store EXCEPT ![d] = saved[d]]
  /\ adding' = [adding EXCEPT ![d] = None]
  /\ sweep' = IF sweep.dev = d THEN NoSweep ELSE sweep
  /\ run' = [r \in Runs |-> IF r \in RunsOf(d) THEN NoRun ELSE run[r]]
  /\ last' = [p \in Projects |-> IF last[p].by = d /\ saved[d][p] # store[d][p] THEN Lost ELSE last[p]]
  /\ UNCHANGED <<saved, blobs, remote, clock, made, newest, torn>>

-----------------------------------------------------------------------------
(* Cleanup of unused media.                                                *)

\* Which media are in use is collected first ...
ScanUsed(d) ==
  /\ sweep.at = "due" /\ sweep.dev = d
  /\ sweep' = [sweep EXCEPT !.at = "scanned", !.used = @ \cup CollectStorageKeys(store[d])]
  /\ UNCHANGED <<store, saved, blobs, adding, run, remote, history>>

\* What of browser d needs a medium: its projects, those it has saved, a new medium,
\* the data a sync has merged.
Needed(d) == CollectStorageKeys(store[d]) \cup CollectStorageKeys(saved[d]) \cup {adding[d]}
  \cup UNION {CollectStorageKeys(run[r].merged) : r \in {q \in RunsOf(d) : run[q].at \in Merged}}

\* ... and the others are removed later.
SweepFiles(d) ==
  LET unused == blobs[d] \ sweep.used
  IN /\ sweep.at = "scanned" /\ sweep.dev = d
     /\ blobs' = [blobs EXCEPT ![d] = @ \ unused]
     /\ sweep' = NoSweep
     /\ torn' = torn \cup (unused \cap Needed(d))
     /\ UNCHANGED <<store, saved, adding, run, remote, clock, made, newest, last>>

-----------------------------------------------------------------------------
(* syncDomain.                                                             *)

RunIs(r, at) == run[r].at = at

\* readDomainManifest. Of the manifest its files are needed later.
ReadManifest(r, d) ==
  /\ RunIs(r, "off")
  /\ run' = [run EXCEPT ![r] = [NoRun EXCEPT !.at = IF manifest.there THEN "read" ELSE "readNone",
       !.dev = d, !.base = manifest.files, !.merged = manifest.docs]]
  /\ UNCHANGED <<local, remote, history>>

\* localData and mergeData. Without a manifest nothing is downloaded or applied.
MergeData(r) ==
  LET docs == MergeById(store[run[r].dev], run[r].merged)
  IN /\ run[r].at \in Reading
     /\ run' = [run EXCEPT ![r].at = IF @ = "read" THEN "download" ELSE "upload",
          ![r].merged = docs, ![r].todo = CollectStorageKeys(docs)]
     /\ UNCHANGED <<local, remote, history>>

\* Mutant: media are left for later.
FetchedNone(r, f) == {}

\* What downloading medium f adds to the browser; a local one is not downloaded.
Fetched(r, f) == {f} \cap run[r].base \cap server

\* downloadMissingFiles, for one medium; three are under way at a time.
DownloadFile(r, f) ==
  /\ RunIs(r, "download") /\ f \in run[r].todo
  /\ blobs' = [blobs EXCEPT ![run[r].dev] = @ \cup Fetched(r, f)]
  /\ run' = [run EXCEPT ![r].todo = @ \ {f}]
  /\ UNCHANGED <<store, saved, adding, sweep, remote, history>>

\* applyData: replaceProjects. A change or a deletion since the merge is overwritten.
ApplyData(r) ==
  LET x == run[r]
      d == x.dev
  IN /\ RunIs(r, "download") /\ x.todo = {}
     /\ store' = [store EXCEPT ![d] = x.merged]
     /\ run' = [run EXCEPT ![r] = [x EXCEPT !.at = "upload", !.edited = {},
          !.todo = CollectStorageKeys(x.merged)]]
     /\ last' = [p \in Projects |-> IF last[p].by = d /\ p \in x.edited /\ x.merged[p] # store[d][p]
          THEN Lost ELSE last[p]]
     /\ UNCHANGED <<saved, blobs, adding, sweep, remote, clock, made, newest, torn>>

\* Mutant: only media that had to be uploaded are listed.
ListedChanged(r, f) == {f} \cap (blobs[run[r].dev] \ run[r].base)

\* A medium is listed when the browser has it or the old manifest lists it.
Listed(r, f) == {f} \cap (blobs[run[r].dev] \cup run[r].base)

\* uploadChangedFiles, for one medium.
UploadFile(r, f) ==
  /\ RunIs(r, "upload") /\ f \in run[r].todo
  /\ server' = server \cup ({f} \cap (blobs[run[r].dev] \ run[r].base))
  /\ run' = [run EXCEPT ![r].todo = @ \ {f}, ![r].files = @ \cup Listed(r, f)]
  /\ UNCHANGED <<local, manifest, history>>

\* The manifest is written last, over whatever is there by now.
PutManifest(r) ==
  /\ RunIs(r, "upload") /\ run[r].todo = {}
  /\ manifest' = [there |-> TRUE, docs |-> run[r].merged, files |-> run[r].files]
  /\ run' = [run EXCEPT ![r] = NoRun]
  /\ UNCHANGED <<local, server, history>>

\* A request of the sync fails or times out: what was done stays done.
Fail(r) ==
  /\ run[r].at # "off"
  /\ run' = [run EXCEPT ![r] = NoRun]
  /\ UNCHANGED <<local, remote, history>>

-----------------------------------------------------------------------------
UserStep(d) ==
  \/ \E p \in Projects :
       Create(d, p) \/ Touch(d, p) \/ AddNode(d, p) \/ DeleteNode(d, p) \/ Delete(d, p)
  \/ \E f \in Files : StoreImage(d, f)

SyncStep(r) ==
  \/ \E d \in Devices : ReadManifest(r, d)
  \/ \E f \in Files : DownloadFile(r, f) \/ UploadFile(r, f)
  \/ MergeData(r) \/ ApplyData(r) \/ PutManifest(r) \/ Fail(r)

Next ==
  \/ \E d \in Devices :
       UserStep(d) \/ Persist(d) \/ Crash(d) \/ ScanUsed(d) \/ SweepFiles(d)
  \/ \E r \in Runs : SyncStep(r)

Spec == Init /\ [][Next]_vars

-----------------------------------------------------------------------------
(* Properties.                                                             *)

Docs == [Projects -> [time : 0..MaxTime, file : Files \cup {None}]]
Manifests == [there : BOOLEAN, docs : Docs, files : SUBSET Files]
Sweeps == [at : {"off", "due", "scanned"}, dev : Devices \cup {None}, used : SUBSET Files]
Changes == [what : {"edit", "delete"}, by : Devices] \cup {Lost}
Syncs == [at : {"off"} \cup Reading \cup Merged, dev : Devices \cup {None}, base : SUBSET Files,
          merged : Docs, todo : SUBSET Files, files : SUBSET Files, edited : SUBSET Projects]

\* Every variable has its type, and a sync under way has its browser.
TypeOK ==
  /\ store \in [Devices -> Docs] /\ saved \in [Devices -> Docs]
  /\ blobs \in [Devices -> SUBSET made]
  /\ adding \in [Devices -> Files \cup {None}]
  /\ sweep \in Sweeps /\ run \in [Runs -> Syncs]
  /\ \A r \in Runs : run[r].at # "off" => run[r].dev \in Devices
  /\ manifest \in Manifests /\ server \subseteq made
  /\ clock \in 0..MaxTime /\ made \subseteq Files /\ newest \in [Projects -> 0..MaxTime]
  /\ last \in [Projects -> Changes] /\ torn \subseteq Files

\* Whoever reads the manifest can have everything it names: a listed medium is on
\* the server, and the media of its projects are listed, however the syncs of the
\* browsers overlap, fail between two uploads or are cut off (uploadChangedFiles
\* before the manifest in syncDomain). Media a cleanup removed from under a sync, the
\* editor or the saved projects excepted.
ManifestWhole ==
  /\ manifest.files \subseteq server
  /\ CollectStorageKeys(manifest.docs) \subseteq manifest.files \cup torn

\* A browser has the media of every project it shows, and of every project it will
\* show when the page is loaded again: a sync takes a project over only once its
\* media have arrived (downloadMissingFiles before applyData), and only a cleanup
\* that something else still needed a medium for removes it.
MediaKept == \A d \in Devices :
  CollectStorageKeys(store[d]) \cup CollectStorageKeys(saved[d]) \subseteq blobs[d] \cup torn

\* The last change of a project is never lost to another browser's version: the
\* browser it was made in keeps it, though overlapping syncs overwrite each other's
\* manifests, unless the project was deleted, the page closed before the change was
\* saved, or a sync of that browser was about to write what it had merged (mergeById).
NewestSurvives == \A p \in Projects :
  last[p].what = "edit" => store[last[p].by][p].time = newest[p]

\* A canvas that was deleted, and changed nowhere since, does not come back to the
\* browser it was deleted in by the next sync (mergeById keeps no deletions).
DeletedStaysAway == \A p \in Projects :
  last[p].what = "delete" => store[last[p].by][p] = NoDoc
=============================================================================
