----------------------------- MODULE Documents -----------------------------
(***************************************************************************)
(* The document library of the retrieval subsystem: areas and folders,     *)
(* uploads into content-addressed storage, versions with their ingestion   *)
(* jobs, soft deletion with a purge, and what retrieval may return         *)
(* (services/rag/*.py, routers/admin/documents.py).                        *)
(*                                                                         *)
(* A panel request is one transaction; an upload is two steps, because it  *)
(* stores its file before its transaction inserts a row.  An ingestion     *)
(* worker runs in the steps between its commits and keeps, throughout, the *)
(* copies of the rows it loaded: the session factory sets                  *)
(* expire_on_commit=False and nothing refreshes them.  Every version has   *)
(* exactly one job (unique version_id), so one record holds both; versions *)
(* are numbered by creation, which is the order workers claim jobs in.     *)
(***************************************************************************)
EXTENDS Integers, Sequences, FiniteSets

CONSTANTS
  Docs,         \* document ids
  Contents,     \* file contents, that is sha256 digests
  Extensions,   \* file extensions of the uploads
  Areas, General,
  Folders,      \* folder ids
  Names,        \* normalized folder names
  Workers,      \* ingestion worker processes
  None,
  MaxAttempts,  \* max_attempts of a job
  AttemptCap,   \* bound on the claims of a job
  MaxVersions, MaxUploads,
  MaxWork       \* bound on requests, purges, crashes and outlived locks

VARIABLES
  areas,      \* OrganizationArea rows: "absent", "active" or "inactive"
  folders,    \* DocumentFolder rows
  documents,  \* Document rows; Gone once purged
  versions,   \* DocumentVersion, its chunks and its DocumentIngestionJob
  blobs,      \* DocumentBlob rows: the storage key of a content
  files,      \* the storage root: "absent", "recent" or "old"
  uploads,    \* uploads whose file is stored and whose transaction is open
  worker,     \* the ingestion workers
  work        \* what MaxWork bounds; a change of the taxonomy weighs two

rows == <<areas, folders, documents, versions, blobs>>
vars == <<rows, files, uploads, worker, work>>

Keys == Contents \X Extensions
Gone == [folder |-> None, status |-> "gone", deleted |-> TRUE, due |-> FALSE]

Area == {"absent", "active", "inactive"}
Folder == [area : Areas, parent : Folders \cup {None}, name : Names \cup Areas]
DocumentStatus == {"processing", "published", "failed", "deleted", "gone"}
Document ==
  [folder : Folders \cup {None}, status : DocumentStatus, deleted : BOOLEAN,
   due : BOOLEAN]
ChunkRows == [area : Areas, retrievable : BOOLEAN]
VersionStatus == {"queued", "ready", "failed", "gone"}
JobStatus == {"queued", "processing", "completed", "failed"}
Version ==
  [doc : Docs \cup {None}, number : 0..MaxVersions, blob : Contents \cup {None},
   status : VersionStatus, current : BOOLEAN, chunks : ChunkRows \cup {None},
   job : JobStatus, attempts : 0..AttemptCap,
   lock : {"none", "fresh", "stale"}, wait : BOOLEAN]

ASSUME DocumentsAssumption ==
  /\ General \in Areas
  /\ None \notin Docs \cup Contents \cup Areas \cup Folders \cup Names
  /\ None \notin Keys \cup Folder \cup Document \cup ChunkRows
  /\ MaxAttempts \in Nat \ {0}
  /\ {AttemptCap, MaxVersions, MaxUploads, MaxWork} \subseteq Nat

GoneVersion ==
  [doc |-> None, number |-> 0, blob |-> None, status |-> "gone",
   current |-> FALSE, chunks |-> None, job |-> "failed", attempts |-> 0,
   lock |-> "none", wait |-> FALSE]

Live(d) == documents[d] \notin {None, Gone}
Editable(d) == Live(d) /\ ~documents[d].deleted
VersionsOf(d) == {i \in DOMAIN versions : versions[i].doc = d}
CurrentOf(d) == {i \in VersionsOf(d) : versions[i].current}

\* What a worker loaded of the rows of its job.
Copy == [deleted : BOOLEAN, status : DocumentStatus, version : VersionStatus,
         job : JobStatus, area : Areas]
Upload == [doc : Docs \cup {None}, content : Contents, key : Keys, area : Areas,
           parent : Folders \cup {None}]
Worker ==
  [stage : {"idle", "claimed", "extracting", "embedding", "purging", "sweeping"},
   job : Nat, copy : Copy \cup {None}, keys : SUBSET Keys]
Idle == [stage |-> "idle", job |-> 0, copy |-> None, keys |-> {}]

Init ==
  /\ areas = [a \in Areas |-> IF a = General THEN "active" ELSE "absent"]
  /\ folders = [f \in Folders |-> None]
  /\ documents = [d \in Docs |-> None]
  /\ versions = <<>>
  /\ blobs = [c \in Contents |-> None]
  /\ files = [k \in Keys |-> "absent"]
  /\ uploads = {}
  /\ worker = [w \in Workers |-> Idle]
  /\ work = 0

Spend(n) == work + n <= MaxWork /\ work' = work + n
Panel == Spend(1)

-----------------------------------------------------------------------------
(* Areas and folders                                                       *)

CreateArea(a) ==
  /\ Panel
  /\ areas[a] = "absent"
  /\ areas' = [areas EXCEPT ![a] = "active"]
  /\ UNCHANGED <<folders, documents, versions, blobs, files, uploads, worker>>

UpdateArea(a, active) ==
  /\ Spend(2)
  /\ areas[a] # "absent"
  /\ a = General => active
  /\ areas' = [areas EXCEPT ![a] = IF active THEN "active" ELSE "inactive"]
  /\ UNCHANGED <<folders, documents, versions, blobs, files, uploads, worker>>

\* The chunks' area_id is a foreign key too (ON DELETE RESTRICT).
AreaInUse(a) ==
  \/ \E f \in Folders : folders[f] # None /\ folders[f].area = a
  \/ \E i \in DOMAIN versions :
       versions[i].chunks # None /\ versions[i].chunks.area = a

DeleteArea(a) ==
  /\ Spend(2)
  /\ areas[a] # "absent" /\ a # General
  /\ ~AreaInUse(a)
  /\ areas' = [areas EXCEPT ![a] = "absent"]
  /\ UNCHANGED <<folders, documents, versions, blobs, files, uploads, worker>>

FolderAt(a, p, n) ==
  {f \in Folders : folders[f] = [area |-> a, parent |-> p, name |-> n]}
PathAllowed(a, p) ==
  /\ areas[a] = "active"
  /\ p # None => folders[p] # None /\ folders[p].area = a
FreeFolder == {f \in Folders : folders[f] = None}

\* The folder a path with at most one segment resolves to; without a segment
\* and a parent the segment is the area's own name.
EnsureFolderPath(a, p, n) ==
  LET segment == IF n = None THEN a ELSE n
  IN  IF n = None /\ p # None THEN {p}
      ELSE IF FolderAt(a, p, segment) # {} THEN FolderAt(a, p, segment)
      ELSE IF FreeFolder = {} THEN {} ELSE {CHOOSE f \in FreeFolder : TRUE}

WithFolder(f, a, p, n) ==
  IF folders[f] # None THEN folders
  ELSE [folders EXCEPT ![f] = [area |-> a, parent |-> p,
                               name |-> IF n = None THEN a ELSE n]]

CreateFolder(a, p, n) ==
  /\ Panel
  /\ PathAllowed(a, p)
  /\ \E f \in EnsureFolderPath(a, p, n) :
       /\ folders[f] = None
       /\ folders' = WithFolder(f, a, p, n)
  /\ UNCHANGED <<areas, documents, versions, blobs, files, uploads, worker>>

UpdateFolder(f, n) ==
  /\ Spend(2)
  /\ folders[f] # None
  /\ FolderAt(folders[f].area, folders[f].parent, n) \subseteq {f}
  /\ folders' = [folders EXCEPT ![f].name = n]
  /\ UNCHANGED <<areas, documents, versions, blobs, files, uploads, worker>>

\* Faulty variant: folders inside the folder are not counted.
FolderEmptyOfDocuments(f) == \A d \in Docs : Live(d) => documents[d].folder # f

FolderEmpty(f) ==
  /\ \A g \in Folders : folders[g] # None => folders[g].parent # f
  /\ \A d \in Docs : Live(d) => documents[d].folder # f

DeleteFolder(f) ==
  /\ Spend(2)
  /\ folders[f] # None
  /\ FolderEmpty(f)
  /\ folders' = [folders EXCEPT ![f] = None]
  /\ UNCHANGED <<areas, documents, versions, blobs, files, uploads, worker>>

-----------------------------------------------------------------------------
(* Uploads                                                                 *)

\* save_stream: content-addressed, a file that exists is left as it is.
SaveStream(k) ==
  files' = [files EXCEPT ![k] = IF @ = "absent" THEN "recent" ELSE @]

\* The file is stored; the request's transaction is still open.  A replace
\* names a document that was not deleted when the request began.
StoreFile(d, c, e, a, p) ==
  /\ Panel
  /\ Cardinality(uploads) < MaxUploads
  /\ d = None => PathAllowed(a, p)
  /\ d # None => Editable(d)
  /\ SaveStream(<<c, e>>)
  /\ uploads' = uploads \cup
       {[doc |-> d, content |-> c, key |-> <<c, e>>, area |-> a, parent |-> p]}
  /\ UNCHANGED <<rows, worker>>

UploadFile(c, e, a, p) == StoreFile(None, c, e, a, p)
ReplaceFile(d, c, e) == StoreFile(d, c, e, General, None)

NewDocument(f) ==
  [folder |-> f, status |-> "processing", deleted |-> FALSE, due |-> FALSE]
\* Faulty variant: the first number after an existing one is skipped.
NumberAfterNext(d) == Cardinality(VersionsOf(d)) + 2

NextNumber(d) == Cardinality(VersionsOf(d)) + 1
NewVersion(d, n, c) ==
  [doc |-> d, number |-> n, blob |-> c, status |-> "queued", current |-> FALSE,
   chunks |-> None, job |-> "queued", attempts |-> 0, lock |-> "none",
   wait |-> FALSE]

\* INSERT ... ON CONFLICT (sha256) DO NOTHING keeps the first storage key.
InsertBlob(u) ==
  [blobs EXCEPT ![u.content] = IF @ = None THEN u.key ELSE @]

QueueUpload(u) ==
  /\ Len(versions) < MaxVersions
  /\ uploads' = uploads \ {u}
  /\ blobs' = InsertBlob(u)
  /\ \/ /\ u.doc = None
        /\ PathAllowed(u.area, u.parent)
        /\ \E f \in EnsureFolderPath(u.area, u.parent, None) :
             LET d == CHOOSE x \in Docs : documents[x] = None
             IN  /\ \E x \in Docs : documents[x] = None
                 /\ folders' = WithFolder(f, u.area, u.parent, None)
                 /\ documents' = [documents EXCEPT ![d] = NewDocument(f)]
                 /\ versions' = Append(versions, NewVersion(d, 1, u.content))
     \/ /\ u.doc # None
        /\ Editable(u.doc)
        /\ versions' = Append(versions,
                              NewVersion(u.doc, NextNumber(u.doc), u.content))
        /\ UNCHANGED <<folders, documents>>
  /\ UNCHANGED <<areas, files, worker, work>>

\* The request fails or its document was deleted: everything but the file is
\* rolled back.
AbortUpload(u) ==
  /\ uploads' = uploads \ {u}
  /\ UNCHANGED <<rows, files, worker, work>>

-----------------------------------------------------------------------------
(* Operations on a document                                                *)

Retrievable(d, to) ==
  [i \in DOMAIN versions |->
     IF versions[i].doc = d /\ versions[i].chunks # None
     THEN [versions[i] EXCEPT !.chunks.retrievable = to]
     ELSE versions[i]]

SoftDelete(d) ==
  /\ documents' = [documents EXCEPT ![d].status = "deleted", ![d].deleted = TRUE]
  /\ versions' = Retrievable(d, FALSE)

DeleteDocument(d) ==
  /\ Panel
  /\ Editable(d)
  /\ SoftDelete(d)
  /\ UNCHANGED <<areas, folders, blobs, files, uploads, worker>>

\* Faulty variant: a restored document is taken to have been published.
RestoredAsPublished(d) == "published"

RestoredStatus(d) == IF CurrentOf(d) # {} THEN "published" ELSE "failed"

Restore(d) ==
  /\ documents[d].deleted
  /\ documents' = [documents EXCEPT ![d].status = RestoredStatus(d),
                                    ![d].deleted = FALSE, ![d].due = FALSE]
  /\ versions' = [i \in DOMAIN versions |->
       IF i \in CurrentOf(d) /\ versions[i].chunks # None
       THEN [versions[i] EXCEPT !.chunks.retrievable = TRUE]
       ELSE versions[i]]

RestoreDocument(d) ==
  /\ Panel
  /\ Live(d)
  /\ Restore(d)
  /\ UNCHANGED <<areas, folders, blobs, files, uploads, worker>>

\* A new version from the current one's original.
QueueReindex(d) ==
  \E i \in CurrentOf(d) :
    /\ versions[i].status = "ready"
    /\ versions' = Append(versions,
                          NewVersion(d, NextNumber(d), versions[i].blob))

ReindexDocument(d) ==
  /\ Panel
  /\ Editable(d)
  /\ Len(versions) < MaxVersions
  /\ QueueReindex(d)
  /\ UNCHANGED <<areas, folders, documents, blobs, files, uploads, worker>>

\* A move takes every chunk of the document to the target's area.
UpdateDocument(d, f) ==
  /\ Panel
  /\ Editable(d)
  /\ folders[f] # None /\ f # documents[d].folder
  /\ documents' = [documents EXCEPT ![d].folder = f]
  /\ versions' = [i \in DOMAIN versions |->
       IF versions[i].doc = d /\ versions[i].chunks # None
       THEN [versions[i] EXCEPT !.chunks.area = folders[f].area]
       ELSE versions[i]]
  /\ UNCHANGED <<areas, folders, blobs, files, uploads, worker>>

\* Days pass only between requests, jobs and sweeps: each is far shorter.
Quiet == uploads = {} /\ \A w \in Workers : worker[w] = Idle

RetentionElapses(d) ==
  /\ Live(d) /\ documents[d].deleted /\ ~documents[d].due
  /\ Quiet
  /\ documents' = [documents EXCEPT ![d].due = TRUE]
  /\ UNCHANGED <<areas, folders, versions, blobs, files, uploads, worker, work>>

-----------------------------------------------------------------------------
(* The ingestion worker                                                    *)

\* Faulty variant: a job whose worker died is never looked at again.
ClaimableQueued(i) ==
  versions[i] # GoneVersion /\ versions[i].job = "queued" /\ ~versions[i].wait

\* _claim_job: the oldest job that is queued and due, or whose lock is older
\* than thirty minutes.
Claimable(i) ==
  /\ versions[i] # GoneVersion
  /\ \/ versions[i].job = "queued" /\ ~versions[i].wait
     \/ versions[i].job = "processing" /\ versions[i].lock = "stale"

ClaimJob(w) ==
  /\ worker[w].stage = "idle"
  /\ \E i \in DOMAIN versions :
       /\ Claimable(i) /\ \A j \in 1..(i - 1) : ~Claimable(j)
       /\ versions[i].attempts < AttemptCap
       /\ versions' = [versions EXCEPT ![i].job = "processing",
                         ![i].attempts = @ + 1, ![i].lock = "fresh"]
       /\ worker' = [worker EXCEPT ![w].stage = "claimed", ![w].job = i]
  /\ UNCHANGED <<areas, folders, documents, blobs, files, uploads, work>>

JobOf(w) == worker[w].job
Held(w) == versions[JobOf(w)]

\* _load_context and the first progress commit, with the original in place.
LoadContext(w) ==
  /\ worker[w].stage = "claimed"
  /\ Held(w) # GoneVersion
  /\ files[blobs[Held(w).blob]] # "absent"
  /\ versions' = [versions EXCEPT ![JobOf(w)].lock = "fresh"]
  /\ worker' = [worker EXCEPT ![w].stage = "extracting",
       ![w].copy = [deleted |-> documents[Held(w).doc].deleted,
                    status |-> documents[Held(w).doc].status,
                    version |-> Held(w).status,
                    job |-> Held(w).job,
                    area |-> folders[documents[Held(w).doc].folder].area]]
  /\ UNCHANGED <<areas, folders, documents, blobs, files, uploads, work>>

\* Extraction and chunking succeeded; the second progress commit.
Extracted(w) ==
  /\ worker[w].stage = "extracting"
  /\ Held(w) # GoneVersion
  /\ versions' = [versions EXCEPT ![JobOf(w)].lock = "fresh"]
  /\ worker' = [worker EXCEPT ![w].stage = "embedding"]
  /\ UNCHANGED <<areas, folders, documents, blobs, files, uploads, work>>

\* The chunks' area_id is a foreign key: if the document was moved and its old
\* area deleted meanwhile, the insert fails and the worker turns to
\* PersistFailure.
AreaRemains(copy) == areas[copy.area] # "absent"

\* An attribute is written only if it differs from the loaded copy.
Flush(row, loaded, assigned) == IF assigned = loaded THEN row ELSE assigned

\* Faulty variant: the version published before stays current.
PublishBeside(i, copy) ==
  [versions EXCEPT
     ![i].status = "ready", ![i].current = TRUE,
     ![i].chunks = [area |-> copy.area, retrievable |-> ~copy.deleted],
     ![i].job = "completed", ![i].lock = "none"]

PublishVersions(i, copy) ==
  [j \in DOMAIN versions |->
     IF j = i
     THEN [versions[i] EXCEPT
             !.status = Flush(@, copy.version, "ready"),
             !.current = TRUE,
             !.chunks = [area |-> copy.area,
                         retrievable |-> ~copy.deleted],
             !.job = Flush(@, copy.job, "completed"),
             !.lock = "none"]
     ELSE IF versions[j].doc # versions[i].doc THEN versions[j]
     ELSE [versions[j] EXCEPT
             !.current = FALSE,
             !.chunks = IF @ = None THEN None
                        ELSE [@ EXCEPT !.retrievable = FALSE]]]

PersistSuccess(w) ==
  LET i == JobOf(w)  copy == worker[w].copy
  IN  /\ worker[w].stage = "embedding"
      /\ Held(w) # GoneVersion
      /\ AreaRemains(copy)
      /\ versions' = PublishVersions(i, copy)
      /\ documents' = [documents EXCEPT ![Held(w).doc].status =
           Flush(@, copy.status,
                 IF copy.deleted THEN "deleted" ELSE "published")]
      /\ worker' = [worker EXCEPT ![w] = Idle]
      /\ UNCHANGED <<areas, folders, blobs, files, uploads, work>>

\* Faulty variant: giving up leaves the version's status alone.
FailureForgetsVersion(v) ==
  IF v.attempts < MaxAttempts
  THEN [v EXCEPT !.job = "queued", !.lock = "none", !.wait = TRUE,
                 !.status = "queued"]
  ELSE [v EXCEPT !.job = "failed", !.lock = "none"]

\* _persist_failure on the version: retry with a backoff, or give up.
AfterFailure(v) ==
  IF v.attempts < MaxAttempts
  THEN [v EXCEPT !.job = "queued", !.lock = "none", !.wait = TRUE,
                 !.status = "queued"]
  ELSE [v EXCEPT !.job = "failed", !.lock = "none", !.status = "failed"]

PersistFailure(w) ==
  LET i == JobOf(w)  d == Held(w).doc
  IN  /\ worker[w].stage \in {"claimed", "extracting", "embedding"}
      /\ worker' = [worker EXCEPT ![w] = Idle]
      /\ IF Held(w) = GoneVersion
         THEN UNCHANGED <<versions, documents>>
         ELSE /\ versions' = [versions EXCEPT ![i] = AfterFailure(@)]
              /\ documents' =
                   IF Held(w).attempts >= MaxAttempts /\ CurrentOf(d) = {}
                        /\ ~documents[d].deleted
                   THEN [documents EXCEPT ![d].status = "failed"]
                   ELSE documents
      /\ UNCHANGED <<areas, folders, blobs, files, uploads, work>>

BackoffElapses(i) ==
  /\ versions[i].wait
  /\ versions' = [versions EXCEPT ![i].wait = FALSE]
  /\ UNCHANGED <<areas, folders, documents, blobs, files, uploads, worker, work>>

\* Thirty minutes pass since locked_at, under a dead or a slow worker.
LockExpires(i) ==
  /\ versions[i].job = "processing" /\ versions[i].lock = "fresh"
  /\ IF \E w \in Workers : JobOf(w) = i THEN Spend(1) ELSE work' = work
  /\ versions' = [versions EXCEPT ![i].lock = "stale"]
  /\ UNCHANGED <<areas, folders, documents, blobs, files, uploads, worker>>

Crash(w) ==
  /\ worker[w] # Idle
  /\ Spend(1)
  /\ worker' = [worker EXCEPT ![w] = Idle]
  /\ UNCHANGED <<rows, files, uploads>>

-----------------------------------------------------------------------------
(* Maintenance: purge and orphans                                          *)

Purgeable == {d \in Docs : Live(d) /\ documents[d].deleted /\ documents[d].due}

\* Faulty variant: the blobs of a purged document go with it.
BlobsOfPurged(ds) ==
  {c \in Contents :
     \E i \in DOMAIN versions : versions[i].doc \in ds /\ versions[i].blob = c}

\* The blobs of the purged documents that no remaining version refers to.
Unreferenced(ds) ==
  {c \in Contents :
     /\ \E i \in DOMAIN versions : versions[i].doc \in ds /\ versions[i].blob = c
     /\ \A i \in DOMAIN versions :
          versions[i].blob = c => versions[i].doc \in ds}

PurgeExpired(w) ==
  LET dead == Unreferenced(Purgeable)
  IN  /\ worker[w] = Idle
      /\ Spend(1)
      /\ documents' = [d \in Docs |-> IF d \in Purgeable THEN Gone
                                      ELSE documents[d]]
      /\ versions' = [i \in DOMAIN versions |->
                        IF versions[i].doc \in Purgeable THEN GoneVersion
                        ELSE versions[i]]
      /\ blobs' = [c \in Contents |-> IF c \in dead THEN None ELSE blobs[c]]
      /\ worker' = [worker EXCEPT ![w].stage = "purging",
                                  ![w].keys = {blobs[c] : c \in dead}]
      /\ UNCHANGED <<areas, folders, files, uploads>>

\* After the commit: the purged files go, then the known keys are read.
DeletePurged(w) ==
  /\ worker[w].stage = "purging"
  /\ files' = [k \in Keys |-> IF k \in worker[w].keys THEN "absent"
                              ELSE files[k]]
  /\ worker' = [worker EXCEPT ![w].stage = "sweeping",
       ![w].keys = {blobs[c] : c \in {x \in Contents : blobs[x] # None}}]
  /\ UNCHANGED <<rows, uploads, work>>

CleanupOrphans(w) ==
  /\ worker[w].stage = "sweeping"
  /\ files' = [k \in Keys |->
       IF files[k] = "old" /\ k \notin worker[w].keys THEN "absent" ELSE files[k]]
  /\ worker' = [worker EXCEPT ![w] = Idle]
  /\ UNCHANGED <<rows, uploads, work>>

\* A day passes; of no interest once no sweep is to come.
FileAges(k) ==
  /\ files[k] = "recent"
  /\ Quiet
  /\ work < MaxWork
  /\ files' = [files EXCEPT ![k] = "old"]
  /\ UNCHANGED <<rows, uploads, worker, work>>

-----------------------------------------------------------------------------
(* Retrieval                                                               *)

\* get_user_area_ids: the granted areas that are active.
UserAreaIds(granted) == {a \in granted : areas[a] = "active"}

\* search: the common filters of both candidate queries.
Search(granted) ==
  {i \in DOMAIN versions :
     /\ versions[i].chunks # None
     /\ versions[i].chunks.retrievable
     /\ versions[i].chunks.area \in UserAreaIds(granted)
     /\ ~documents[versions[i].doc].deleted
     /\ documents[versions[i].doc].status = "published"
     /\ versions[i].current}

-----------------------------------------------------------------------------
Taxonomy ==
  \/ \E a \in Areas : CreateArea(a) \/ DeleteArea(a)
  \/ \E a \in Areas, b \in BOOLEAN : UpdateArea(a, b)
  \/ \E a \in Areas, p \in Folders \cup {None}, n \in Names \cup {None} :
       CreateFolder(a, p, n)
  \/ \E f \in Folders : DeleteFolder(f) \/ \E n \in Names : UpdateFolder(f, n)

Uploading ==
  \/ \E c \in Contents, e \in Extensions, a \in Areas, p \in Folders \cup {None} :
       UploadFile(c, e, a, p)
  \/ \E d \in Docs, c \in Contents, e \in Extensions : ReplaceFile(d, c, e)
  \/ \E u \in uploads : QueueUpload(u) \/ AbortUpload(u)

Editing ==
  \E d \in Docs :
    \/ DeleteDocument(d) \/ RestoreDocument(d) \/ ReindexDocument(d)
    \/ RetentionElapses(d)
    \/ \E f \in Folders : UpdateDocument(d, f)

Ingesting(w) ==
  \/ ClaimJob(w) \/ LoadContext(w) \/ Extracted(w)
  \/ PersistSuccess(w) \/ PersistFailure(w)
Maintaining(w) == PurgeExpired(w) \/ DeletePurged(w) \/ CleanupOrphans(w)

Time ==
  \/ \E i \in DOMAIN versions : BackoffElapses(i) \/ LockExpires(i)
  \/ \E k \in Keys : FileAges(k)

Next ==
  \/ Taxonomy \/ Uploading \/ Editing \/ Time
  \/ \E w \in Workers : Ingesting(w) \/ Maintaining(w) \/ Crash(w)

Spec == Init /\ [][Next]_vars

(***************************************************************************)
(* Compose restarts the worker, which loops forever; clocks advance.       *)
(***************************************************************************)
FairSpec ==
  /\ Spec
  /\ \A w \in Workers : WF_vars(Ingesting(w)) /\ WF_vars(Maintaining(w))
  /\ WF_vars(Time)

-----------------------------------------------------------------------------
(* Properties                                                              *)

\* Rows have their shapes and refer to rows that exist.  Folders hang from folders
\* of their own area, under distinct names; documents, chunks and versions keep
\* their folder, area and blob, whatever is moved, merged or purged meanwhile:
\* contents are shared between documents (_purge_expired_documents counts
\* references).
TypeOK ==
  /\ areas \in [Areas -> Area]
  /\ folders \in [Folders -> Folder \cup {None}]
  /\ documents \in [Docs -> Document \cup {None}]
  /\ versions \in Seq(Version)
  /\ blobs \in [Contents -> Keys \cup {None}]
  /\ files \in [Keys -> {"absent", "recent", "old"}]
  /\ uploads \subseteq Upload
  /\ worker \in [Workers -> Worker]
  /\ work \in 0..MaxWork
  /\ \A f \in Folders : folders[f] # None =>
       /\ areas[folders[f].area] # "absent"
       /\ folders[f].parent # None =>
            /\ folders[folders[f].parent] # None
            /\ folders[folders[f].parent].area = folders[f].area
       /\ \A g \in Folders : folders[g] = folders[f] => g = f
  /\ \A d \in Docs : Live(d) =>
       documents[d].folder # None /\ folders[documents[d].folder] # None
  /\ \A i \in DOMAIN versions : versions[i] # GoneVersion =>
       /\ versions[i].doc # None /\ Live(versions[i].doc)
       /\ versions[i].blob # None /\ blobs[versions[i].blob] # None
       /\ versions[i].chunks # None => areas[versions[i].chunks.area] # "absent"

\* Status and content agree, however workers, retries, deletions and restores
\* interleave: a document that reads published has a current version with chunks
\* (restore and _persist_failure decide the status from is_current), and a job
\* reads completed exactly when its version reads ready and has chunks, also when
\* a worker past its lock writes over the worker that took its job.  It does not
\* say that a published document can be found: one deleted while a worker embeds
\* it may read published, with chunks that no search returns.
StatusesAreHonest ==
  /\ \A d \in Docs :
       Live(d) /\ documents[d].status = "published" =>
         \E i \in CurrentOf(d) : versions[i].chunks # None
  /\ \A i \in DOMAIN versions :
       versions[i] # GoneVersion =>
         /\ versions[i].job = "completed" <=> versions[i].status = "ready"
         /\ versions[i].status = "ready" => versions[i].chunks # None

\* An answer never mixes two versions of a document, however late an older
\* job finishes (_persist_success moves is_current, retrieval filters by it).
OneVersionAnswers ==
  /\ \A i, j \in Search(Areas) : versions[i].doc = versions[j].doc => i = j
  /\ \A d \in Docs : Cardinality(CurrentOf(d)) <= 1

Settled(i) == versions[i].job \in {"completed", "failed"}

\* Every queued version is completed or given up, through crashes, retries
\* and workers that outlive their lock (_claim_job takes stale locks back).
EveryJobSettles ==
  \A i \in 1..MaxVersions :
    (i \in DOMAIN versions) ~> (i \in DOMAIN versions /\ Settled(i))

\* "elimina blobs solo cuando ya no tienen referencias": the file of a blob
\* row is on disk (_purge_expired_documents, cleanup_orphans).
ReferencedFileKept ==
  \A c \in Contents : blobs[c] # None => files[blobs[c]] # "absent"

=============================================================================
