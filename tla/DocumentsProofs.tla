-------------------------- MODULE DocumentsProofs --------------------------
(***************************************************************************)
(* Proofs about the document library, for any sets of documents, contents, *)
(* areas, folders and workers and any bound on the work.                   *)
(***************************************************************************)
EXTENDS Documents, FiniteSetTheorems, SequenceTheorems, TLAPS

-----------------------------------------------------------------------------
(* The inductive invariant.                                                *)

\* The shapes of rows, files, uploads and workers.
Types ==
  /\ areas \in [Areas -> Area]
  /\ folders \in [Folders -> Folder \cup {None}]
  /\ documents \in [Docs -> Document \cup {None}]
  /\ versions \in Seq(Version)
  /\ blobs \in [Contents -> Keys \cup {None}]
  /\ files \in [Keys -> {"absent", "recent", "old"}]
  /\ uploads \subseteq Upload
  /\ worker \in [Workers -> Worker]
  /\ work \in 0..MaxWork

\* Folders hang from folders of their own area, under distinct names.
FoldersFit ==
  \A f \in Folders : folders[f] # None =>
    /\ areas[folders[f].area] # "absent"
    /\ folders[f].parent # None =>
         /\ folders[folders[f].parent] # None
         /\ folders[folders[f].parent].area = folders[f].area
    /\ \A g \in Folders : folders[g] = folders[f] => g = f

DocumentsFit ==
  \A d \in Docs : Live(d) =>
    documents[d].folder # None /\ folders[documents[d].folder] # None

\* What a version refers to exists.
VersionFits(v) ==
  /\ v.doc # None /\ Live(v.doc)
  /\ v.blob # None /\ blobs[v.blob] # None
  /\ v.chunks # None => areas[v.chunks.area] # "absent"

\* What a version's columns say of each other.
HonestVersion(v) ==
  /\ v.job = "completed" <=> v.status = "ready"
  /\ v.status = "ready" => v.chunks # None
  /\ v.current => v.chunks # None

VersionsFit ==
  \A i \in DOMAIN versions : versions[i] # GoneVersion =>
    VersionFits(versions[i]) /\ HonestVersion(versions[i])

\* A published document has a current version, and no document has two.
PublishedCurrent ==
  \A d \in Docs : Live(d) /\ documents[d].status = "published" => CurrentOf(d) # {}
OneCurrent ==
  \A i, j \in DOMAIN versions :
    versions[i].current /\ versions[j].current /\ versions[i].doc = versions[j].doc => i = j

\* A worker's job exists, and its copies agree with each other, however old.
WorkerFits(w) ==
  /\ worker[w].stage \in {"claimed", "extracting", "embedding"} =>
       worker[w].job \in DOMAIN versions
  /\ worker[w].stage \in {"extracting", "embedding"} =>
       /\ worker[w].copy \in Copy
       /\ worker[w].copy.job = "completed" <=> worker[w].copy.version = "ready"
WorkersFit == \A w \in Workers : WorkerFits(w)

IInv ==
  /\ Types
  /\ FoldersFit
  /\ DocumentsFit
  /\ VersionsFit
  /\ PublishedCurrent
  /\ OneCurrent
  /\ WorkersFit

-----------------------------------------------------------------------------
(* Frames.                                                                  *)

\* Documents, versions and their parts.
LEMMA Facts ==
  ASSUME IInv
  PROVE  /\ \A i \in DOMAIN versions : versions[i] \in Version
         /\ \A d \in Docs : Live(d) => documents[d] \in Document /\ documents[d].folder \in Folders
         /\ \A i \in DOMAIN versions : versions[i] # GoneVersion =>
              versions[i].doc \in Docs /\ versions[i].blob \in Contents
         /\ \A f \in Folders : folders[f] # None => folders[f] \in Folder
<1>1. \A i \in DOMAIN versions : versions[i] \in Version
  BY DEF IInv, Types
<1>2. ASSUME NEW d \in Docs, Live(d)
      PROVE  documents[d] \in Document /\ documents[d].folder \in Folders
  <2>1. documents[d] \in Document
    BY <1>2 DEF IInv, Types, Live
  <2>2. documents[d].folder # None
    BY <1>2 DEF IInv, DocumentsFit
  <2>3. QED
    BY <2>1, <2>2 DEF Document
<1>3. ASSUME NEW i \in DOMAIN versions, versions[i] # GoneVersion
      PROVE  versions[i].doc \in Docs /\ versions[i].blob \in Contents
  <2>1. versions[i].doc # None /\ versions[i].blob # None
    BY <1>3 DEF IInv, VersionsFit, VersionFits
  <2>2. QED
    BY <1>1, <2>1 DEF Version
<1>4. \A f \in Folders : folders[f] # None => folders[f] \in Folder
  BY DEF IInv, Types
<1>5. QED
  BY <1>1, <1>2, <1>3, <1>4

\* A step that changes no row.
LEMMA RowsKept ==
  ASSUME IInv, UNCHANGED rows, Types', WorkersFit'
  PROVE  IInv'
<1>1. FoldersFit' /\ DocumentsFit'
  BY DEF IInv, rows, FoldersFit, DocumentsFit, Live
<1>2. VersionsFit'
  BY DEF IInv, rows, VersionsFit, VersionFits, HonestVersion, Live
<1>3. PublishedCurrent' /\ OneCurrent'
  BY DEF IInv, rows, PublishedCurrent, OneCurrent, CurrentOf, VersionsOf, Live
<1>4. QED
  BY <1>1, <1>2, <1>3 DEF IInv

\* Workers that are left alone.
LEMMA WorkersKept ==
  ASSUME IInv, UNCHANGED worker, DOMAIN versions \subseteq DOMAIN versions'
  PROVE  WorkersFit'
BY DEF IInv, WorkersFit, WorkerFits

\* A sequence changed in place.
LEMMA Mapped ==
  ASSUME NEW S, NEW s \in Seq(S), NEW q, q = [i \in DOMAIN s |-> q[i]],
         \A i \in DOMAIN s : q[i] \in S
  PROVE  q \in Seq(S) /\ DOMAIN q = DOMAIN s /\ Len(q) = Len(s)
<1>1. Len(s) \in Nat /\ DOMAIN s = 1..Len(s)
  OBVIOUS
<1>2. q \in [1..Len(s) -> S]
  BY <1>1
<1>3. q \in Seq(S)
  BY <1>1, <1>2, SeqDef
<1>4. QED
  BY <1>1, <1>2, <1>3

\* A version that a step changes without moving it: it keeps its document, its
\* blob and its place.
VersionStep(i) ==
  LET v == versions[i]
      q == versions'[i] IN
  \/ q = v
  \/ /\ v # GoneVersion
     /\ q \in Version
     /\ q.doc = v.doc /\ q.blob = v.blob /\ q.current = v.current
     /\ HonestVersion(q)
     /\ q.chunks # None => areas[q.chunks.area] # "absent"

\* Versions that each make an allowed step leave the versions in order.
LEMMA VersionsStep ==
  ASSUME IInv, UNCHANGED <<areas, blobs>>, versions' = [i \in DOMAIN versions |-> versions'[i]],
         \A i \in DOMAIN versions : VersionStep(i),
         \A d \in Docs : Live(d) => Live(d)'
  PROVE  /\ versions' \in Seq(Version) /\ DOMAIN versions' = DOMAIN versions
         /\ VersionsFit' /\ OneCurrent'
         /\ \A d \in Docs : CurrentOf(d)' = CurrentOf(d)
<1>1. versions \in Seq(Version)
  BY DEF IInv, Types
<1>2. \A i \in DOMAIN versions : versions'[i] \in Version
  BY Facts DEF VersionStep
<1>3. versions' \in Seq(Version) /\ DOMAIN versions' = DOMAIN versions
  BY <1>1, <1>2, Mapped
<1>4. \A i \in DOMAIN versions : versions'[i].doc = versions[i].doc
                                 /\ versions'[i].current = versions[i].current
  BY DEF VersionStep
<1>5. OneCurrent' /\ \A d \in Docs : CurrentOf(d)' = CurrentOf(d)
  BY <1>3, <1>4 DEF IInv, OneCurrent, CurrentOf, VersionsOf
<1>6. ASSUME NEW i \in DOMAIN versions, versions'[i] # GoneVersion
      PROVE  VersionFits(versions[i])' /\ HonestVersion(versions[i])'
  <2>1. versions[i] # GoneVersion
    BY <1>6 DEF VersionStep
  <2>2. VersionFits(versions[i]) /\ HonestVersion(versions[i]) /\ versions[i].doc \in Docs
    BY <2>1, Facts DEF IInv, VersionsFit
  <2>3. Live(versions[i].doc)'
    BY <1>4, <2>2 DEF VersionFits, Live
  <2>4. CASE versions'[i] = versions[i]
    BY <2>2, <2>3, <2>4 DEF VersionFits, HonestVersion
  <2>5. CASE versions'[i] # versions[i]
    BY <2>2, <2>3, <2>5 DEF VersionStep, VersionFits, HonestVersion
  <2>6. QED
    BY <2>4, <2>5
<1>7. VersionsFit'
  BY <1>3, <1>6 DEF VersionsFit
<1>8. QED
  BY <1>3, <1>5, <1>7

\* The shapes of everything that is not a row.
OtherTypes ==
  /\ files \in [Keys -> {"absent", "recent", "old"}]
  /\ uploads \subseteq Upload
  /\ worker \in [Workers -> Worker]
  /\ work \in 0..MaxWork

\* A document that a step changes stays in a folder.
DocumentPlaced(d) ==
  \/ documents'[d] = documents[d]
  \/ /\ Live(d)
     /\ documents'[d] \in Document
     /\ documents'[d].folder \in Folders /\ folders[documents'[d].folder] # None

\* It also is published only with a current version.
DocumentStep(d) ==
  \/ documents'[d] = documents[d]
  \/ /\ Live(d)
     /\ documents'[d] \in Document
     /\ documents'[d].folder \in Folders /\ folders[documents'[d].folder] # None
     /\ documents'[d].status = "published" =>
          documents[d].status = "published" \/ CurrentOf(d) # {}

\* Documents that each stay placed leave the documents in order.
LEMMA DocumentsStep ==
  ASSUME IInv, UNCHANGED folders, documents' = [d \in Docs |-> documents'[d]],
         \A d \in Docs : DocumentPlaced(d)
  PROVE  /\ documents' \in [Docs -> Document \cup {None}] /\ DocumentsFit'
         /\ \A d \in Docs : Live(d)' <=> Live(d)
<1>1. ASSUME NEW d \in Docs
      PROVE  /\ documents'[d] \in Document \cup {None}
             /\ Live(d)' <=> Live(d)
             /\ Live(d)' => documents'[d].folder # None
                            /\ folders'[documents'[d].folder] # None
  <2>1. CASE documents'[d] = documents[d]
    BY <2>1 DEF IInv, Types, DocumentsFit, Live
  <2>2. CASE documents'[d] # documents[d]
    <3>1. documents'[d] \in Document /\ documents'[d].folder \in Folders
          /\ folders[documents'[d].folder] # None /\ Live(d)
      BY <2>2 DEF DocumentPlaced
    <3>2. documents'[d].folder # None
      BY <3>1, DocumentsAssumption
    <3>3. documents'[d] # None /\ documents'[d] # Gone
      BY <3>1, <3>2, DocumentsAssumption DEF Gone
    <3>4. QED
      BY <3>1, <3>2, <3>3 DEF Live
  <2>3. QED
    BY <2>1, <2>2
<1>2. documents' \in [Docs -> Document \cup {None}]
  BY <1>1
<1>3. DocumentsFit'
  BY <1>1 DEF DocumentsFit
<1>4. QED
  BY <1>1, <1>2, <1>3

\* A step on documents and their versions.
LEMMA EditKeeps ==
  ASSUME IInv, UNCHANGED <<areas, folders, blobs>>, OtherTypes',
         versions' = [i \in DOMAIN versions |-> versions'[i]],
         \A i \in DOMAIN versions : VersionStep(i),
         documents' = [d \in Docs |-> documents'[d]],
         \A d \in Docs : DocumentStep(d),
         WorkersFit'
  PROVE  IInv'
<1>1. /\ documents' \in [Docs -> Document \cup {None}] /\ DocumentsFit'
      /\ \A d \in Docs : Live(d)' <=> Live(d)
  <2>1. \A d \in Docs : DocumentPlaced(d)
    BY DEF DocumentStep, DocumentPlaced
  <2>2. QED
    BY <2>1, DocumentsStep
<1>2. /\ versions' \in Seq(Version) /\ DOMAIN versions' = DOMAIN versions
      /\ VersionsFit' /\ OneCurrent'
      /\ \A d \in Docs : CurrentOf(d)' = CurrentOf(d)
  BY <1>1, VersionsStep
<1>3. Types'
  BY <1>1, <1>2 DEF IInv, Types, OtherTypes
<1>4. FoldersFit'
  BY DEF IInv, FoldersFit
<1>5. PublishedCurrent'
  <2>1. ASSUME NEW d \in Docs, Live(d)', documents'[d].status = "published"
        PROVE  CurrentOf(d)' # {}
    <3>1. Live(d)
      BY <1>1, <2>1
    <3>2. documents[d].status = "published" \/ CurrentOf(d) # {}
      BY <2>1 DEF DocumentStep
    <3>3. CurrentOf(d) # {}
      BY <3>1, <3>2 DEF IInv, PublishedCurrent
    <3>4. QED
      BY <1>2, <3>3
  <2>2. QED
    BY <2>1 DEF PublishedCurrent
<1>6. QED
  BY <1>1, <1>2, <1>3, <1>4, <1>5 DEF IInv

\* Requests and crashes are counted.
LEMMA SpendType ==
  ASSUME IInv, NEW n \in Nat, Spend(n)
  PROVE  work' \in 0..MaxWork
BY DocumentsAssumption DEF Spend, IInv, Types

-----------------------------------------------------------------------------
(* Areas and folders.                                                       *)

\* Nothing but areas and folders changes.
LEMMA TaxonomyKeeps ==
  ASSUME IInv, UNCHANGED <<documents, versions, blobs, files, uploads, worker>>,
         work' \in 0..MaxWork,
         areas' \in [Areas -> Area], folders' \in [Folders -> Folder \cup {None}],
         FoldersFit', DocumentsFit',
         \A i \in DOMAIN versions : versions[i].chunks # None =>
           areas'[versions[i].chunks.area] # "absent"
  PROVE  IInv'
<1>1. Types'
  BY DEF IInv, Types
<1>2. VersionsFit'
  BY DEF IInv, VersionsFit, VersionFits, HonestVersion, Live
<1>3. PublishedCurrent' /\ OneCurrent' /\ WorkersFit'
  BY WorkersKept DEF IInv, PublishedCurrent, OneCurrent, CurrentOf, VersionsOf, Live
<1>4. QED
  BY <1>1, <1>2, <1>3 DEF IInv

\* The chunks of a version are in an area that exists.
LEMMA ChunkAreas ==
  ASSUME IInv, NEW i \in DOMAIN versions, versions[i].chunks # None
  PROVE  versions[i].chunks.area \in Areas /\ areas[versions[i].chunks.area] # "absent"
<1>1. versions[i] # GoneVersion
  BY DEF GoneVersion
<1>2. versions[i].chunks \in ChunkRows
  BY Facts DEF Version
<1>3. QED
  BY <1>1, <1>2 DEF ChunkRows, IInv, VersionsFit, VersionFits

\* A change of one area that no row forbids keeps the invariant.
LEMMA AreaKeeps ==
  ASSUME IInv, NEW a \in Areas, NEW state \in Area,
         areas' = [areas EXCEPT ![a] = state], state = "absent" => ~AreaInUse(a),
         work' \in 0..MaxWork,
         UNCHANGED <<folders, documents, versions, blobs, files, uploads, worker>>
  PROVE  IInv'
<1>1. areas' \in [Areas -> Area]
  BY DEF IInv, Types
<1>2. \A b \in Areas : areas'[b] = IF b = a THEN state ELSE areas[b]
  BY DEF IInv, Types
<1>3. FoldersFit'
  <2>1. ASSUME NEW f \in Folders, folders[f] # None
        PROVE  areas'[folders[f].area] # "absent"
    <3>1. folders[f].area \in Areas
      BY <2>1, Facts DEF Folder
    <3>2. areas[folders[f].area] # "absent"
      BY <2>1 DEF IInv, FoldersFit
    <3>3. QED
      BY <1>2, <2>1, <3>1, <3>2 DEF AreaInUse
  <2>2. QED
    BY <2>1 DEF IInv, FoldersFit
<1>4. DocumentsFit'
  BY DEF IInv, DocumentsFit, Live
<1>5. ASSUME NEW i \in DOMAIN versions, versions[i].chunks # None
      PROVE  areas'[versions[i].chunks.area] # "absent"
  BY <1>2, <1>5, ChunkAreas DEF AreaInUse
<1>6. folders' \in [Folders -> Folder \cup {None}]
  BY DEF IInv, Types
<1>7. QED
  BY <1>1, <1>3, <1>4, <1>5, <1>6, TaxonomyKeeps

\* CreateArea, UpdateArea and DeleteArea keep the invariant.
LEMMA AreasKeep ==
  ASSUME IInv, NEW a \in Areas, NEW active \in BOOLEAN,
         CreateArea(a) \/ UpdateArea(a, active) \/ DeleteArea(a)
  PROVE  IInv'
<1>1. CASE CreateArea(a)
  BY <1>1, AreaKeeps, SpendType DEF CreateArea, Panel, Area
<1>2. CASE UpdateArea(a, active)
  <2> DEFINE state == IF active THEN "active" ELSE "inactive"
  <2>1. state \in Area /\ state # "absent" /\ areas' = [areas EXCEPT ![a] = state]
    BY <1>2 DEF UpdateArea, Area
  <2>2. work' \in 0..MaxWork
    BY <1>2, SpendType DEF UpdateArea
  <2> HIDE DEF state
  <2>3. QED
    BY <1>2, <2>1, <2>2, AreaKeeps DEF UpdateArea
<1>3. CASE DeleteArea(a)
  BY <1>3, AreaKeeps, SpendType DEF DeleteArea, Area
<1>4. QED
  BY <1>1, <1>2, <1>3

\* A folder is added or renamed.
LEMMA FolderPut ==
  ASSUME IInv, NEW f \in Folders, NEW r \in Folder, folders' = [folders EXCEPT ![f] = r],
         UNCHANGED areas, areas[r.area] # "absent",
         r.parent # None => folders[r.parent] # None /\ folders[r.parent].area = r.area,
         folders[f] # None => folders[f].area = r.area,
         \A g \in Folders : folders[g] = r => g = f
  PROVE  /\ folders' \in [Folders -> Folder \cup {None}]
         /\ FoldersFit'
         /\ \A g \in Folders : folders[g] # None \/ g = f => folders'[g] # None
<1>1. folders' \in [Folders -> Folder \cup {None}] /\ folders'[f] = r
      /\ \A g \in Folders : g # f => folders'[g] = folders[g]
  BY DEF IInv, Types
<1>2. r # None
  BY DocumentsAssumption
<1>3. \A g \in Folders : folders[g] # None \/ g = f => folders'[g] # None
  BY <1>1, <1>2
<1>4. \A g \in Folders : folders[g] # None => folders'[g].area = folders[g].area
  BY <1>1
<1>5. ASSUME NEW g \in Folders, folders'[g] # None
      PROVE  /\ areas[folders'[g].area] # "absent"
             /\ folders'[g].parent # None =>
                  /\ folders'[folders'[g].parent] # None
                  /\ folders'[folders'[g].parent].area = folders'[g].area
  <2>1. folders'[g] \in Folder
    BY <1>1, <1>5
  <2>2. folders'[g].parent \in Folders \cup {None}
    BY <2>1 DEF Folder
  <2>3. areas[folders'[g].area] # "absent"
    BY <1>1, <1>5 DEF IInv, FoldersFit
  <2>4. folders'[g].parent # None =>
          /\ folders[folders'[g].parent] # None
          /\ folders[folders'[g].parent].area = folders'[g].area
    BY <1>1, <1>5 DEF IInv, FoldersFit
  <2>5. QED
    BY <1>3, <1>4, <2>2, <2>3, <2>4
<1>6. ASSUME NEW g \in Folders, folders'[g] # None, NEW h \in Folders,
             folders'[h] = folders'[g]
      PROVE  h = g
  BY <1>1, <1>6 DEF IInv, FoldersFit
<1>7. FoldersFit'
  BY <1>5, <1>6 DEF FoldersFit
<1>8. QED
  BY <1>1, <1>3, <1>7

\* The folder a path resolves to exists afterwards.
LEMMA PathPut ==
  ASSUME IInv, NEW a \in Areas, NEW p \in Folders \cup {None}, NEW n \in Names \cup {None},
         PathAllowed(a, p), NEW f \in EnsureFolderPath(a, p, n),
         folders' = WithFolder(f, a, p, n), UNCHANGED areas
  PROVE  /\ f \in Folders
         /\ folders' \in [Folders -> Folder \cup {None}]
         /\ FoldersFit'
         /\ \A g \in Folders : folders[g] # None \/ g = f => folders'[g] # None
<1> DEFINE segment == IF n = None THEN a ELSE n
           r == [area |-> a, parent |-> p, name |-> segment]
<1>1. CASE n = None /\ p # None
  <2>1. f = p
    BY <1>1 DEF EnsureFolderPath
  <2>2. folders[f] # None /\ f \in Folders
    BY <1>1, <2>1 DEF PathAllowed
  <2>3. folders' = folders
    BY <2>2 DEF WithFolder
  <2>4. QED
    BY <2>2, <2>3 DEF IInv, Types, FoldersFit
<1>2. CASE ~(n = None /\ p # None) /\ FolderAt(a, p, segment) # {}
  <2>1. f \in FolderAt(a, p, segment)
    BY <1>2 DEF EnsureFolderPath
  <2>2. f \in Folders /\ folders[f] = r
    BY <2>1 DEF FolderAt
  <2>3. r \in Folder
    BY DEF Folder
  <2>4. folders[f] # None
    BY <2>2, <2>3, DocumentsAssumption
  <2>5. folders' = folders
    BY <2>4 DEF WithFolder
  <2>6. QED
    BY <2>2, <2>4, <2>5 DEF IInv, Types, FoldersFit
<1>3. CASE ~(n = None /\ p # None) /\ FolderAt(a, p, segment) = {}
  <2>1. f \in FreeFolder
    BY <1>3 DEF EnsureFolderPath
  <2>2. f \in Folders /\ folders[f] = None
    BY <2>1 DEF FreeFolder
  <2>3. r \in Folder /\ r.area = a /\ r.parent = p
    BY DEF Folder
  <2>4. folders' = [folders EXCEPT ![f] = r]
    BY <2>2 DEF WithFolder
  <2>5. \A g \in Folders : folders[g] # r
    BY <1>3 DEF FolderAt
  <2>6. areas[a] # "absent" /\ (p # None => folders[p] # None /\ folders[p].area = a)
    BY DEF PathAllowed
  <2> HIDE DEF r
  <2>7. /\ areas[r.area] # "absent"
        /\ r.parent # None => folders[r.parent] # None /\ folders[r.parent].area = r.area
    BY <2>3, <2>6
  <2>8. \A g \in Folders : folders[g] = r => g = f
    BY <2>5
  <2>9. folders[f] # None => folders[f].area = r.area
    BY <2>2
  <2>10. r \in Folder
    BY <2>3
  <2>11. QED
    BY <2>2, <2>4, <2>7, <2>8, <2>9, <2>10, FolderPut
<1>4. QED
  BY <1>1, <1>2, <1>3

\* CreateFolder keeps the invariant.
LEMMA CreateFolderKeeps ==
  ASSUME IInv, NEW a \in Areas, NEW p \in Folders \cup {None}, NEW n \in Names \cup {None},
         CreateFolder(a, p, n)
  PROVE  IInv'
<1>1. PICK f \in EnsureFolderPath(a, p, n) : folders' = WithFolder(f, a, p, n)
  BY DEF CreateFolder
<1>2. PathAllowed(a, p) /\ work' \in 0..MaxWork
      /\ UNCHANGED <<areas, documents, versions, blobs, files, uploads, worker>>
  BY SpendType DEF CreateFolder, Panel
<1>3. /\ folders' \in [Folders -> Folder \cup {None}]
      /\ FoldersFit'
      /\ \A g \in Folders : folders[g] # None => folders'[g] # None
  BY <1>1, <1>2, PathPut
<1>4. DocumentsFit'
  BY <1>2, <1>3, Facts DEF IInv, DocumentsFit, Live
<1>5. QED
  BY <1>2, <1>3, <1>4, ChunkAreas, TaxonomyKeeps DEF IInv, Types

\* UpdateFolder keeps the invariant.
LEMMA UpdateFolderKeeps ==
  ASSUME IInv, NEW f \in Folders, NEW n \in Names, UpdateFolder(f, n)
  PROVE  IInv'
<1> DEFINE r == [folders[f] EXCEPT !.name = n]
<1>1. /\ folders[f] # None /\ folders' = [folders EXCEPT ![f] = r]
      /\ FolderAt(folders[f].area, folders[f].parent, n) \subseteq {f}
      /\ UNCHANGED <<areas, documents, versions, blobs, files, uploads, worker>>
      /\ work' \in 0..MaxWork
  BY SpendType DEF UpdateFolder
<1>2. folders[f] \in Folder
  BY <1>1, Facts
<1>3. r \in Folder /\ r.area = folders[f].area /\ r.parent = folders[f].parent
  BY <1>2 DEF Folder
<1>4. r = [area |-> folders[f].area, parent |-> folders[f].parent, name |-> n]
  BY <1>2 DEF Folder
<1>5. \A g \in Folders : folders[g] = r => g = f
  BY <1>1, <1>4 DEF FolderAt
<1>6. /\ areas[r.area] # "absent"
      /\ r.parent # None => folders[r.parent] # None /\ folders[r.parent].area = r.area
  BY <1>1, <1>3 DEF IInv, FoldersFit
<1> HIDE DEF r
<1>7. /\ folders' \in [Folders -> Folder \cup {None}]
      /\ FoldersFit'
      /\ \A g \in Folders : folders[g] # None => folders'[g] # None
  BY <1>1, <1>3, <1>5, <1>6, FolderPut
<1>8. DocumentsFit'
  BY <1>1, <1>7, Facts DEF IInv, DocumentsFit, Live
<1>9. QED
  BY <1>1, <1>7, <1>8, ChunkAreas, TaxonomyKeeps DEF IInv, Types

\* DeleteFolder keeps the invariant.
LEMMA DeleteFolderKeeps ==
  ASSUME IInv, NEW f \in Folders, DeleteFolder(f)
  PROVE  IInv'
<1>1. /\ folders' = [folders EXCEPT ![f] = None] /\ FolderEmpty(f)
      /\ UNCHANGED <<areas, documents, versions, blobs, files, uploads, worker>>
      /\ work' \in 0..MaxWork
  BY SpendType DEF DeleteFolder
<1>2. folders' \in [Folders -> Folder \cup {None}] /\ folders'[f] = None
      /\ \A g \in Folders : g # f => folders'[g] = folders[g]
  BY <1>1 DEF IInv, Types
<1>3. FoldersFit'
  <2>1. ASSUME NEW g \in Folders, folders'[g] # None
        PROVE  /\ areas[folders'[g].area] # "absent"
               /\ folders'[g].parent # None =>
                    /\ folders'[folders'[g].parent] # None
                    /\ folders'[folders'[g].parent].area = folders'[g].area
    <3>1. folders'[g] = folders[g] /\ folders[g] # None /\ folders[g].parent # f
      BY <1>1, <1>2, <2>1 DEF FolderEmpty
    <3>2. folders[g].parent \in Folders \cup {None}
      BY <3>1, Facts DEF Folder
    <3>3. QED
      BY <1>2, <3>1, <3>2 DEF IInv, FoldersFit
  <2>2. ASSUME NEW g \in Folders, folders'[g] # None, NEW h \in Folders,
               folders'[h] = folders'[g]
        PROVE  h = g
    BY <1>2, <2>2 DEF IInv, FoldersFit
  <2>3. QED
    BY <1>1, <2>1, <2>2 DEF FoldersFit
<1>4. DocumentsFit'
  BY <1>1, <1>2, Facts DEF FolderEmpty, IInv, DocumentsFit, Live
<1>5. QED
  BY <1>1, <1>2, <1>3, <1>4, ChunkAreas, TaxonomyKeeps DEF IInv, Types

-----------------------------------------------------------------------------
(* Uploads.                                                                 *)

\* StoreFile keeps the invariant.
LEMMA StoreFileKeeps ==
  ASSUME IInv, NEW d \in Docs \cup {None}, NEW c \in Contents, NEW e \in Extensions,
         NEW a \in Areas, NEW p \in Folders \cup {None}, StoreFile(d, c, e, a, p)
  PROVE  IInv'
<1> DEFINE k == <<c, e>>
           u == [doc |-> d, content |-> c, key |-> k, area |-> a, parent |-> p]
<1>1. k \in Keys
  BY DEF Keys
<1>2. files' = [files EXCEPT ![k] = IF @ = "absent" THEN "recent" ELSE @]
      /\ uploads' = uploads \cup {u} /\ UNCHANGED <<rows, worker>> /\ work' \in 0..MaxWork
  BY SpendType DEF StoreFile, SaveStream, Panel
<1> HIDE DEF k
<1>3. u \in Upload
  BY <1>1 DEF Upload
<1> HIDE DEF u
<1>4. files' \in [Keys -> {"absent", "recent", "old"}]
  BY <1>1, <1>2 DEF IInv, Types
<1>5. uploads' \subseteq Upload
  BY <1>2, <1>3 DEF IInv, Types
<1>6. UNCHANGED <<areas, folders, documents, versions, blobs, worker>>
  BY <1>2 DEF rows
<1>7. Types'
  BY <1>2, <1>4, <1>5, <1>6 DEF IInv, Types
<1>8. WorkersFit'
  BY <1>6, WorkersKept
<1>9. QED
  BY <1>2, <1>7, <1>8, RowsKept

\* AbortUpload keeps the invariant.
LEMMA AbortUploadKeeps ==
  ASSUME IInv, NEW u \in uploads, AbortUpload(u)
  PROVE  IInv'
<1>1. uploads' = uploads \ {u} /\ UNCHANGED <<rows, files, worker, work>>
  BY DEF AbortUpload
<1>2. UNCHANGED <<areas, folders, documents, versions, blobs, worker>>
  BY <1>1 DEF rows
<1>3. Types'
  BY <1>1, <1>2 DEF IInv, Types
<1>4. WorkersFit'
  BY <1>2, WorkersKept
<1>5. QED
  BY <1>1, <1>3, <1>4, RowsKept

\* A version that was just queued.
Queued(v) ==
  /\ v \in Version
  /\ v # GoneVersion
  /\ ~v.current
  /\ HonestVersion(v)
  /\ v.chunks = None

\* The version a queued upload or reindexing adds fits its document.
LEMMA NewVersionQueued ==
  ASSUME NEW d \in Docs, NEW n \in 1..MaxVersions, NEW c \in Contents
  PROVE  /\ Queued(NewVersion(d, n, c))
         /\ NewVersion(d, n, c).doc = d /\ NewVersion(d, n, c).blob = c
<1>1. 0 \in 0..AttemptCap /\ n \in 0..MaxVersions
  BY DocumentsAssumption
<1>2. NewVersion(d, n, c) \in Version
  BY <1>1 DEF NewVersion, Version, VersionStatus, JobStatus
<1>3. NewVersion(d, n, c).doc = d /\ NewVersion(d, n, c).blob = c
      /\ NewVersion(d, n, c).current = FALSE /\ NewVersion(d, n, c).chunks = None
      /\ NewVersion(d, n, c).status = "queued" /\ NewVersion(d, n, c).job = "queued"
  BY DEF NewVersion
<1>4. NewVersion(d, n, c) # GoneVersion
  BY <1>3 DEF GoneVersion
<1>5. QED
  BY <1>2, <1>3, <1>4 DEF Queued, HonestVersion

\* The versions of a document are fewer than the next version's number.
LEMMA NumberInRange ==
  ASSUME IInv, NEW d \in Docs, Len(versions) < MaxVersions
  PROVE  NextNumber(d) \in 1..MaxVersions
<1>1. Len(versions) \in Nat /\ DOMAIN versions = 1..Len(versions)
  BY DEF IInv, Types
<1>2. IsFiniteSet(1..Len(versions)) /\ Cardinality(1..Len(versions)) = Len(versions)
  <2> DEFINE n == Len(versions)
  <2>1. n \in Int /\ 1 \in Int
    BY <1>1
  <2>2. IsFiniteSet(1..n) /\ Cardinality(1..n) = IF 1 > n THEN 0 ELSE n - 1 + 1
    BY <2>1, FS_Interval
  <2>3. QED
    BY <1>1, <2>2
<1>3. VersionsOf(d) \subseteq 1..Len(versions)
  BY <1>1 DEF VersionsOf
<1>4. IsFiniteSet(VersionsOf(d)) /\ Cardinality(VersionsOf(d)) <= Len(versions)
  BY <1>2, <1>3, FS_Subset
<1>5. Cardinality(VersionsOf(d)) \in Nat
  BY <1>4, FS_CardinalityType
<1>6. QED
  BY <1>1, <1>4, <1>5, DocumentsAssumption DEF NextNumber

\* A version is queued behind the others.
LEMMA VersionAdded ==
  ASSUME IInv, NEW v, Queued(v), versions' = Append(versions, v), UNCHANGED areas,
         v.doc \in Docs, Live(v.doc)', v.blob \in Contents, blobs'[v.blob] # None,
         \A d \in Docs : Live(d) => Live(d)',
         \A c \in Contents : blobs[c] # None => blobs'[c] # None
  PROVE  /\ versions' \in Seq(Version) /\ DOMAIN versions \subseteq DOMAIN versions'
         /\ VersionsFit' /\ OneCurrent'
         /\ \A d \in Docs : CurrentOf(d)' = CurrentOf(d)
<1>1. versions \in Seq(Version) /\ v \in Version
  BY DEF IInv, Types, Queued
<1>2. PICK n \in Nat :
      /\ versions' \in Seq(Version) /\ DOMAIN versions' = DOMAIN versions \cup {n}
      /\ n \notin DOMAIN versions /\ versions'[n] = v
      /\ \A i \in DOMAIN versions : versions'[i] = versions[i]
  <2>1. Len(versions) + 1 \in Nat
    BY <1>1
  <2>2. QED
    BY <1>1, <2>1
<1>3. ~versions'[n].current
  BY <1>2 DEF Queued
<1>4. OneCurrent'
  BY <1>2, <1>3 DEF IInv, OneCurrent
<1>5. \A d \in Docs : CurrentOf(d)' = CurrentOf(d)
  BY <1>2, <1>3 DEF CurrentOf, VersionsOf
<1>6. ASSUME NEW i \in DOMAIN versions, versions[i] # GoneVersion
      PROVE  VersionFits(versions[i])' /\ HonestVersion(versions[i])'
  <2>1. versions[i].doc \in Docs /\ versions[i].blob \in Contents
    BY <1>6, Facts
  <2>2. VersionFits(versions[i]) /\ HonestVersion(versions[i])
    BY <1>6 DEF IInv, VersionsFit
  <2>3. versions'[i] = versions[i]
    BY <1>2
  <2>4. Live(versions[i].doc)'
    BY <2>1, <2>2, <2>3 DEF VersionFits, Live
  <2>5. QED
    BY <2>1, <2>2, <2>3, <2>4 DEF VersionFits, HonestVersion
<1>7. VersionFits(versions[n])' /\ HonestVersion(versions[n])'
  <2>1. v.doc # None /\ v.blob # None
    BY DocumentsAssumption
  <2>2. QED
    BY <1>2, <2>1 DEF Queued, VersionFits, HonestVersion, Live
<1>8. VersionsFit'
  BY <1>2, <1>6, <1>7 DEF VersionsFit
<1>9. QED
  BY <1>2, <1>4, <1>5, <1>8

\* A queued upload finds or inserts the blob of its content.
LEMMA BlobInserted ==
  ASSUME IInv, NEW u \in uploads, blobs' = InsertBlob(u)
  PROVE  /\ blobs' \in [Contents -> Keys \cup {None}]
         /\ u.content \in Contents /\ blobs'[u.content] # None
         /\ \A c \in Contents : blobs[c] # None => blobs'[c] # None
<1>1. u.content \in Contents /\ u.key \in Keys
  BY DEF IInv, Types, Upload
<1>2. u.key # None
  BY <1>1, DocumentsAssumption
<1>3. QED
  BY <1>1, <1>2 DEF InsertBlob, IInv, Types

\* A new version of a document that exists.
LEMMA NextVersionKeeps ==
  ASSUME IInv, NEW d \in Docs, Live(d), NEW c \in Contents, Len(versions) < MaxVersions,
         versions' = Append(versions, NewVersion(d, NextNumber(d), c)),
         UNCHANGED <<areas, folders, documents, files, worker>>,
         blobs' \in [Contents -> Keys \cup {None}], blobs'[c] # None,
         \A b \in Contents : blobs[b] # None => blobs'[b] # None,
         uploads' \subseteq Upload, work' \in 0..MaxWork
  PROVE  IInv'
<1>1. NextNumber(d) \in 1..MaxVersions
  BY NumberInRange
<1>2. PICK n \in 1..MaxVersions : n = NextNumber(d)
  BY <1>1
<1>3. Queued(NewVersion(d, n, c)) /\ NewVersion(d, n, c).doc = d /\ NewVersion(d, n, c).blob = c
  BY NewVersionQueued
<1>4. PICK q : /\ versions' = Append(versions, q)
               /\ Queued(q) /\ q.doc = d /\ q.blob = c
  BY <1>2, <1>3
<1>5. \A x \in Docs : Live(x)' <=> Live(x)
  BY DEF Live
<1>6. q.doc \in Docs /\ Live(q.doc)' /\ q.blob \in Contents /\ blobs'[q.blob] # None
  BY <1>4, <1>5 DEF Live
<1>7. UNCHANGED areas /\ \A x \in Docs : Live(x) => Live(x)'
  BY <1>5
<1>8. /\ versions' \in Seq(Version) /\ DOMAIN versions \subseteq DOMAIN versions'
      /\ VersionsFit' /\ OneCurrent'
      /\ \A x \in Docs : CurrentOf(x)' = CurrentOf(x)
  BY <1>4, <1>6, <1>7, VersionAdded
<1>9. Types'
  BY <1>8 DEF IInv, Types
<1>10. FoldersFit' /\ DocumentsFit'
  BY DEF IInv, FoldersFit, DocumentsFit, Live
<1>11. PublishedCurrent'
  BY <1>8 DEF IInv, PublishedCurrent, Live
<1>12. WorkersFit'
  BY <1>8, WorkersKept
<1>13. QED
  BY <1>8, <1>9, <1>10, <1>11, <1>12 DEF IInv

\* The first version of a document, in the folder its path leads to.
LEMMA FirstVersionKeeps ==
  ASSUME IInv, NEW d \in Docs, documents[d] = None, NEW c \in Contents,
         NEW f \in Folders, documents' = [documents EXCEPT ![d] = NewDocument(f)],
         Len(versions) < MaxVersions,
         versions' = Append(versions, NewVersion(d, 1, c)),
         folders' \in [Folders -> Folder \cup {None}], FoldersFit',
         \A g \in Folders : folders[g] # None \/ g = f => folders'[g] # None,
         UNCHANGED <<areas, files, worker>>,
         blobs' \in [Contents -> Keys \cup {None}], blobs'[c] # None,
         \A b \in Contents : blobs[b] # None => blobs'[b] # None,
         uploads' \subseteq Upload, work' \in 0..MaxWork
  PROVE  IInv'
<1>1. NewDocument(f) \in Document /\ NewDocument(f).folder = f
      /\ NewDocument(f).status = "processing"
  BY DEF NewDocument, Document, DocumentStatus
<1>2. NewDocument(f) # None /\ NewDocument(f) # Gone
  BY <1>1, DocumentsAssumption DEF Gone
<1>3. documents' \in [Docs -> Document \cup {None}] /\ documents'[d] = NewDocument(f)
      /\ \A x \in Docs : x # d => documents'[x] = documents[x]
  BY <1>1 DEF IInv, Types
<1>4. Live(d)' /\ \A x \in Docs : Live(x)' <=> Live(x) \/ x = d
  BY <1>2, <1>3 DEF Live
<1>5. DocumentsFit'
  <2>1. ASSUME NEW x \in Docs, Live(x)'
        PROVE  documents'[x].folder # None /\ folders'[documents'[x].folder] # None
    <3>1. CASE x = d
      BY <1>1, <1>3, <3>1, DocumentsAssumption
    <3>2. CASE x # d
      <4>1. documents'[x] = documents[x] /\ Live(x)
        BY <1>3, <1>4, <2>1, <3>2
      <4>2. documents[x].folder \in Folders
        BY <4>1, Facts
      <4>3. QED
        BY <4>1, <4>2 DEF IInv, DocumentsFit
    <3>3. QED
      BY <3>1, <3>2
  <2>2. QED
    BY <2>1 DEF DocumentsFit
<1>6. 1 \in 1..MaxVersions
  <2>1. Len(versions) \in Nat
    BY DEF IInv, Types
  <2>2. QED
    BY <2>1, DocumentsAssumption
<1>7. Queued(NewVersion(d, 1, c)) /\ NewVersion(d, 1, c).doc = d /\ NewVersion(d, 1, c).blob = c
  BY <1>6, NewVersionQueued
<1>8. PICK q : /\ versions' = Append(versions, q)
               /\ Queued(q) /\ q.doc = d /\ q.blob = c
  BY <1>7
<1>9. q.doc \in Docs /\ Live(q.doc)' /\ q.blob \in Contents /\ blobs'[q.blob] # None
  BY <1>4, <1>8 DEF Live
<1>10. UNCHANGED areas /\ \A x \in Docs : Live(x) => Live(x)'
  BY <1>4
<1>11. /\ versions' \in Seq(Version) /\ DOMAIN versions \subseteq DOMAIN versions'
       /\ VersionsFit' /\ OneCurrent'
       /\ \A x \in Docs : CurrentOf(x)' = CurrentOf(x)
  BY <1>8, <1>9, <1>10, VersionAdded
<1>12. Types'
  BY <1>3, <1>11 DEF IInv, Types
<1>13. PublishedCurrent'
  <2>1. ASSUME NEW x \in Docs, Live(x)', documents'[x].status = "published"
        PROVE  CurrentOf(x)' # {}
    <3>1. x # d
      BY <1>1, <1>3, <2>1
    <3>2. documents'[x] = documents[x] /\ Live(x)
      BY <1>3, <1>4, <2>1, <3>1
    <3>3. QED
      BY <1>11, <2>1, <3>2 DEF IInv, PublishedCurrent
  <2>2. QED
    BY <2>1 DEF PublishedCurrent
<1>14. WorkersFit'
  BY <1>11, WorkersKept
<1>15. QED
  BY <1>5, <1>11, <1>12, <1>13, <1>14 DEF IInv

\* QueueUpload keeps the invariant.
LEMMA QueueUploadKeeps ==
  ASSUME IInv, NEW u \in uploads, QueueUpload(u)
  PROVE  IInv'
<1>1. /\ Len(versions) < MaxVersions /\ uploads' = uploads \ {u} /\ blobs' = InsertBlob(u)
      /\ UNCHANGED <<areas, files, worker, work>>
  BY DEF QueueUpload
<1>2. uploads' \subseteq Upload /\ work' \in 0..MaxWork
      /\ u.doc \in Docs \cup {None} /\ u.area \in Areas /\ u.parent \in Folders \cup {None}
  BY <1>1 DEF IInv, Types, Upload
<1>3. /\ blobs' \in [Contents -> Keys \cup {None}]
      /\ u.content \in Contents /\ blobs'[u.content] # None
      /\ \A c \in Contents : blobs[c] # None => blobs'[c] # None
  BY <1>1, BlobInserted
<1>4. CASE u.doc = None
  <2>1. PathAllowed(u.area, u.parent) /\ \E x \in Docs : documents[x] = None
    BY <1>4 DEF QueueUpload
  <2>2. PICK d \in Docs : /\ documents[d] = None
                          /\ d = CHOOSE x \in Docs : documents[x] = None
    BY <2>1
  <2>3. PICK f \in EnsureFolderPath(u.area, u.parent, None) :
             /\ folders' = WithFolder(f, u.area, u.parent, None)
             /\ documents' = [documents EXCEPT ![d] = NewDocument(f)]
             /\ versions' = Append(versions, NewVersion(d, 1, u.content))
    BY <1>4, <2>2 DEF QueueUpload
  <2>4. None \in Names \cup {None}
    OBVIOUS
  <2>5. /\ f \in Folders
        /\ folders' \in [Folders -> Folder \cup {None}]
        /\ FoldersFit'
        /\ \A g \in Folders : folders[g] # None \/ g = f => folders'[g] # None
    BY <1>1, <1>2, <2>1, <2>3, <2>4, PathPut
  <2>6. QED
    BY <1>1, <1>2, <1>3, <2>2, <2>3, <2>5, FirstVersionKeeps
<1>5. CASE u.doc # None
  <2>1. u.doc \in Docs /\ Live(u.doc)
    BY <1>2, <1>5 DEF QueueUpload, Editable
  <2>2. versions' = Append(versions, NewVersion(u.doc, NextNumber(u.doc), u.content))
        /\ UNCHANGED <<areas, folders, documents, files, worker>>
    BY <1>1, <1>5 DEF QueueUpload
  <2>3. QED
    BY <1>1, <1>2, <1>3, <2>1, <2>2, NextVersionKeeps
<1>6. QED
  BY <1>4, <1>5

\* Reindex keeps the invariant.
LEMMA ReindexKeeps ==
  ASSUME IInv, NEW d \in Docs, ReindexDocument(d)
  PROVE  IInv'
<1>1. /\ Live(d) /\ Len(versions) < MaxVersions
      /\ UNCHANGED <<areas, folders, documents, blobs, files, uploads, worker>>
      /\ work' \in 0..MaxWork
  BY SpendType DEF ReindexDocument, Editable, Panel
<1>2. PICK i \in CurrentOf(d) :
        /\ versions[i].status = "ready"
        /\ versions' = Append(versions, NewVersion(d, NextNumber(d), versions[i].blob))
  BY DEF ReindexDocument, QueueReindex
<1>3. i \in DOMAIN versions /\ versions[i] # GoneVersion
  BY <1>2 DEF CurrentOf, VersionsOf, GoneVersion
<1>4. versions[i].blob \in Contents /\ blobs[versions[i].blob] # None
  BY <1>3, Facts DEF IInv, VersionsFit, VersionFits
<1>5. PICK c \in Contents : c = versions[i].blob
  BY <1>4
<1>6. versions' = Append(versions, NewVersion(d, NextNumber(d), c)) /\ blobs[c] # None
  BY <1>2, <1>4, <1>5
<1>7. /\ blobs' \in [Contents -> Keys \cup {None}] /\ blobs'[c] # None
      /\ \A b \in Contents : blobs[b] # None => blobs'[b] # None
      /\ uploads' \subseteq Upload
  BY <1>1, <1>6 DEF IInv, Types
<1>8. QED
  BY <1>1, <1>6, <1>7, NextVersionKeeps

-----------------------------------------------------------------------------
(* Operations on a document.                                                *)

\* The chunks of a version that exists are rewritten in place.
LEMMA ChunksStep ==
  ASSUME IInv, NEW i \in DOMAIN versions, versions[i].chunks # None,
         NEW fresh \in ChunkRows, areas[fresh.area] # "absent",
         versions'[i] = [versions[i] EXCEPT !.chunks = fresh]
  PROVE  VersionStep(i)
<1>1. versions[i] \in Version
  BY Facts
<1>2. versions[i] # GoneVersion
  BY DEF GoneVersion
<1>3. HonestVersion(versions[i])
  BY <1>2 DEF IInv, VersionsFit
<1>4. fresh # None
  BY DocumentsAssumption
<1>5. versions'[i] \in Version
  BY <1>1 DEF Version
<1>6. versions'[i].chunks = fresh /\ versions'[i].doc = versions[i].doc
      /\ versions'[i].blob = versions[i].blob /\ versions'[i].current = versions[i].current
      /\ versions'[i].job = versions[i].job /\ versions'[i].status = versions[i].status
  BY <1>1 DEF Version
<1>7. HonestVersion(versions'[i])
  BY <1>3, <1>4, <1>6 DEF HonestVersion
<1>8. QED
  BY <1>2, <1>5, <1>6, <1>7 DEF VersionStep

\* Chunks become retrievable or not where they are.
LEMMA RetrievableStep ==
  ASSUME IInv, NEW i \in DOMAIN versions, versions[i].chunks # None, NEW to \in BOOLEAN,
         versions'[i] = [versions[i] EXCEPT !.chunks.retrievable = to]
  PROVE  VersionStep(i)
<1>1. versions[i].chunks \in ChunkRows
  BY Facts DEF Version
<1>2. PICK r : r = [versions[i].chunks EXCEPT !.retrievable = to]
  OBVIOUS
<1>3. r \in ChunkRows /\ r.area = versions[i].chunks.area
  BY <1>1, <1>2 DEF ChunkRows
<1>4. versions'[i] = [versions[i] EXCEPT !.chunks = r]
  BY <1>2
<1>5. areas[r.area] # "absent"
  BY <1>3, ChunkAreas
<1>6. r \in ChunkRows
  BY <1>3
<1>7. QED
  BY <1>4, <1>5, <1>6, ChunksStep

\* A document whose status, mark of deletion or clock changes.
LEMMA DocumentSet ==
  ASSUME IInv, NEW d \in Docs, Live(d), NEW status \in DocumentStatus, NEW deleted \in BOOLEAN,
         NEW due \in BOOLEAN,
         status = "published" => documents[d].status = "published" \/ CurrentOf(d) # {},
         documents' = [documents EXCEPT ![d].status = status, ![d].deleted = deleted,
                                        ![d].due = due]
  PROVE  /\ documents' = [x \in Docs |-> documents'[x]]
         /\ \A x \in Docs : DocumentStep(x)
<1> DEFINE r == [documents[d] EXCEPT !.status = status, !.deleted = deleted, !.due = due]
<1>1. documents[d] \in Document /\ documents[d].folder \in Folders
  BY Facts
<1>2. r \in Document
  BY <1>1 DEF Document
<1>3. r.folder = documents[d].folder /\ r.status = status
  BY <1>1 DEF Document
<1>4. documents' = [documents EXCEPT ![d] = r]
  OBVIOUS
<1> HIDE DEF r
<1>5. documents' = [x \in Docs |-> documents'[x]] /\ documents'[d] = r
      /\ \A x \in Docs : x # d => documents'[x] = documents[x]
  BY <1>4 DEF IInv, Types
<1>6. folders[documents[d].folder] # None
  BY DEF IInv, DocumentsFit
<1>7. DocumentStep(d)
  BY <1>1, <1>2, <1>3, <1>5, <1>6 DEF DocumentStep
<1>8. QED
  BY <1>5, <1>7 DEF DocumentStep

\* DeleteDocument keeps the invariant.
LEMMA DeleteDocumentKeeps ==
  ASSUME IInv, NEW d \in Docs, DeleteDocument(d)
  PROVE  IInv'
<1>1. /\ Live(d) /\ work' \in 0..MaxWork
      /\ UNCHANGED <<areas, folders, blobs, files, uploads, worker>>
  BY SpendType DEF DeleteDocument, Editable, Panel
<1>2. documents[d] \in Document
  BY <1>1, Facts
<1>3. documents' = [documents EXCEPT ![d].status = "deleted", ![d].deleted = TRUE,
                                     ![d].due = documents[d].due]
  BY <1>2 DEF DeleteDocument, SoftDelete, IInv, Types, Document
<1>4. documents[d].due \in BOOLEAN /\ "deleted" \in DocumentStatus /\ TRUE \in BOOLEAN
  BY <1>2 DEF Document, DocumentStatus
<1>5. /\ documents' = [x \in Docs |-> documents'[x]]
      /\ \A x \in Docs : DocumentStep(x)
  <2>1. PICK s \in DocumentStatus, b \in BOOLEAN, due \in BOOLEAN :
           s = "deleted" /\ b = TRUE /\ due = documents[d].due
    BY <1>4
  <2>2. documents' = [documents EXCEPT ![d].status = s, ![d].deleted = b, ![d].due = due]
        /\ s # "published"
    BY <1>3, <2>1
  <2>3. QED
    BY <1>1, <2>2, DocumentSet
<1>6. versions' = Retrievable(d, FALSE)
  BY DEF DeleteDocument, SoftDelete
<1>7. versions' = [i \in DOMAIN versions |-> versions'[i]]
  BY <1>6 DEF Retrievable
<1>8. \A i \in DOMAIN versions : VersionStep(i)
  <2>1. ASSUME NEW i \in DOMAIN versions PROVE VersionStep(i)
    <3>1. CASE versions[i].doc = d /\ versions[i].chunks # None
      <4>1. versions'[i] = [versions[i] EXCEPT !.chunks.retrievable = FALSE]
        BY <1>6, <3>1 DEF Retrievable
      <4>2. QED
        BY <3>1, <4>1, RetrievableStep
    <3>2. CASE ~(versions[i].doc = d /\ versions[i].chunks # None)
      <4>1. versions'[i] = versions[i]
        BY <1>6, <3>2 DEF Retrievable
      <4>2. QED
        BY <4>1 DEF VersionStep
    <3>3. QED
      BY <3>1, <3>2
  <2>2. QED
    BY <2>1
<1>9. OtherTypes'
  BY <1>1 DEF IInv, Types, OtherTypes
<1>10. WorkersFit'
  BY <1>1, <1>7, WorkersKept
<1>11. QED
  BY <1>1, <1>5, <1>7, <1>8, <1>9, <1>10, EditKeeps

\* RestoreDocument keeps the invariant.
LEMMA RestoreDocumentKeeps ==
  ASSUME IInv, NEW d \in Docs, RestoreDocument(d)
  PROVE  IInv'
<1>1. /\ Live(d) /\ work' \in 0..MaxWork
      /\ UNCHANGED <<areas, folders, blobs, files, uploads, worker>>
  BY SpendType DEF RestoreDocument, Panel
<1>2. documents' = [documents EXCEPT ![d].status = RestoredStatus(d), ![d].deleted = FALSE,
                                     ![d].due = FALSE]
  BY DEF RestoreDocument, Restore
<1>3. PICK s \in DocumentStatus : s = RestoredStatus(d)
  BY DEF RestoredStatus, DocumentStatus
<1>4. s = "published" => CurrentOf(d) # {}
  BY <1>3 DEF RestoredStatus
<1>5. /\ documents' = [x \in Docs |-> documents'[x]]
      /\ \A x \in Docs : DocumentStep(x)
  <2>1. documents' = [documents EXCEPT ![d].status = s, ![d].deleted = FALSE, ![d].due = FALSE]
    BY <1>2, <1>3
  <2>2. FALSE \in BOOLEAN
    OBVIOUS
  <2>3. QED
    BY <1>1, <1>4, <2>1, <2>2, DocumentSet
<1>6. versions' = [i \in DOMAIN versions |->
        IF i \in CurrentOf(d) /\ versions[i].chunks # None
        THEN [versions[i] EXCEPT !.chunks.retrievable = TRUE]
        ELSE versions[i]]
  BY DEF RestoreDocument, Restore
<1>7. versions' = [i \in DOMAIN versions |-> versions'[i]]
  BY <1>6
<1>8. \A i \in DOMAIN versions : VersionStep(i)
  <2>1. ASSUME NEW i \in DOMAIN versions PROVE VersionStep(i)
    <3>1. CASE i \in CurrentOf(d) /\ versions[i].chunks # None
      <4>1. versions'[i] = [versions[i] EXCEPT !.chunks.retrievable = TRUE]
        BY <1>6, <3>1
      <4>2. QED
        BY <3>1, <4>1, RetrievableStep
    <3>2. CASE ~(i \in CurrentOf(d) /\ versions[i].chunks # None)
      <4>1. versions'[i] = versions[i]
        BY <1>6, <3>2
      <4>2. QED
        BY <4>1 DEF VersionStep
    <3>3. QED
      BY <3>1, <3>2
  <2>2. QED
    BY <2>1
<1>9. OtherTypes'
  BY <1>1 DEF IInv, Types, OtherTypes
<1>10. WorkersFit'
  BY <1>1, <1>7, WorkersKept
<1>11. QED
  BY <1>1, <1>5, <1>7, <1>8, <1>9, <1>10, EditKeeps

\* RetentionElapses keeps the invariant.
LEMMA RetentionElapsesKeeps ==
  ASSUME IInv, NEW d \in Docs, RetentionElapses(d)
  PROVE  IInv'
<1>1. /\ Live(d) /\ documents' = [documents EXCEPT ![d].due = TRUE]
      /\ UNCHANGED <<areas, folders, versions, blobs, files, uploads, worker, work>>
  BY DEF RetentionElapses
<1>2. documents[d] \in Document
  BY <1>1, Facts
<1>3. PICK s \in DocumentStatus, b \in BOOLEAN : s = documents[d].status /\ b = documents[d].deleted
  BY <1>2 DEF Document
<1>4. documents' = [documents EXCEPT ![d].status = s, ![d].deleted = b, ![d].due = TRUE]
  BY <1>1, <1>2, <1>3 DEF IInv, Types, Document
<1>5. s = "published" => documents[d].status = "published"
  BY <1>3
<1>6. TRUE \in BOOLEAN
  OBVIOUS
<1>7. /\ documents' = [x \in Docs |-> documents'[x]]
      /\ \A x \in Docs : DocumentStep(x)
  BY <1>1, <1>4, <1>5, <1>6, DocumentSet
<1>8. versions' = [i \in DOMAIN versions |-> versions'[i]] /\ \A i \in DOMAIN versions : VersionStep(i)
  BY <1>1 DEF VersionStep, IInv, Types
<1>9. OtherTypes'
  BY <1>1 DEF IInv, Types, OtherTypes
<1>10. WorkersFit'
  BY <1>1, WorkersKept
<1>11. QED
  BY <1>1, <1>7, <1>8, <1>9, <1>10, EditKeeps

\* UpdateDocument keeps the invariant.
LEMMA UpdateDocumentKeeps ==
  ASSUME IInv, NEW d \in Docs, NEW f \in Folders, UpdateDocument(d, f)
  PROVE  IInv'
<1>1. /\ Live(d) /\ work' \in 0..MaxWork /\ folders[f] # None
      /\ documents' = [documents EXCEPT ![d].folder = f]
      /\ UNCHANGED <<areas, folders, blobs, files, uploads, worker>>
  BY SpendType DEF UpdateDocument, Editable, Panel
<1>2. /\ documents' = [x \in Docs |-> documents'[x]]
      /\ \A x \in Docs : DocumentStep(x)
  <2> DEFINE r == [documents[d] EXCEPT !.folder = f]
  <2>1. documents[d] \in Document
    BY <1>1, Facts
  <2>2. r \in Document /\ r.folder = f /\ r.status = documents[d].status
    BY <2>1 DEF Document
  <2>3. documents' = [documents EXCEPT ![d] = r]
    BY <1>1
  <2> HIDE DEF r
  <2>4. documents' = [x \in Docs |-> documents'[x]] /\ documents'[d] = r
        /\ \A x \in Docs : x # d => documents'[x] = documents[x]
    BY <2>3 DEF IInv, Types
  <2>5. DocumentStep(d)
    BY <1>1, <2>2, <2>4 DEF DocumentStep
  <2>6. QED
    BY <2>4, <2>5 DEF DocumentStep
<1>3. versions' = [i \in DOMAIN versions |->
        IF versions[i].doc = d /\ versions[i].chunks # None
        THEN [versions[i] EXCEPT !.chunks.area = folders[f].area]
        ELSE versions[i]]
  BY DEF UpdateDocument
<1>4. versions' = [i \in DOMAIN versions |-> versions'[i]]
  BY <1>3
<1>5. folders[f].area \in Areas /\ areas[folders[f].area] # "absent"
  BY <1>1, Facts DEF IInv, FoldersFit, Folder
<1>6. PICK a \in Areas : a = folders[f].area
  BY <1>5
<1>7. \A i \in DOMAIN versions : VersionStep(i)
  <2>1. ASSUME NEW i \in DOMAIN versions PROVE VersionStep(i)
    <3>1. CASE versions[i].doc = d /\ versions[i].chunks # None
      <4>1. versions[i].chunks \in ChunkRows
        BY <3>1, Facts DEF Version
      <4>2. PICK r : r = [versions[i].chunks EXCEPT !.area = a]
        OBVIOUS
      <4>3. r \in ChunkRows /\ r.area = a
        BY <4>1, <4>2 DEF ChunkRows
      <4>4. versions'[i] = [versions[i] EXCEPT !.chunks = r]
        BY <1>3, <1>6, <3>1, <4>2
      <4>5. areas[r.area] # "absent" /\ r \in ChunkRows
        BY <1>5, <1>6, <4>3
      <4>6. QED
        BY <3>1, <4>4, <4>5, ChunksStep
    <3>2. CASE ~(versions[i].doc = d /\ versions[i].chunks # None)
      <4>1. versions'[i] = versions[i]
        BY <1>3, <3>2
      <4>2. QED
        BY <4>1 DEF VersionStep
    <3>3. QED
      BY <3>1, <3>2
  <2>2. QED
    BY <2>1
<1>8. OtherTypes'
  BY <1>1 DEF IInv, Types, OtherTypes
<1>9. WorkersFit'
  BY <1>1, <1>4, WorkersKept
<1>10. QED
  BY <1>1, <1>2, <1>4, <1>7, <1>8, <1>9, EditKeeps

-----------------------------------------------------------------------------
(* The ingestion worker.                                                    *)

\* A job moves on: of its version only the status can follow.
JobMoves(v, q) ==
  /\ q \in Version
  /\ q.doc = v.doc /\ q.blob = v.blob /\ q.current = v.current /\ q.chunks = v.chunks
  /\ q.job = "completed" <=> q.status = "ready"
  /\ q.status = "ready" => v.status = "ready"

\* What a change of one job must leave in place.
LEMMA JobStep ==
  ASSUME IInv, NEW i \in DOMAIN versions, versions[i] # GoneVersion, NEW q,
         JobMoves(versions[i], q), versions' = [versions EXCEPT ![i] = q]
  PROVE  /\ versions' = [j \in DOMAIN versions |-> versions'[j]]
         /\ \A j \in DOMAIN versions : VersionStep(j)
<1>1. versions' = [j \in DOMAIN versions |-> versions'[j]] /\ versions'[i] = q
      /\ \A j \in DOMAIN versions : j # i => versions'[j] = versions[j]
  BY DEF IInv, Types
<1>2. HonestVersion(versions[i]) /\ VersionFits(versions[i])
  BY DEF IInv, VersionsFit
<1>3. HonestVersion(q)
  BY <1>2 DEF HonestVersion, JobMoves
<1>4. q.chunks # None => areas[q.chunks.area] # "absent"
  BY <1>2 DEF VersionFits, JobMoves
<1>5. VersionStep(i)
  BY <1>1, <1>3, <1>4 DEF VersionStep, JobMoves
<1>6. QED
  BY <1>1, <1>5 DEF VersionStep

\* A step that moves one job and leaves the documents alone.
LEMMA JobKeeps ==
  ASSUME IInv, NEW i \in DOMAIN versions, versions[i] # GoneVersion, NEW q,
         JobMoves(versions[i], q), versions' = [versions EXCEPT ![i] = q],
         UNCHANGED <<areas, folders, documents, blobs>>, OtherTypes', WorkersFit'
  PROVE  IInv'
<1>1. /\ versions' = [j \in DOMAIN versions |-> versions'[j]]
      /\ \A j \in DOMAIN versions : VersionStep(j)
  BY JobStep
<1>2. documents' = [d \in Docs |-> documents'[d]] /\ \A d \in Docs : DocumentStep(d)
  BY DEF DocumentStep, IInv, Types
<1>3. QED
  BY <1>1, <1>2, EditKeeps

\* BackoffElapses keeps the invariant.
LEMMA BackoffElapsesKeeps ==
  ASSUME IInv, NEW i \in DOMAIN versions, BackoffElapses(i)
  PROVE  IInv'
<1>1. /\ versions[i].wait /\ versions' = [versions EXCEPT ![i].wait = FALSE]
      /\ UNCHANGED <<areas, folders, documents, blobs, files, uploads, worker, work>>
  BY DEF BackoffElapses
<1>2. versions[i] # GoneVersion
  BY <1>1 DEF GoneVersion
<1>3. PICK q : q = [versions[i] EXCEPT !.wait = FALSE]
  OBVIOUS
<1>4. versions[i] \in Version /\ HonestVersion(versions[i])
  BY <1>2, Facts DEF IInv, VersionsFit
<1>5. JobMoves(versions[i], q)
  BY <1>3, <1>4 DEF Version, JobMoves, HonestVersion
<1>6. versions' = [versions EXCEPT ![i] = q]
  BY <1>1, <1>3
<1>7. DOMAIN versions' = DOMAIN versions
  BY <1>6
<1>8. OtherTypes'
  BY <1>1 DEF IInv, Types, OtherTypes
<1>9. WorkersFit'
  BY <1>1, <1>7, WorkersKept
<1>10. QED
  BY <1>1, <1>2, <1>5, <1>6, <1>8, <1>9, JobKeeps

\* LockExpires keeps the invariant.
LEMMA LockExpiresKeeps ==
  ASSUME IInv, NEW i \in DOMAIN versions, LockExpires(i)
  PROVE  IInv'
<1>1. /\ versions[i].job = "processing" /\ versions' = [versions EXCEPT ![i].lock = "stale"]
      /\ UNCHANGED <<areas, folders, documents, blobs, files, uploads, worker>>
  BY DEF LockExpires
<1>2. versions[i] # GoneVersion
  BY <1>1 DEF GoneVersion
<1>3. PICK q : q = [versions[i] EXCEPT !.lock = "stale"]
  OBVIOUS
<1>4. versions[i] \in Version /\ HonestVersion(versions[i])
  BY <1>2, Facts DEF IInv, VersionsFit
<1>5. JobMoves(versions[i], q)
  BY <1>3, <1>4 DEF Version, JobMoves, HonestVersion
<1>6. versions' = [versions EXCEPT ![i] = q]
  BY <1>1, <1>3
<1>7. DOMAIN versions' = DOMAIN versions
  BY <1>6
<1>8. work' \in 0..MaxWork
  <2>1. work' = work \/ Spend(1)
    BY DEF LockExpires
  <2>2. QED
    BY <2>1, SpendType DEF IInv, Types
<1>9. OtherTypes'
  BY <1>1, <1>8 DEF IInv, Types, OtherTypes
<1>10. WorkersFit'
  BY <1>1, <1>7, WorkersKept
<1>11. QED
  BY <1>1, <1>2, <1>5, <1>6, <1>9, <1>10, JobKeeps

\* What WorkersFit asks of the worker's new record.
RecordFits(r) ==
  /\ r \in Worker
  /\ r.stage \in {"claimed", "extracting", "embedding"} => r.job \in DOMAIN versions
  /\ r.stage \in {"extracting", "embedding"} =>
       /\ r.copy \in Copy
       /\ r.copy.job = "completed" <=> r.copy.version = "ready"

\* What a change of one worker must leave in place.
LEMMA WorkerStep ==
  ASSUME IInv, NEW w \in Workers, NEW r, RecordFits(r), worker' = [worker EXCEPT ![w] = r],
         DOMAIN versions \subseteq DOMAIN versions'
  PROVE  worker' \in [Workers -> Worker] /\ WorkersFit'
<1>1. worker' \in [Workers -> Worker] /\ worker'[w] = r
      /\ \A x \in Workers : x # w => worker'[x] = worker[x]
  BY DEF IInv, Types, RecordFits
<1>2. WorkersFit'
  <2>1. ASSUME NEW x \in Workers PROVE WorkerFits(x)'
    <3>1. CASE x = w
      BY <1>1, <3>1 DEF RecordFits, WorkerFits
    <3>2. CASE x # w
      BY <1>1, <3>2 DEF IInv, WorkersFit, WorkerFits
    <3>3. QED
      BY <3>1, <3>2
  <2>2. QED
    BY <2>1 DEF WorkersFit
<1>3. QED
  BY <1>1, <1>2

\* An idle worker holds nothing, so it fits any rows.
LEMMA IdleFits == RecordFits(Idle)
BY DEF RecordFits, Idle, Worker

\* Crash keeps the invariant.
LEMMA CrashKeeps ==
  ASSUME IInv, NEW w \in Workers, Crash(w)
  PROVE  IInv'
<1>1. worker' = [worker EXCEPT ![w] = Idle] /\ UNCHANGED <<rows, files, uploads>>
      /\ work' \in 0..MaxWork
  BY SpendType DEF Crash
<1>2. UNCHANGED <<areas, folders, documents, versions, blobs>>
  BY <1>1 DEF rows
<1>3. worker' \in [Workers -> Worker] /\ WorkersFit'
  BY <1>1, <1>2, IdleFits, WorkerStep
<1>4. Types'
  BY <1>1, <1>2, <1>3 DEF IInv, Types
<1>5. QED
  BY <1>1, <1>3, <1>4, RowsKept

\* FileAges keeps the invariant.
LEMMA FileAgesKeeps ==
  ASSUME IInv, NEW k \in Keys, FileAges(k)
  PROVE  IInv'
<1>1. files' = [files EXCEPT ![k] = "old"] /\ UNCHANGED <<rows, uploads, worker, work>>
  BY DEF FileAges
<1>2. UNCHANGED <<areas, folders, documents, versions, blobs>>
  BY <1>1 DEF rows
<1>3. Types'
  BY <1>1, <1>2 DEF IInv, Types
<1>4. WorkersFit'
  BY <1>1, <1>2, WorkersKept
<1>5. QED
  BY <1>1, <1>3, <1>4, RowsKept

\* ClaimJob keeps the invariant.
LEMMA ClaimJobKeeps ==
  ASSUME IInv, NEW w \in Workers, ClaimJob(w)
  PROVE  IInv'
<1>1. PICK i \in DOMAIN versions :
        /\ Claimable(i) /\ versions[i].attempts < AttemptCap
        /\ versions' = [versions EXCEPT ![i].job = "processing",
                          ![i].attempts = @ + 1, ![i].lock = "fresh"]
        /\ worker' = [worker EXCEPT ![w].stage = "claimed", ![w].job = i]
  BY DEF ClaimJob
<1>2. UNCHANGED <<areas, folders, documents, blobs, files, uploads, work>>
  BY DEF ClaimJob
<1>3. versions[i] # GoneVersion /\ versions[i].job \in {"queued", "processing"}
  BY <1>1 DEF Claimable
<1>4. versions[i] \in Version /\ HonestVersion(versions[i])
  BY <1>3, Facts DEF IInv, VersionsFit
<1>5. versions[i].status # "ready"
  BY <1>3, <1>4 DEF HonestVersion
<1>6. PICK n \in 0..AttemptCap : n = versions[i].attempts + 1
  <2>1. versions[i].attempts \in 0..AttemptCap
    BY <1>4 DEF Version
  <2>2. QED
    BY <1>1, <2>1, DocumentsAssumption
<1>7. PICK q : q = [versions[i] EXCEPT !.job = "processing", !.attempts = n, !.lock = "fresh"]
  OBVIOUS
<1>8. q \in Version
  BY <1>4, <1>7 DEF Version, JobStatus
<1>9. JobMoves(versions[i], q)
  BY <1>4, <1>5, <1>7, <1>8 DEF Version, JobMoves
<1>10. versions' = [versions EXCEPT ![i] = q]
  BY <1>1, <1>6, <1>7
<1>11. DOMAIN versions' = DOMAIN versions
  BY <1>10
<1>12. i \in Nat
  BY DEF IInv, Types
<1>13. PICK r : r = [worker[w] EXCEPT !.stage = "claimed", !.job = i]
  OBVIOUS
<1>14. worker[w] \in Worker
  BY DEF IInv, Types
<1>15. r \in Worker /\ r.stage = "claimed" /\ r.job = i
  BY <1>12, <1>13, <1>14 DEF Worker
<1>16. RecordFits(r)
  BY <1>15 DEF RecordFits
<1>17. worker' = [worker EXCEPT ![w] = r]
  BY <1>1, <1>13
<1>18. worker' \in [Workers -> Worker] /\ WorkersFit'
  BY <1>11, <1>16, <1>17, WorkerStep
<1>19. OtherTypes'
  BY <1>2, <1>18 DEF IInv, Types, OtherTypes
<1>20. QED
  BY <1>2, <1>3, <1>9, <1>10, <1>18, <1>19, JobKeeps

\* The version and the document a worker holds.
LEMMA HeldFacts ==
  ASSUME IInv, NEW w \in Workers, worker[w].stage \in {"claimed", "extracting", "embedding"}
  PROVE  /\ JobOf(w) \in DOMAIN versions /\ JobOf(w) \in Nat
         /\ Held(w) # GoneVersion =>
              /\ Held(w) \in Version /\ HonestVersion(Held(w)) /\ VersionFits(Held(w))
              /\ Held(w).doc \in Docs /\ Live(Held(w).doc)
<1>1. JobOf(w) \in DOMAIN versions /\ JobOf(w) \in Nat
  BY DEF JobOf, IInv, WorkersFit, WorkerFits, Types, Worker
<1>2. Held(w) # GoneVersion =>
        Held(w) \in Version /\ HonestVersion(Held(w)) /\ VersionFits(Held(w))
        /\ Held(w).doc \in Docs
  BY <1>1, Facts DEF Held, IInv, VersionsFit
<1>3. QED
  BY <1>1, <1>2 DEF VersionFits

\* The progress commits refresh the lock.
LEMMA LockKeeps ==
  ASSUME IInv, NEW w \in Workers, worker[w].stage \in {"claimed", "extracting", "embedding"},
         Held(w) # GoneVersion, versions' = [versions EXCEPT ![JobOf(w)].lock = "fresh"],
         NEW r, RecordFits(r), worker' = [worker EXCEPT ![w] = r],
         UNCHANGED <<areas, folders, documents, blobs, files, uploads, work>>
  PROVE  IInv'
<1>1. PICK i \in DOMAIN versions : i = JobOf(w)
  BY HeldFacts
<1>2. versions[i] # GoneVersion /\ versions[i] \in Version /\ HonestVersion(versions[i])
  BY <1>1, HeldFacts DEF Held
<1>3. PICK q : q = [versions[i] EXCEPT !.lock = "fresh"]
  OBVIOUS
<1>4. JobMoves(versions[i], q)
  BY <1>2, <1>3 DEF Version, JobMoves, HonestVersion
<1>5. versions' = [versions EXCEPT ![i] = q]
  BY <1>1, <1>3
<1>6. DOMAIN versions' = DOMAIN versions
  BY <1>5
<1>7. worker' \in [Workers -> Worker] /\ WorkersFit'
  BY <1>6, WorkerStep
<1>8. OtherTypes'
  BY <1>7 DEF IInv, Types, OtherTypes
<1>9. QED
  BY <1>2, <1>4, <1>5, <1>7, <1>8, JobKeeps

\* LoadContext keeps the invariant.
LEMMA LoadContextKeeps ==
  ASSUME IInv, NEW w \in Workers, LoadContext(w)
  PROVE  IInv'
<1> DEFINE d == Held(w).doc
<1>1. /\ worker[w].stage \in {"claimed", "extracting", "embedding"} /\ Held(w) # GoneVersion
      /\ versions' = [versions EXCEPT ![JobOf(w)].lock = "fresh"]
      /\ UNCHANGED <<areas, folders, documents, blobs, files, uploads, work>>
  BY DEF LoadContext
<1>2. /\ JobOf(w) \in DOMAIN versions /\ JobOf(w) \in Nat
      /\ Held(w) \in Version /\ HonestVersion(Held(w))
      /\ d \in Docs /\ Live(d)
  BY <1>1, HeldFacts
<1>3. documents[d] \in Document /\ documents[d].folder \in Folders
  BY <1>2, Facts
<1>4. folders[documents[d].folder] \in Folder
  BY <1>2, <1>3, Facts DEF IInv, DocumentsFit
<1>5. PICK copy : copy = [deleted |-> documents[d].deleted, status |-> documents[d].status,
                          version |-> Held(w).status, job |-> Held(w).job,
                          area |-> folders[documents[d].folder].area]
  OBVIOUS
<1>6. worker' = [worker EXCEPT ![w].stage = "extracting", ![w].copy = copy]
  BY <1>5 DEF LoadContext
<1>7. documents[d].deleted \in BOOLEAN /\ documents[d].status \in DocumentStatus
      /\ folders[documents[d].folder].area \in Areas
  BY <1>3, <1>4 DEF Document, Folder
<1>8. Held(w).status \in VersionStatus /\ Held(w).job \in JobStatus
  BY <1>2 DEF Version
<1> HIDE DEF d
<1>9. copy \in Copy /\ copy.job = Held(w).job /\ copy.version = Held(w).status
  BY <1>5, <1>7, <1>8 DEF Copy
<1>10. copy.job = "completed" <=> copy.version = "ready"
  BY <1>2, <1>9 DEF HonestVersion
<1>11. PICK r : r = [worker[w] EXCEPT !.stage = "extracting", !.copy = copy]
  OBVIOUS
<1>12. worker[w] \in Worker
  BY DEF IInv, Types
<1>13. r \in Worker
  BY <1>9, <1>11, <1>12 DEF Worker
<1>14. r.job = JobOf(w) /\ r.copy = copy /\ r.stage = "extracting"
  BY <1>11, <1>12 DEF Worker, JobOf
<1>15. RecordFits(r)
  BY <1>2, <1>9, <1>10, <1>13, <1>14 DEF RecordFits
<1>16. worker' = [worker EXCEPT ![w] = r]
  BY <1>6, <1>11
<1>17. QED
  BY <1>1, <1>15, <1>16, LockKeeps

\* Extraction changes its worker only, and keeps the invariant.
LEMMA ExtractedKeeps ==
  ASSUME IInv, NEW w \in Workers, Extracted(w)
  PROVE  IInv'
<1>1. /\ worker[w].stage = "extracting" /\ Held(w) # GoneVersion
      /\ versions' = [versions EXCEPT ![JobOf(w)].lock = "fresh"]
      /\ worker' = [worker EXCEPT ![w].stage = "embedding"]
      /\ UNCHANGED <<areas, folders, documents, blobs, files, uploads, work>>
  BY DEF Extracted
<1>2. PICK r : r = [worker[w] EXCEPT !.stage = "embedding"]
  OBVIOUS
<1>3. worker[w] \in Worker
  BY DEF IInv, Types
<1>4. r \in Worker /\ r.job = worker[w].job /\ r.copy = worker[w].copy
  BY <1>2, <1>3 DEF Worker
<1>5. RecordFits(r)
  BY <1>1, <1>4 DEF RecordFits, IInv, WorkersFit, WorkerFits
<1>6. worker' = [worker EXCEPT ![w] = r]
  BY <1>1, <1>2
<1>7. worker[w].stage \in {"claimed", "extracting", "embedding"}
  BY <1>1
<1>8. QED
  BY <1>1, <1>5, <1>6, <1>7, LockKeeps

\* Retry or give up: a version that is no longer ready.
LEMMA FailureMoves ==
  ASSUME NEW v \in Version
  PROVE  JobMoves(v, AfterFailure(v))
<1>1. PICK a \in {"queued", "failed"}, b \in BOOLEAN :
        AfterFailure(v) = [v EXCEPT !.job = a, !.lock = "none", !.wait = b, !.status = a]
  <2>1. v.wait \in BOOLEAN
    BY DEF Version
  <2>2. CASE v.attempts < MaxAttempts
    BY <2>2 DEF AfterFailure
  <2>3. CASE ~(v.attempts < MaxAttempts)
    <3>1. AfterFailure(v) = [v EXCEPT !.job = "failed", !.lock = "none", !.status = "failed"]
      BY <2>3 DEF AfterFailure
    <3>2. AfterFailure(v) = [v EXCEPT !.job = "failed", !.lock = "none", !.wait = v.wait,
                                      !.status = "failed"]
      BY <3>1 DEF Version
    <3>3. QED
      BY <2>1, <3>2
  <2>4. QED
    BY <2>2, <2>3
<1>2. a \in VersionStatus /\ a \in JobStatus /\ a # "ready" /\ a # "completed"
  BY DEF VersionStatus, JobStatus
<1>3. AfterFailure(v) \in Version
  BY <1>1, <1>2 DEF Version
<1>4. AfterFailure(v).doc = v.doc /\ AfterFailure(v).blob = v.blob
      /\ AfterFailure(v).current = v.current /\ AfterFailure(v).chunks = v.chunks
      /\ AfterFailure(v).job = a /\ AfterFailure(v).status = a
  BY <1>1 DEF Version
<1>5. QED
  BY <1>2, <1>3, <1>4 DEF JobMoves

\* PersistFailure keeps the invariant.
LEMMA PersistFailureKeeps ==
  ASSUME IInv, NEW w \in Workers, PersistFailure(w)
  PROVE  IInv'
<1>1. /\ worker[w].stage \in {"claimed", "extracting", "embedding"}
      /\ worker' = [worker EXCEPT ![w] = Idle]
      /\ UNCHANGED <<areas, folders, blobs, files, uploads, work>>
  BY DEF PersistFailure
<1>2. CASE Held(w) = GoneVersion
  <2>1. UNCHANGED <<versions, documents>>
    BY <1>2 DEF PersistFailure
  <2>2. worker' \in [Workers -> Worker] /\ WorkersFit'
    BY <1>1, <2>1, IdleFits, WorkerStep
  <2>3. Types' /\ UNCHANGED rows
    BY <1>1, <2>1, <2>2 DEF IInv, Types, rows
  <2>4. QED
    BY <2>2, <2>3, RowsKept
<1>3. CASE Held(w) # GoneVersion
  <2>1. PICK i \in DOMAIN versions : i = JobOf(w)
    BY <1>1, HeldFacts
  <2>2. versions[i] # GoneVersion /\ versions[i] \in Version
        /\ versions[i].doc \in Docs /\ Live(versions[i].doc)
    BY <1>1, <1>3, <2>1, HeldFacts DEF Held
  <2>3. PICK d \in Docs : d = versions[i].doc
    BY <2>2
  <2>4. versions' = [versions EXCEPT ![i] = AfterFailure(versions[i])]
    BY <1>3, <2>1 DEF PersistFailure
  <2>5. PICK q : q = AfterFailure(versions[i])
    OBVIOUS
  <2>6. JobMoves(versions[i], q)
    BY <2>2, <2>5, FailureMoves
  <2>7. versions' = [versions EXCEPT ![i] = q]
    BY <2>4, <2>5
  <2>8. /\ versions' = [j \in DOMAIN versions |-> versions'[j]]
        /\ \A j \in DOMAIN versions : VersionStep(j)
    BY <2>2, <2>6, <2>7, JobStep
  <2>9. documents' = documents \/ documents' = [documents EXCEPT ![d].status = "failed"]
    BY <1>3, <2>1, <2>3 DEF PersistFailure, Held
  <2>10. /\ documents' = [x \in Docs |-> documents'[x]]
         /\ \A x \in Docs : DocumentStep(x)
    <3>1. CASE documents' = documents
      BY <3>1 DEF DocumentStep, IInv, Types
    <3>2. CASE documents' = [documents EXCEPT ![d].status = "failed"]
      <4>1. Live(d) /\ documents[d] \in Document
        BY <2>2, <2>3, Facts
      <4>2. PICK s \in DocumentStatus, b \in BOOLEAN, due \in BOOLEAN :
               s = "failed" /\ b = documents[d].deleted /\ due = documents[d].due
        BY <4>1 DEF Document, DocumentStatus
      <4>3. documents' = [documents EXCEPT ![d].status = s, ![d].deleted = b, ![d].due = due]
            /\ s # "published"
        BY <3>2, <4>1, <4>2 DEF Document, IInv, Types
      <4>4. QED
        BY <4>1, <4>3, DocumentSet
    <3>3. QED
      BY <2>9, <3>1, <3>2
  <2>11. worker' \in [Workers -> Worker] /\ WorkersFit'
    BY <1>1, <2>8, IdleFits, WorkerStep
  <2>12. OtherTypes'
    BY <1>1, <2>11 DEF IInv, Types, OtherTypes
  <2>13. QED
    BY <1>1, <2>8, <2>10, <2>11, <2>12, EditKeeps
<1>4. QED
  BY <1>2, <1>3

\* The version that is published, and what becomes of a sibling.
Published(v, copy) ==
  [v EXCEPT !.status = Flush(@, copy.version, "ready"),
            !.current = TRUE,
            !.chunks = [area |-> copy.area, retrievable |-> ~copy.deleted],
            !.job = Flush(@, copy.job, "completed"),
            !.lock = "none"]
Superseded(v) ==
  [v EXCEPT !.current = FALSE,
            !.chunks = IF @ = None THEN None ELSE [@ EXCEPT !.retrievable = FALSE]]

\* The version a worker publishes is an honest row.
LEMMA PublishedFits ==
  ASSUME NEW v \in Version, HonestVersion(v), NEW copy \in Copy,
         copy.job = "completed" <=> copy.version = "ready"
  PROVE  /\ Published(v, copy) \in Version
         /\ HonestVersion(Published(v, copy))
         /\ Published(v, copy).doc = v.doc /\ Published(v, copy).blob = v.blob
         /\ Published(v, copy).current = TRUE
         /\ Published(v, copy).chunks # None /\ Published(v, copy).chunks.area = copy.area
<1>1. PICK c : c = [area |-> copy.area, retrievable |-> ~copy.deleted]
  OBVIOUS
<1>2. c \in ChunkRows /\ c.area = copy.area
  BY <1>1 DEF ChunkRows, Copy
<1>3. c # None
  BY <1>2, DocumentsAssumption
<1>4. PICK s \in VersionStatus, j \in JobStatus :
        /\ s = Flush(v.status, copy.version, "ready")
        /\ j = Flush(v.job, copy.job, "completed")
  <2>1. v.status \in VersionStatus /\ v.job \in JobStatus
    BY DEF Version
  <2>2. QED
    BY <2>1 DEF Flush, VersionStatus, JobStatus
<1>5. Published(v, copy) =
        [v EXCEPT !.status = s, !.current = TRUE, !.chunks = c, !.job = j, !.lock = "none"]
  BY <1>1, <1>4 DEF Published
<1>6. Published(v, copy) \in Version
  BY <1>2, <1>5 DEF Version
<1>7. Published(v, copy).doc = v.doc /\ Published(v, copy).blob = v.blob
      /\ Published(v, copy).current = TRUE /\ Published(v, copy).chunks = c
      /\ Published(v, copy).status = s /\ Published(v, copy).job = j
  BY <1>5 DEF Version
<1>8. j = "completed" <=> s = "ready"
  BY <1>4 DEF Flush, HonestVersion
<1>9. HonestVersion(Published(v, copy))
  BY <1>3, <1>7, <1>8 DEF HonestVersion
<1>10. QED
  BY <1>2, <1>3, <1>6, <1>7, <1>9

\* The version replaced is an honest row.
LEMMA SupersededFits ==
  ASSUME NEW v \in Version, HonestVersion(v)
  PROVE  /\ Superseded(v) \in Version
         /\ HonestVersion(Superseded(v))
         /\ Superseded(v).doc = v.doc /\ Superseded(v).blob = v.blob
         /\ Superseded(v).current = FALSE
         /\ Superseded(v).chunks # None =>
              v.chunks # None /\ Superseded(v).chunks.area = v.chunks.area
<1>1. PICK c : c = IF v.chunks = None THEN None ELSE [v.chunks EXCEPT !.retrievable = FALSE]
  OBVIOUS
<1>2. Superseded(v) = [v EXCEPT !.current = FALSE, !.chunks = c]
  BY <1>1 DEF Superseded
<1>3. v.chunks \in ChunkRows \cup {None}
  BY DEF Version
<1>4. CASE v.chunks = None
  <2>1. c = None
    BY <1>1, <1>4
  <2>2. Superseded(v) \in Version
    BY <1>2, <2>1 DEF Version
  <2>3. Superseded(v).doc = v.doc /\ Superseded(v).blob = v.blob
        /\ Superseded(v).current = FALSE /\ Superseded(v).chunks = None
        /\ Superseded(v).status = v.status /\ Superseded(v).job = v.job
    BY <1>2, <2>1 DEF Version
  <2>4. QED
    BY <1>4, <2>2, <2>3 DEF HonestVersion
<1>5. CASE v.chunks # None
  <2>1. c \in ChunkRows /\ c.area = v.chunks.area
    BY <1>1, <1>3, <1>5 DEF ChunkRows
  <2>2. c # None
    BY <2>1, DocumentsAssumption
  <2>3. Superseded(v) \in Version
    BY <1>2, <2>1 DEF Version
  <2>4. Superseded(v).doc = v.doc /\ Superseded(v).blob = v.blob
        /\ Superseded(v).current = FALSE /\ Superseded(v).chunks = c
        /\ Superseded(v).status = v.status /\ Superseded(v).job = v.job
    BY <1>2 DEF Version
  <2>5. QED
    BY <1>5, <2>1, <2>2, <2>3, <2>4 DEF HonestVersion
<1>6. QED
  BY <1>4, <1>5

\* Publication moves the mark of the current version.
LEMMA PublishKeeps ==
  ASSUME IInv, NEW i \in DOMAIN versions, versions[i] # GoneVersion, NEW copy \in Copy,
         copy.job = "completed" <=> copy.version = "ready",
         areas[copy.area] # "absent", versions' = PublishVersions(i, copy),
         UNCHANGED <<areas, blobs>>, \A d \in Docs : Live(d)' <=> Live(d)
  PROVE  /\ versions' \in Seq(Version) /\ DOMAIN versions' = DOMAIN versions
         /\ VersionsFit' /\ OneCurrent'
         /\ i \in CurrentOf(versions[i].doc)'
         /\ \A d \in Docs : d # versions[i].doc => CurrentOf(d)' = CurrentOf(d)
<1>1. PICK d \in Docs : d = versions[i].doc
  BY Facts
<1>2. DOMAIN versions' = DOMAIN versions /\ versions' = [j \in DOMAIN versions |-> versions'[j]]
  BY DEF PublishVersions
<1>3. versions'[i] = Published(versions[i], copy)
  BY DEF PublishVersions, Published
<1>4. ASSUME NEW j \in DOMAIN versions, j # i, versions[j].doc = d
      PROVE  versions'[j] = Superseded(versions[j])
  BY <1>1, <1>4 DEF PublishVersions, Superseded
<1>5. ASSUME NEW j \in DOMAIN versions, versions[j].doc # d
      PROVE  versions'[j] = versions[j] /\ j # i
  BY <1>1, <1>5 DEF PublishVersions
<1>6. /\ versions'[i] \in Version /\ HonestVersion(versions[i])'
      /\ versions'[i].doc = d /\ versions'[i].blob = versions[i].blob
      /\ versions'[i].current
      /\ versions'[i].chunks # None /\ versions'[i].chunks.area = copy.area
  <2>1. versions[i] \in Version /\ HonestVersion(versions[i])
    BY Facts DEF IInv, VersionsFit
  <2>2. PICK v \in Version : v = versions[i] /\ HonestVersion(v)
    BY <2>1
  <2>3. versions'[i] = Published(v, copy)
    BY <1>3, <2>2
  <2>4. /\ Published(v, copy) \in Version
        /\ HonestVersion(Published(v, copy))
        /\ Published(v, copy).doc = v.doc /\ Published(v, copy).blob = v.blob
        /\ Published(v, copy).current = TRUE
        /\ Published(v, copy).chunks # None /\ Published(v, copy).chunks.area = copy.area
    BY <2>2, PublishedFits
  <2>5. HonestVersion(versions[i])'
    BY <2>3, <2>4 DEF HonestVersion
  <2>6. QED
    BY <1>1, <2>2, <2>3, <2>4, <2>5
<1>7. ASSUME NEW j \in DOMAIN versions, j # i, versions[j].doc = d
      PROVE  /\ versions'[j] \in Version /\ HonestVersion(versions[j])'
             /\ versions'[j].doc = d /\ versions'[j].blob = versions[j].blob
             /\ ~versions'[j].current
             /\ versions'[j].chunks # None =>
                  versions[j].chunks # None /\ versions'[j].chunks.area = versions[j].chunks.area
  <2>1. versions[j] # GoneVersion
    BY <1>7, DocumentsAssumption DEF GoneVersion
  <2>2. versions[j] \in Version /\ HonestVersion(versions[j])
    BY <2>1, Facts DEF IInv, VersionsFit
  <2>3. PICK v \in Version : v = versions[j] /\ HonestVersion(v)
    BY <2>2
  <2>4. versions'[j] = Superseded(v)
    BY <1>4, <1>7, <2>3
  <2>5. /\ Superseded(v) \in Version
        /\ HonestVersion(Superseded(v))
        /\ Superseded(v).doc = v.doc /\ Superseded(v).blob = v.blob
        /\ Superseded(v).current = FALSE
        /\ Superseded(v).chunks # None =>
             v.chunks # None /\ Superseded(v).chunks.area = v.chunks.area
    BY <2>3, SupersededFits
  <2>6. HonestVersion(versions[j])'
    BY <2>4, <2>5 DEF HonestVersion
  <2>7. QED
    BY <1>7, <2>3, <2>4, <2>5, <2>6
<1>8. \A j \in DOMAIN versions :
        /\ versions'[j] \in Version /\ versions'[j].doc = versions[j].doc
        /\ versions'[j].current => j = i \/ (versions[j].doc # d /\ versions[j].current)
  BY <1>1, <1>5, <1>6, <1>7, Facts
<1>9. versions' \in Seq(Version)
  <2>1. versions \in Seq(Version) /\ \A j \in DOMAIN versions : versions'[j] \in Version
    BY <1>8 DEF IInv, Types
  <2>2. QED
    BY <1>2, <2>1, Mapped
<1>10. OneCurrent'
  BY <1>1, <1>2, <1>8 DEF IInv, OneCurrent
<1>11. i \in CurrentOf(versions[i].doc)'
  BY <1>1, <1>2, <1>6 DEF CurrentOf, VersionsOf
<1>12. ASSUME NEW x \in Docs, x # d PROVE CurrentOf(x)' = CurrentOf(x)
  BY <1>2, <1>5, <1>8, <1>12 DEF CurrentOf, VersionsOf
<1>13. ASSUME NEW j \in DOMAIN versions, versions'[j] # GoneVersion
       PROVE  VersionFits(versions[j])' /\ HonestVersion(versions[j])'
  <2>1. versions[j] # GoneVersion
    <3>1. CASE versions[j].doc = d
      BY <3>1, DocumentsAssumption DEF GoneVersion
    <3>2. CASE versions[j].doc # d
      BY <1>5, <1>13, <3>2
    <3>3. QED
      BY <3>1, <3>2
  <2>2. VersionFits(versions[j]) /\ HonestVersion(versions[j]) /\ versions[j].doc \in Docs
    BY <2>1, Facts DEF IInv, VersionsFit
  <2>3. Live(versions[j].doc)'
    BY <1>8, <2>2 DEF VersionFits, Live
  <2>4. CASE j = i
    BY <1>1, <1>6, <2>2, <2>3, <2>4 DEF VersionFits, HonestVersion, Live
  <2>5. CASE j # i /\ versions[j].doc = d
    BY <1>7, <2>2, <2>3, <2>5 DEF VersionFits
  <2>6. CASE versions[j].doc # d
    BY <1>5, <2>2, <2>3, <2>6 DEF VersionFits, HonestVersion
  <2>7. QED
    BY <2>4, <2>5, <2>6
<1>14. VersionsFit'
  BY <1>2, <1>13 DEF VersionsFit
<1>15. QED
  BY <1>1, <1>2, <1>9, <1>10, <1>11, <1>12, <1>14

\* PersistSuccess keeps the invariant.
LEMMA PersistSuccessKeeps ==
  ASSUME IInv, NEW w \in Workers, PersistSuccess(w)
  PROVE  IInv'
<1>1. /\ worker[w].stage = "embedding" /\ Held(w) # GoneVersion
      /\ AreaRemains(worker[w].copy)
      /\ versions' = PublishVersions(JobOf(w), worker[w].copy)
      /\ documents' = [documents EXCEPT ![Held(w).doc].status =
           Flush(@, worker[w].copy.status,
                 IF worker[w].copy.deleted THEN "deleted" ELSE "published")]
      /\ worker' = [worker EXCEPT ![w] = Idle]
      /\ UNCHANGED <<areas, folders, blobs, files, uploads, work>>
  BY DEF PersistSuccess
<1>2. PICK copy \in Copy : /\ copy = worker[w].copy
                           /\ copy.job = "completed" <=> copy.version = "ready"
                           /\ areas[copy.area] # "absent"
  BY <1>1 DEF IInv, WorkersFit, WorkerFits, AreaRemains
<1>3. PICK i \in DOMAIN versions : i = JobOf(w)
  BY <1>1, HeldFacts
<1>4. versions[i] # GoneVersion /\ versions[i].doc \in Docs /\ Live(versions[i].doc)
  BY <1>1, <1>3, HeldFacts DEF Held
<1>5. PICK d \in Docs : d = versions[i].doc
  BY <1>4
<1>6. documents[d] \in Document /\ documents[d].folder \in Folders
      /\ folders[documents[d].folder] # None /\ Live(d)
  BY <1>4, <1>5, Facts DEF IInv, DocumentsFit
<1>7. PICK s \in DocumentStatus :
        s = Flush(documents[d].status, copy.status,
                  IF copy.deleted THEN "deleted" ELSE "published")
  BY <1>6 DEF Flush, Document, DocumentStatus
<1>8. documents' = [documents EXCEPT ![d].status = s]
  BY <1>1, <1>2, <1>3, <1>5, <1>7 DEF Held
<1>9. PICK r : r = [documents[d] EXCEPT !.status = s]
  OBVIOUS
<1>10. r \in Document /\ r.folder = documents[d].folder
  BY <1>6, <1>9 DEF Document
<1>11. documents' = [x \in Docs |-> documents'[x]] /\ documents'[d] = r
       /\ \A x \in Docs : x # d => documents'[x] = documents[x]
  BY <1>8, <1>9 DEF IInv, Types
<1>12. \A x \in Docs : DocumentPlaced(x)
  BY <1>6, <1>10, <1>11 DEF DocumentPlaced
<1>13. /\ documents' \in [Docs -> Document \cup {None}] /\ DocumentsFit'
       /\ \A x \in Docs : Live(x)' <=> Live(x)
  BY <1>1, <1>11, <1>12, DocumentsStep
<1>14. versions' = PublishVersions(i, copy) /\ UNCHANGED <<areas, blobs>>
  BY <1>1, <1>2, <1>3
<1>15. /\ versions' \in Seq(Version) /\ DOMAIN versions' = DOMAIN versions
       /\ VersionsFit' /\ OneCurrent'
       /\ i \in CurrentOf(versions[i].doc)'
       /\ \A x \in Docs : x # versions[i].doc => CurrentOf(x)' = CurrentOf(x)
  BY <1>2, <1>4, <1>13, <1>14, PublishKeeps
<1>16. CurrentOf(d)' # {}
  <2>1. versions'[i].doc = d /\ versions'[i].current /\ i \in DOMAIN versions'
    BY <1>14, <1>15, <1>5, Facts DEF PublishVersions, Version
  <2>2. QED
    BY <2>1 DEF CurrentOf, VersionsOf
<1>17. PublishedCurrent'
  <2>1. ASSUME NEW x \in Docs, x # d, Live(x)', documents'[x].status = "published"
        PROVE  CurrentOf(x)' # {}
    BY <1>5, <1>11, <1>13, <1>15, <2>1 DEF IInv, PublishedCurrent
  <2>2. QED
    BY <1>16, <2>1 DEF PublishedCurrent
<1>18. worker' \in [Workers -> Worker] /\ WorkersFit'
  BY <1>1, <1>15, IdleFits, WorkerStep
<1>19. Types'
  BY <1>1, <1>13, <1>15, <1>18 DEF IInv, Types
<1>20. FoldersFit'
  BY <1>1 DEF IInv, FoldersFit
<1>21. QED
  BY <1>13, <1>15, <1>17, <1>18, <1>19, <1>20 DEF IInv

-----------------------------------------------------------------------------
(* Maintenance.                                                             *)

\* A maintenance pass holds no job.
LEMMA PassFits ==
  ASSUME IInv, NEW w \in Workers, NEW stage \in {"purging", "sweeping"}, NEW keys \in SUBSET Keys
  PROVE  RecordFits([worker[w] EXCEPT !.stage = stage, !.keys = keys])
<1>1. worker[w] \in Worker
  BY DEF IInv, Types
<1>2. PICK r : r = [worker[w] EXCEPT !.stage = stage, !.keys = keys]
  OBVIOUS
<1>3. r \in Worker /\ r.stage = stage
  BY <1>1, <1>2 DEF Worker
<1>4. QED
  BY <1>2, <1>3 DEF RecordFits

\* DeletePurged keeps the invariant.
LEMMA DeletePurgedKeeps ==
  ASSUME IInv, NEW w \in Workers, DeletePurged(w)
  PROVE  IInv'
<1>1. UNCHANGED <<areas, folders, documents, versions, blobs, uploads, work>>
  BY DEF DeletePurged, rows
<1>2. files' \in [Keys -> {"absent", "recent", "old"}]
  BY DEF DeletePurged, IInv, Types
<1>3. PICK keys \in SUBSET Keys : keys = {blobs[c] : c \in {x \in Contents : blobs[x] # None}}
  BY DEF IInv, Types
<1>4. PICK r : r = [worker[w] EXCEPT !.stage = "sweeping", !.keys = keys]
  OBVIOUS
<1>5. RecordFits(r)
  BY <1>4, PassFits
<1>6. worker' = [worker EXCEPT ![w] = r]
  BY <1>3, <1>4 DEF DeletePurged
<1>7. worker' \in [Workers -> Worker] /\ WorkersFit'
  BY <1>1, <1>5, <1>6, WorkerStep
<1>8. Types' /\ UNCHANGED rows
  BY <1>1, <1>2, <1>7 DEF IInv, Types, rows
<1>9. QED
  BY <1>7, <1>8, RowsKept

\* CleanupOrphans keeps the invariant.
LEMMA CleanupOrphansKeeps ==
  ASSUME IInv, NEW w \in Workers, CleanupOrphans(w)
  PROVE  IInv'
<1>1. UNCHANGED <<areas, folders, documents, versions, blobs, uploads, work>>
      /\ worker' = [worker EXCEPT ![w] = Idle]
  BY DEF CleanupOrphans, rows
<1>2. files' \in [Keys -> {"absent", "recent", "old"}]
  BY DEF CleanupOrphans, IInv, Types
<1>3. worker' \in [Workers -> Worker] /\ WorkersFit'
  BY <1>1, IdleFits, WorkerStep
<1>4. Types' /\ UNCHANGED rows
  BY <1>1, <1>2, <1>3 DEF IInv, Types, rows
<1>5. QED
  BY <1>3, <1>4, RowsKept

\* Purge keeps the invariant.
LEMMA PurgeKeeps ==
  ASSUME IInv, NEW w \in Workers, PurgeExpired(w)
  PROVE  IInv'
<1> DEFINE ds == Purgeable
           dead == Unreferenced(Purgeable)
<1>1. /\ documents' = [d \in Docs |-> IF d \in ds THEN Gone ELSE documents[d]]
      /\ versions' = [i \in DOMAIN versions |->
                        IF versions[i].doc \in ds THEN GoneVersion ELSE versions[i]]
      /\ blobs' = [c \in Contents |-> IF c \in dead THEN None ELSE blobs[c]]
      /\ worker' = [worker EXCEPT ![w].stage = "purging", ![w].keys = {blobs[c] : c \in dead}]
      /\ UNCHANGED <<areas, folders, files, uploads>>
      /\ work' \in 0..MaxWork
  BY SpendType DEF PurgeExpired
<1>2. ds \subseteq Docs /\ None \notin ds
  BY DocumentsAssumption DEF Purgeable
<1>3. \A c \in Contents : c \in dead <=>
        /\ \E i \in DOMAIN versions : versions[i].doc \in ds /\ versions[i].blob = c
        /\ \A i \in DOMAIN versions : versions[i].blob = c => versions[i].doc \in ds
  BY DEF Unreferenced
<1>4. dead \subseteq Contents
  BY DEF Unreferenced
<1> HIDE DEF ds, dead
<1>5. Gone \in Document
  BY DEF Gone, Document, DocumentStatus
<1>6. documents' \in [Docs -> Document \cup {None}]
  BY <1>1, <1>5 DEF IInv, Types
<1>7. \A d \in Docs : Live(d)' => Live(d) /\ documents'[d] = documents[d]
  BY <1>1 DEF Live
<1>8. \A d \in Docs : Live(d) /\ d \notin ds => Live(d)'
  BY <1>1 DEF Live
<1>9. DocumentsFit'
  BY <1>1, <1>7 DEF IInv, DocumentsFit
<1>10. GoneVersion \in Version
  <2>1. 0 \in 0..MaxVersions /\ 0 \in 0..AttemptCap
    BY DocumentsAssumption
  <2>2. QED
    BY <2>1 DEF GoneVersion, Version, VersionStatus, JobStatus
<1>11. versions' \in Seq(Version) /\ DOMAIN versions' = DOMAIN versions
  <2>1. versions \in Seq(Version) /\ versions' = [i \in DOMAIN versions |-> versions'[i]]
        /\ \A i \in DOMAIN versions : versions'[i] \in Version
    BY <1>1, <1>10, Facts DEF IInv, Types
  <2>2. QED
    BY <2>1, Mapped
<1>12. blobs' \in [Contents -> Keys \cup {None}]
  BY <1>1 DEF IInv, Types
<1>13. ASSUME NEW i \in DOMAIN versions, versions'[i] # GoneVersion
       PROVE  VersionFits(versions[i])' /\ HonestVersion(versions[i])'
  <2>1. versions'[i] = versions[i] /\ versions[i].doc \notin ds /\ versions[i] # GoneVersion
    BY <1>1, <1>13
  <2>2. VersionFits(versions[i]) /\ HonestVersion(versions[i])
        /\ versions[i].doc \in Docs /\ versions[i].blob \in Contents
    BY <2>1, Facts DEF IInv, VersionsFit
  <2>3. Live(versions[i].doc)'
    BY <1>8, <2>1, <2>2 DEF VersionFits, Live
  <2>4. versions[i].blob \notin dead
    BY <1>3, <2>1, <2>2
  <2>5. blobs'[versions[i].blob] # None
    BY <1>1, <2>2, <2>4 DEF VersionFits
  <2>6. QED
    BY <1>1, <2>1, <2>2, <2>3, <2>5 DEF VersionFits, HonestVersion
<1>14. VersionsFit'
  BY <1>11, <1>13 DEF VersionsFit
<1>15. \A i \in DOMAIN versions : versions'[i].current => versions'[i] = versions[i]
  BY <1>1 DEF GoneVersion
<1>16. OneCurrent'
  BY <1>11, <1>15 DEF IInv, OneCurrent
<1>17. PublishedCurrent'
  <2>1. ASSUME NEW d \in Docs, Live(d)', documents'[d].status = "published"
        PROVE  CurrentOf(d)' # {}
    <3>1. Live(d) /\ documents'[d] = documents[d]
      BY <1>7, <2>1
    <3>2. d \notin ds
      BY <1>1, <2>1 DEF Live
    <3>3. PICK i \in DOMAIN versions : versions[i].doc = d /\ versions[i].current
      BY <2>1, <3>1 DEF IInv, PublishedCurrent, CurrentOf, VersionsOf
    <3>4. versions'[i] = versions[i]
      BY <1>1, <3>2, <3>3
    <3>5. QED
      BY <1>11, <3>3, <3>4 DEF CurrentOf, VersionsOf
  <2>2. QED
    BY <2>1 DEF PublishedCurrent
<1>18. ASSUME NEW c \in dead PROVE blobs[c] \in Keys
  <2>1. PICK i \in DOMAIN versions : versions[i].doc \in ds /\ versions[i].blob = c
    BY <1>3, <1>4, <1>18
  <2>2. versions[i] # GoneVersion
    BY <1>2, <2>1 DEF GoneVersion
  <2>3. blobs[c] # None /\ c \in Contents
    BY <1>4, <2>1, <2>2 DEF IInv, VersionsFit, VersionFits
  <2>4. QED
    BY <2>3 DEF IInv, Types
<1>19. PICK keys \in SUBSET Keys : keys = {blobs[c] : c \in dead}
  BY <1>18
<1>20. PICK r : r = [worker[w] EXCEPT !.stage = "purging", !.keys = keys]
  OBVIOUS
<1>21. RecordFits(r)
  BY <1>20, PassFits
<1>22. worker' = [worker EXCEPT ![w] = r]
  BY <1>1, <1>19, <1>20
<1>23. worker' \in [Workers -> Worker] /\ WorkersFit'
  BY <1>11, <1>21, <1>22, WorkerStep
<1>24. Types'
  BY <1>1, <1>6, <1>11, <1>12, <1>23 DEF IInv, Types
<1>25. FoldersFit'
  BY <1>1 DEF IInv, FoldersFit
<1>26. QED
  BY <1>9, <1>14, <1>16, <1>17, <1>23, <1>24, <1>25 DEF IInv

-----------------------------------------------------------------------------
(* The theorems.                                                            *)

\* The invariant holds at the start.
LEMMA InitHolds == Init => IInv
<1> SUFFICES ASSUME Init PROVE IInv
  OBVIOUS
<1>1. worker = [w \in Workers |-> Idle] /\ versions = <<>> /\ uploads = {} /\ work = 0
      /\ documents = [d \in Docs |-> None] /\ folders = [f \in Folders |-> None]
  BY DEF Init
<1>2. Idle \in Worker /\ Idle.stage = "idle"
  BY DEF Idle, Worker
<1>3. Types
  <2>1. areas \in [Areas -> Area]
    BY DEF Init, Area
  <2>2. files \in [Keys -> {"absent", "recent", "old"}] /\ blobs \in [Contents -> Keys \cup {None}]
    BY DEF Init
  <2>3. work \in 0..MaxWork
    BY <1>1, DocumentsAssumption
  <2>4. QED
    BY <1>1, <1>2, <2>1, <2>2, <2>3 DEF Types
<1>4. FoldersFit /\ DocumentsFit /\ PublishedCurrent
  BY <1>1 DEF FoldersFit, DocumentsFit, PublishedCurrent, Live
<1>5. VersionsFit /\ OneCurrent
  BY <1>1 DEF VersionsFit, OneCurrent
<1>6. WorkersFit
  BY <1>1, <1>2 DEF WorkersFit, WorkerFits
<1>7. QED
  BY <1>3, <1>4, <1>5, <1>6 DEF IInv

\* Every step keeps the invariant.
LEMMA NextKeeps == IInv /\ [Next]_vars => IInv'
<1> SUFFICES ASSUME IInv, [Next]_vars PROVE IInv'
  OBVIOUS
<1>1. CASE Taxonomy
  <2>1. CASE \E a \in Areas : CreateArea(a) \/ DeleteArea(a)
    BY <2>1, AreasKeep
  <2>2. CASE \E a \in Areas, b \in BOOLEAN : UpdateArea(a, b)
    BY <2>2, AreasKeep
  <2>3. CASE \E a \in Areas, p \in Folders \cup {None}, n \in Names \cup {None} :
               CreateFolder(a, p, n)
    BY <2>3, CreateFolderKeeps
  <2>4. CASE \E f \in Folders : DeleteFolder(f) \/ \E n \in Names : UpdateFolder(f, n)
    BY <2>4, DeleteFolderKeeps, UpdateFolderKeeps
  <2>5. QED
    BY <1>1, <2>1, <2>2, <2>3, <2>4 DEF Taxonomy
<1>2. CASE Uploading
  <2>1. CASE \E c \in Contents, e \in Extensions, a \in Areas, p \in Folders \cup {None} :
               UploadFile(c, e, a, p)
    <3>1. PICK c \in Contents, e \in Extensions, a \in Areas, p \in Folders \cup {None} :
               StoreFile(None, c, e, a, p)
      BY <2>1 DEF UploadFile
    <3>2. None \in Docs \cup {None}
      OBVIOUS
    <3>3. QED
      BY <3>1, <3>2, StoreFileKeeps
  <2>2. CASE \E d \in Docs, c \in Contents, e \in Extensions : ReplaceFile(d, c, e)
    <3>1. PICK d \in Docs, c \in Contents, e \in Extensions : StoreFile(d, c, e, General, None)
      BY <2>2 DEF ReplaceFile
    <3>2. d \in Docs \cup {None} /\ General \in Areas /\ None \in Folders \cup {None}
      BY DocumentsAssumption
    <3>3. QED
      BY <3>1, <3>2, StoreFileKeeps
  <2>3. CASE \E u \in uploads : QueueUpload(u) \/ AbortUpload(u)
    BY <2>3, QueueUploadKeeps, AbortUploadKeeps
  <2>4. QED
    BY <1>2, <2>1, <2>2, <2>3 DEF Uploading
<1>3. CASE Editing
  BY <1>3, DeleteDocumentKeeps, RestoreDocumentKeeps, ReindexKeeps, RetentionElapsesKeeps,
     UpdateDocumentKeeps DEF Editing
<1>4. CASE Time
  BY <1>4, BackoffElapsesKeeps, LockExpiresKeeps, FileAgesKeeps DEF Time
<1>5. ASSUME NEW w \in Workers, Ingesting(w) PROVE IInv'
  BY <1>5, ClaimJobKeeps, LoadContextKeeps, ExtractedKeeps, PersistSuccessKeeps,
     PersistFailureKeeps DEF Ingesting
<1>6. ASSUME NEW w \in Workers, Maintaining(w) PROVE IInv'
  BY <1>6, PurgeKeeps, DeletePurgedKeeps, CleanupOrphansKeeps DEF Maintaining
<1>7. ASSUME NEW w \in Workers, Crash(w) PROVE IInv'
  BY <1>7, CrashKeeps
<1>8. CASE UNCHANGED vars
  <2>1. UNCHANGED rows /\ UNCHANGED <<areas, folders, documents, versions, blobs, files,
                                      uploads, worker, work>>
    BY <1>8 DEF vars, rows
  <2>2. Types' /\ WorkersFit'
    BY <2>1, WorkersKept DEF IInv, Types
  <2>3. QED
    BY <2>1, <2>2, RowsKept
<1>9. QED
  BY <1>1, <1>2, <1>3, <1>4, <1>5, <1>6, <1>7, <1>8 DEF Next

\* IInv holds in every reachable state: no request, retry, lost worker, late
\* worker or purge leaves the library's rows unfit.
THEOREM Invariance == Spec => []IInv
BY InitHolds, NextKeeps, PTL DEF Spec

\* Rows have their shapes and refer to rows that exist (TypeOK), whatever is
\* moved, deleted, merged or purged while uploads and workers are under way.
THEOREM TypeCorrect == Spec => []TypeOK
<1>1. IInv => TypeOK
  BY DEF IInv, Types, FoldersFit, DocumentsFit, VersionsFit, VersionFits, TypeOK
<1>2. QED
  BY <1>1, Invariance, PTL

\* The status a document, a version and a job show is true (StatusesAreHonest),
\* also when a worker past its lock writes the copies it loaded over the work of
\* the worker that took its job.
THEOREM HonestStatuses == Spec => []StatusesAreHonest
<1>1. ASSUME IInv PROVE StatusesAreHonest
  <2>1. ASSUME NEW d \in Docs, Live(d), documents[d].status = "published"
        PROVE  \E i \in CurrentOf(d) : versions[i].chunks # None
    <3>1. PICK i \in CurrentOf(d) : TRUE
      BY <1>1, <2>1 DEF IInv, PublishedCurrent
    <3>2. i \in DOMAIN versions /\ versions[i].current
      BY <3>1 DEF CurrentOf, VersionsOf
    <3>3. versions[i] # GoneVersion
      BY <3>2 DEF GoneVersion
    <3>4. versions[i].chunks # None
      BY <1>1, <3>2, <3>3 DEF IInv, VersionsFit, HonestVersion
    <3>5. QED
      BY <3>1, <3>4
  <2>2. ASSUME NEW i \in DOMAIN versions, versions[i] # GoneVersion
        PROVE  /\ versions[i].job = "completed" <=> versions[i].status = "ready"
               /\ versions[i].status = "ready" => versions[i].chunks # None
    BY <1>1, <2>2 DEF IInv, VersionsFit, HonestVersion
  <2>3. QED
    BY <2>1, <2>2 DEF StatusesAreHonest
<1>2. QED
  BY <1>1, Invariance, PTL

\* A search never returns two versions of one document, and a document never has
\* two current versions (OneVersionAnswers), however late an older job ends.
THEOREM AnswersFromOne == Spec => []OneVersionAnswers
<1>1. ASSUME IInv PROVE OneVersionAnswers
  <2>1. \A i, j \in Search(Areas) : versions[i].doc = versions[j].doc => i = j
    BY <1>1 DEF Search, IInv, OneCurrent
  <2>2. ASSUME NEW d \in Docs PROVE Cardinality(CurrentOf(d)) <= 1
    <3>1. CASE CurrentOf(d) = {}
      BY <3>1, FS_EmptySet
    <3>2. CASE CurrentOf(d) # {}
      <4>1. PICK i : i \in CurrentOf(d)
        BY <3>2
      <4>2. CurrentOf(d) = {i}
        BY <1>1, <4>1 DEF IInv, OneCurrent, CurrentOf, VersionsOf
      <4>3. QED
        BY <4>2, FS_Singleton
    <3>3. QED
      BY <3>1, <3>2
  <2>3. QED
    BY <2>1, <2>2 DEF OneVersionAnswers
<1>2. QED
  BY <1>1, Invariance, PTL
=============================================================================
