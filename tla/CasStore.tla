------------------------------ MODULE CasStore ------------------------------
(***************************************************************************)
(* Content-addressed storage and its reaper (server/internal/cas), with    *)
(* what stores bytes and what uses them: uploads (cas.missing_chunks, the  *)
(* chunk route, file.create, attachment.create), portal builds and theme   *)
(* files.                                                                  *)
(*                                                                         *)
(* Nobody holds a lock from the moment bytes are stored to the moment a    *)
(* row refers to them. A blob nothing refers to is kept for a grace period *)
(* instead, and the reaper looks again under a row lock before it deletes  *)
(* one; foreign keys stop it where there are any. portal_build_file and    *)
(* theme_file have none.                                                   *)
(*                                                                         *)
(* Postgres runs READ COMMITTED: a statement sees what was committed when  *)
(* it started, so the reaper's choice of a row and its lock on it are two  *)
(* steps. A transaction that other steps can meet half-way is two actions, *)
(* its statements and its commit; the others are one.                      *)
(***************************************************************************)
EXTENDS Integers, FiniteSets

CONSTANTS
  Addresses,    \* SHA-256 addresses
  Files,        \* ids of file rows; an id is used again only when nothing has it
  Attachments,  \* ids of attachment rows, likewise
  Uploaders,    \* accounts, each with one upload under way
  Builders,     \* portal builds
  Editors,      \* theme.file_put calls
  OwnTheme,     \* whether the portals use a theme card (else a built-in theme)
  Grace,        \* Reaper.GracePeriod
  None          \* no row, no file

Writers == Uploaders \cup Builders \cup Editors
Publishers == Builders \cup Editors

ASSUME CasAssumption ==
  /\ Grace \in Nat /\ OwnTheme \in BOOLEAN
  /\ Files \cap Addresses = {}
  /\ None \notin Files \cup Addresses \cup 0..Grace + 1
  /\ Uploaders \cap Publishers = {} /\ Builders \cap Editors = {}

VARIABLES
  \* the database (committed)
  blobAge,   \* cas_blob: ticks since created_at, or None
  data,      \* cas_blob_data
  holders,   \* cas_blob_holder: the accounts that sent each address
  fileAge,   \* file: ticks since created_at, or None
  chunks,    \* file_chunk
  attFile,   \* attachment.file_id, or None
  attLive,   \* attachments whose deleted_at is NULL
  published, \* portal_build_file addresses of the builds kept
  theme,     \* theme_file addresses
  \* the writers
  pc,
  want,      \* addresses it stores itself
  told,      \* addresses it uses as they are: answered as held, or a theme's
  left,      \* of want, those not stored yet
  cur,       \* the address Storage.Put is at, or None
  putAge,    \* ticks since it called Put with an address; Grace + 1: long ago, or never
  newFile,   \* the file it creates or attaches, or None
  \* the reaper
  layer,     \* the sweep under way: "file", "blob", or "idle"
  past,      \* that layer's rows with created_at < cutoff, or deleted since
  todo,      \* the orphans findOrphans returned, not come to yet
  reaping,   \* the row reapOne is at, or None
  locked     \* whether it holds the lock on it

dbVars == <<blobAge, data, holders, fileAge, chunks, attFile, attLive, published, theme>>
writerVars == <<pc, want, told, left, cur, putAge, newFile>>
reaperVars == <<layer, past, todo, reaping, locked>>
vars == <<dbVars, writerVars, reaperVars>>

Ages == 0..Grace + 1
Blobs == {a \in Addresses : blobAge[a] # None}
FileRows == {f \in Files : fileAge[f] # None}

Init ==
  /\ blobAge = [a \in Addresses |-> None] /\ data = {}
  /\ holders = [a \in Addresses |-> {}]
  /\ fileAge = [f \in Files |-> None] /\ chunks = [f \in Files |-> {}]
  /\ attFile = [t \in Attachments |-> None] /\ attLive = {}
  /\ published = {} /\ theme = {}
  /\ pc = [w \in Writers |-> "idle"]
  /\ want = [w \in Writers |-> {}] /\ told = [w \in Writers |-> {}]
  /\ left = [w \in Writers |-> {}]
  /\ cur = [w \in Writers |-> None]
  /\ putAge = [w \in Writers |-> [a \in Addresses |-> Grace + 1]]
  /\ newFile = [w \in Writers |-> None]
  /\ layer = "idle" /\ past = {} /\ todo = {} /\ reaping = None /\ locked = FALSE
-----------------------------------------------------------------------------
(* Locks: the reaper's FOR UPDATE on one row, and the KEY SHARE lock an     *)
(* uncommitted insert has on every row its foreign keys name.               *)

Uses(w) == want[w] \cup told[w]

ReaperHolds(l, k) == layer = l /\ locked /\ reaping = k

Shared(l) ==
  IF l = "blob" THEN UNION {Uses(w) : w \in {v \in Uploaders : pc[v] = "creating"}}
                ELSE {newFile[w] : w \in {v \in Uploaders : pc[v] = "attaching"}}

\* The writer is done, refused, gone or timed out; an open transaction rolls back.
Rest(w) ==
  /\ pc' = [pc EXCEPT ![w] = "idle"]
  /\ want' = [want EXCEPT ![w] = {}] /\ told' = [told EXCEPT ![w] = {}]
  /\ left' = [left EXCEPT ![w] = {}]
  /\ cur' = [cur EXCEPT ![w] = None]
  /\ putAge' = [putAge EXCEPT ![w] = [a \in Addresses |-> Grace + 1]]
  /\ newFile' = [newFile EXCEPT ![w] = None]

GiveUp(w) == pc[w] # "idle" /\ Rest(w) /\ UNCHANGED <<dbVars, reaperVars>>

-----------------------------------------------------------------------------
(* Storage.Put of one address, by every kind of writer.                     *)

Begin(w, S, T) ==
  /\ pc[w] = "idle"
  /\ want' = [want EXCEPT ![w] = S] /\ told' = [told EXCEPT ![w] = T]
  /\ left' = [left EXCEPT ![w] = S]
  /\ pc' = [pc EXCEPT ![w] = "put"]
  /\ UNCHANGED <<dbVars, cur, putAge, newFile, reaperVars>>

\* cas.missing_chunks: of a file's chunks, those this account has sent are held.
StartUpload(w, S) ==
  LET held == {a \in S : w \in holders[a]} IN Begin(w, S \ held, held)

\* Build: the site is loaded and rendered; a theme card's own files keep their address.
StartBuild(w, a) == Begin(w, {a}, IF OwnTheme THEN theme ELSE {})

\* theme.file_put: one file.
StartEdit(w, a) == Begin(w, {a}, {})

Has(a) == a \in data

PutLook(w, a) ==
  /\ pc[w] = "put" /\ a \in left[w]
  /\ cur' = [cur EXCEPT ![w] = a]
  /\ putAge' = [putAge EXCEPT ![w][a] = 0]
  /\ pc' = [pc EXCEPT ![w] = IF Has(a) THEN "touch" ELSE "store"]
  /\ UNCHANGED <<dbVars, want, told, left, newFile, reaperVars>>

\* Mutant of Touched: bytes already stored are left as old as they are.
TouchedNot(a) == blobAge

\* created_at = now().
Touched(a) == [blobAge EXCEPT ![a] = 0]

\* The UPDATE waits for the reaper's lock, then finds the row or that it is gone.
PutTouch(w) ==
  /\ pc[w] = "touch" /\ ~ReaperHolds("blob", cur[w])
  /\ IF cur[w] \in Blobs
     THEN /\ blobAge' = Touched(cur[w])
          /\ past' = {k \in past : k = cur[w] => blobAge'[k] > 0}
          /\ pc' = [pc EXCEPT ![w] = "stored"]
     ELSE /\ pc' = [pc EXCEPT ![w] = "store"]
          /\ UNCHANGED <<blobAge, past>>
  /\ UNCHANGED <<data, holders, fileAge, chunks, attFile, attLive, published, theme,
                 want, told, left, cur, putAge, newFile, layer, todo, reaping, locked>>

\* PgBackend.Put: both rows in one transaction, each ON CONFLICT DO NOTHING.
PutStore(w) ==
  /\ pc[w] = "store"
  /\ blobAge' = IF cur[w] \in Blobs THEN blobAge ELSE [blobAge EXCEPT ![cur[w]] = 0]
  /\ data' = data \cup {cur[w]}
  /\ past' = IF cur[w] \in Blobs THEN past ELSE past \ {cur[w]}
  /\ pc' = [pc EXCEPT ![w] = "stored"]
  /\ UNCHANGED <<holders, fileAge, chunks, attFile, attLive, published, theme,
                 want, told, left, cur, putAge, newFile, layer, todo, reaping, locked>>

Stored(w) ==
  /\ left' = [left EXCEPT ![w] = @ \ {cur[w]}]
  /\ cur' = [cur EXCEPT ![w] = None]
  /\ pc' = [pc EXCEPT ![w] = "put"]

\* A publisher goes on to its next address.
PutDone(w) ==
  /\ w \in Publishers /\ pc[w] = "stored" /\ Stored(w)
  /\ UNCHANGED <<dbVars, want, told, putAge, newFile, reaperVars>>

\* The upload routes record who sent the bytes; the insert's foreign key waits
\* for the reaper and fails if the blob is gone.
NoteHolder(w) ==
  /\ w \in Uploaders /\ pc[w] = "stored" /\ ~ReaperHolds("blob", cur[w])
  /\ IF cur[w] \in Blobs
     THEN /\ holders' = [holders EXCEPT ![cur[w]] = @ \cup {w}]
          /\ Stored(w)
          /\ UNCHANGED <<want, told, putAge, newFile>>
     ELSE Rest(w) /\ UNCHANGED holders
  /\ UNCHANGED <<blobAge, data, fileAge, chunks, attFile, attLive, published, theme, reaperVars>>
-----------------------------------------------------------------------------
(* Referring to stored bytes.                                               *)

Ready(w) == pc[w] = "put" /\ left[w] = {}

\* file.create's checks: the caller holds every chunk, and every chunk's
\* foreign key finds its blob.
MayCreate(w) == \A a \in Uses(w) : w \in holders[a] /\ a \in Blobs

\* Free ids (a serial number in the code): no row and no caller has them.
FreeFile(f) ==
  /\ f \notin FileRows /\ \A t \in Attachments : attFile[t] # f
  /\ \A w \in Writers : newFile[w] # f

CreateFile(w, f) ==
  /\ w \in Uploaders /\ Ready(w) /\ FreeFile(f)
  /\ IF MayCreate(w)
     THEN /\ \A a \in Uses(w) : ~ReaperHolds("blob", a)
          /\ pc' = [pc EXCEPT ![w] = "creating"]
          /\ newFile' = [newFile EXCEPT ![w] = f]
          /\ UNCHANGED <<want, told, left, cur, putAge>>
     ELSE Rest(w)
  /\ UNCHANGED <<dbVars, reaperVars>>

CommitFile(w) ==
  /\ pc[w] = "creating"
  /\ fileAge' = [fileAge EXCEPT ![newFile[w]] = 0]
  /\ chunks' = [chunks EXCEPT ![newFile[w]] = Uses(w)]
  /\ past' = past \ {newFile[w]}
  /\ pc' = [pc EXCEPT ![w] = "created"]
  /\ want' = [want EXCEPT ![w] = {}] /\ told' = [told EXCEPT ![w] = {}]
  /\ putAge' = [putAge EXCEPT ![w] = [a \in Addresses |-> Grace + 1]]
  /\ UNCHANGED <<blobAge, data, holders, attFile, attLive, published, theme,
                 left, cur, newFile, layer, todo, reaping, locked>>

\* A caller picks a file that is there already (a file on another card).
PickFile(w, f) ==
  /\ w \in Uploaders /\ pc[w] = "idle" /\ f \in FileRows
  /\ newFile' = [newFile EXCEPT ![w] = f]
  /\ pc' = [pc EXCEPT ![w] = "created"]
  /\ UNCHANGED <<dbVars, want, told, left, cur, putAge, reaperVars>>

\* attachment.create: the file is there (its foreign key waits for the reaper).
Attach(w) ==
  /\ pc[w] = "created" /\ ~ReaperHolds("file", newFile[w])
  /\ IF newFile[w] \in FileRows
     THEN pc' = [pc EXCEPT ![w] = "attaching"] /\ UNCHANGED <<want, told, left, cur, putAge, newFile>>
     ELSE Rest(w)
  /\ UNCHANGED <<dbVars, reaperVars>>

CommitAttach(w, t) ==
  /\ pc[w] = "attaching" /\ attFile[t] = None
  /\ attFile' = [attFile EXCEPT ![t] = newFile[w]]
  /\ attLive' = attLive \cup {t}
  /\ Rest(w)
  /\ UNCHANGED <<blobAge, data, holders, fileAge, chunks, published, theme, reaperVars>>

\* attachment.delete.
Detach(t) ==
  /\ t \in attLive
  /\ attLive' = attLive \ {t}
  /\ UNCHANGED <<blobAge, data, holders, fileAge, chunks, attFile, published, theme, writerVars, reaperVars>>

\* task.purge deletes a card's attachment rows, deleted or not.
Purge(t) ==
  /\ attFile[t] # None
  /\ attFile' = [attFile EXCEPT ![t] = None]
  /\ attLive' = attLive \ {t}
  /\ UNCHANGED <<blobAge, data, holders, fileAge, chunks, published, theme, writerVars, reaperVars>>

\* A build runs on its job's context and a theme.file_put on its request's:
\* either is cut off minutes after its first Put, a grace period is an hour.
InTime(w) == \A a \in want[w] : putAge[w][a] <= Grace

\* Build: the new build's files, and perhaps the older builds' with them
\* (the newest few are kept). There is no foreign key to wait for or to fail.
Publish(w) ==
  /\ w \in Builders /\ Ready(w) /\ InTime(w)
  /\ published' \in {Uses(w), Uses(w) \cup published}
  /\ Rest(w)
  /\ UNCHANGED <<blobAge, data, holders, fileAge, chunks, attFile, attLive, theme, reaperVars>>

\* theme_file_put_batch: a new path, or the bytes of a path there is.
PutThemeFile(w) ==
  /\ w \in Editors /\ Ready(w) /\ InTime(w)
  /\ \E old \in SUBSET theme : Cardinality(old) <= 1 /\ theme' = (theme \ old) \cup want[w]
  /\ Rest(w)
  /\ UNCHANGED <<blobAge, data, holders, fileAge, chunks, attFile, attLive, published, reaperVars>>

\* theme_file_delete_batch.
DeleteThemeFile(a) ==
  /\ a \in theme
  /\ theme' = theme \ {a}
  /\ UNCHANGED <<blobAge, data, holders, fileAge, chunks, attFile, attLive, published, writerVars, reaperVars>>
-----------------------------------------------------------------------------
(* The reaper: one sweep per layer, one transaction per row.                *)

Rows(l) == IF l = "file" THEN FileRows ELSE Blobs
Age(l, k) == IF l = "file" THEN fileAge[k] ELSE blobAge[k]

\* The attachment rows whose foreign key names a file.
RowsOf(f) == {t \in Attachments : attFile[t] = f}

\* Mutant of DeadRows: the consumers' Filter is left out of the delete.
DeadRowsAll(f) == RowsOf(f)

\* Mutant of DeadRows: soft-deleted attachments are left in place.
DeadRowsKept(f) == {}

\* The consumer rows DefaultFileConsumers' Filter excludes, and those it doesn't.
DeadRows(f) == RowsOf(f) \ attLive
LiveRows(f) == RowsOf(f) \cap attLive

ChunkOf(a) == {f \in FileRows : a \in chunks[f]}

\* Mutant of BlobUsed: DefaultChunkConsumers without theme_file and portal_build_file.
BlobUsedByFiles(a) == ChunkOf(a) # {}

BlobUsed(a) == ChunkOf(a) # {} \/ a \in published \/ a \in theme

Unused(l, k) == IF l = "file" THEN LiveRows(k) = {} ELSE ~BlobUsed(k)

\* created_at < now() - GracePeriod.
Old(l) == {k \in Rows(l) : Age(l, k) > Grace}

\* sweep: the cutoff, and findOrphans. The blobs' sweep follows the files'.
Sweep(l) ==
  /\ todo = {} /\ reaping = None
  /\ layer = IF l = "file" THEN "idle" ELSE "file"
  /\ layer' = l
  /\ past' = Old(l)
  /\ todo' = {k \in past' : Unused(l, k)}
  /\ UNCHANGED <<dbVars, writerVars, reaping, locked>>

EndPass ==
  /\ layer = "blob" /\ todo = {} /\ reaping = None
  /\ layer' = "idle" /\ past' = {}
  /\ UNCHANGED <<dbVars, writerVars, todo, reaping, locked>>

\* reapOne's SELECT as of its start: past the cutoff and unused (else FALSE).
ReapLook(k) ==
  /\ k \in todo /\ reaping = None
  /\ todo' = todo \ {k}
  /\ reaping' = IF k \in Rows(layer) /\ k \in past /\ Unused(layer, k) THEN k ELSE None
  /\ UNCHANGED <<dbVars, writerVars, layer, past, locked>>

\* Mutant of StillPast: a row touched meanwhile is not looked at again.
StillPastUnseen(k) == TRUE

\* A row updated since the SELECT started is checked again as it is now.
StillPast(k) == k \in past

\* Its lock: a row that is gone, that an insert in flight refers to
\* (SKIP LOCKED) or that was touched meanwhile is left.
ReapLock(k) ==
  /\ reaping = k /\ ~locked
  /\ IF k \in Rows(layer) /\ k \notin Shared(layer) /\ StillPast(k)
     THEN locked' = TRUE /\ UNCHANGED reaping
     ELSE reaping' = None /\ UNCHANGED locked
  /\ UNCHANGED <<dbVars, writerVars, layer, past, todo>>

\* dropBytes: none, as the Postgres backend's bytes go with their row.
DroppedAhead(a) == {}

\* Mutant of ReapFail: the transaction isn't rolled back.
ReapFailOpen == locked /\ reaping' = None /\ UNCHANGED <<dbVars, writerVars, layer, past, todo, locked>>

\* The transaction rolls back: a foreign key, a statement or the commit failed.
ReapFail ==
  /\ locked
  /\ locked' = FALSE /\ reaping' = None
  /\ data' = IF layer = "blob" THEN data \ DroppedAhead(reaping) ELSE data
  /\ UNCHANGED <<blobAge, holders, fileAge, chunks, attFile, attLive, published, theme,
                 writerVars, layer, past, todo>>

\* A file goes with its dead attachment rows and its chunk list, unless another
\* attachment row names it.
ReapFile(f) ==
  /\ locked /\ layer = "file" /\ reaping = f
  /\ RowsOf(f) \subseteq DeadRows(f)
  /\ attFile' = [t \in Attachments |-> IF t \in DeadRows(f) THEN None ELSE attFile[t]]
  /\ attLive' = attLive \ DeadRows(f)
  /\ fileAge' = [fileAge EXCEPT ![f] = None]
  /\ chunks' = [chunks EXCEPT ![f] = {}]
  /\ locked' = FALSE /\ reaping' = None
  /\ UNCHANGED <<blobAge, data, holders, published, theme, writerVars, layer, past, todo>>

\* Mutant of ForeignKey: cas_address refers to nothing, as in portal_build_file.
ForeignKeyNone(a) == TRUE

\* file_chunk.cas_address.
ForeignKey(a) == ChunkOf(a) = {}

\* A blob goes with its bytes and its holders, unless a chunk names it.
ReapBlob(a) ==
  /\ locked /\ layer = "blob" /\ reaping = a
  /\ ForeignKey(a)
  /\ blobAge' = [blobAge EXCEPT ![a] = None]
  /\ data' = data \ {a}
  /\ holders' = [holders EXCEPT ![a] = {}]
  /\ locked' = FALSE /\ reaping' = None
  /\ UNCHANGED <<fileAge, chunks, attFile, attLive, published, theme, writerVars, layer, past, todo>>

\* The job's context ends, or kitpd does.
StopReaper ==
  /\ layer # "idle"
  /\ layer' = "idle" /\ past' = {} /\ todo' = {} /\ reaping' = None /\ locked' = FALSE
  /\ UNCHANGED <<dbVars, writerVars>>

Older(n) == IF n = None \/ n > Grace THEN n ELSE n + 1

Tick ==
  /\ blobAge' = [a \in Addresses |-> Older(blobAge[a])]
  /\ fileAge' = [f \in Files |-> Older(fileAge[f])]
  /\ putAge' = [w \in Writers |-> [a \in Addresses |-> Older(putAge[w][a])]]
  /\ UNCHANGED <<data, holders, chunks, attFile, attLive, published, theme,
                 pc, want, told, left, cur, newFile, reaperVars>>
-----------------------------------------------------------------------------
Put(w) ==
  \/ \E a \in Addresses : PutLook(w, a)
  \/ PutTouch(w) \/ PutStore(w) \/ PutDone(w) \/ NoteHolder(w)

Upload(w) ==
  \/ \E S \in SUBSET Addresses \ {{}} : StartUpload(w, S)
  \/ \E f \in Files : CreateFile(w, f) \/ PickFile(w, f)
  \/ CommitFile(w) \/ Attach(w)
  \/ \E t \in Attachments : CommitAttach(w, t)

Build(w) == Publish(w) \/ \E a \in Addresses : StartBuild(w, a)

Edit(w) == PutThemeFile(w) \/ \E a \in Addresses : StartEdit(w, a)

Reap ==
  \/ \E l \in {"file", "blob"} : Sweep(l)
  \/ \E k \in Files \cup Addresses : ReapLook(k) \/ ReapLock(k)
  \/ ReapFail \/ EndPass \/ StopReaper
  \/ \E f \in Files : ReapFile(f)
  \/ \E a \in Addresses : ReapBlob(a)

Next ==
  \/ \E w \in Writers : Put(w) \/ GiveUp(w)
  \/ \E w \in Uploaders : Upload(w)
  \/ \E w \in Builders : Build(w)
  \/ \E w \in Editors : Edit(w)
  \/ \E t \in Attachments : Detach(t) \/ Purge(t)
  \/ Editors # {} /\ \E a \in Addresses : DeleteThemeFile(a)
  \/ Reap
  \/ Tick

Spec == Init /\ [][Next]_vars

\* The job runs the reaper again after every Interval, and what cuts one of its
\* steps short - a failed statement, a restart - doesn't do so for ever; a
\* transaction ends one way or the other.
Fairness ==
  /\ WF_vars(Tick)
  /\ \A l \in {"file", "blob"} : SF_vars(Sweep(l))
  /\ WF_vars(EndPass) /\ WF_vars(ReapFail)
  /\ \A k \in Files \cup Addresses : SF_vars(ReapLook(k)) /\ SF_vars(ReapLock(k))
  /\ \A f \in Files : SF_vars(ReapFile(f))
  /\ \A a \in Addresses : SF_vars(ReapBlob(a))

FairSpec == Spec /\ Fairness
-----------------------------------------------------------------------------
Phases == {"idle", "put", "touch", "store", "stored", "creating", "created", "attaching"}

\* Types; and a lock is on a row there is, a Put is of an address still to store,
\* and the writer of a file in flight has an id for it.
TypeOK ==
  /\ blobAge \in [Addresses -> Ages \cup {None}]
  /\ data \subseteq Addresses
  /\ holders \in [Addresses -> SUBSET Uploaders]
  /\ fileAge \in [Files -> Ages \cup {None}]
  /\ chunks \in [Files -> SUBSET Addresses]
  /\ attFile \in [Attachments -> Files \cup {None}]
  /\ attLive \subseteq Attachments
  /\ published \subseteq Addresses /\ theme \subseteq Addresses
  /\ pc \in [Writers -> Phases]
  /\ want \in [Writers -> SUBSET Addresses] /\ told \in [Writers -> SUBSET Addresses]
  /\ left \in [Writers -> SUBSET Addresses]
  /\ cur \in [Writers -> Addresses \cup {None}]
  /\ putAge \in [Writers -> [Addresses -> Ages]]
  /\ newFile \in [Writers -> Files \cup {None}]
  /\ layer \in {"file", "blob", "idle"}
  /\ past \subseteq Files \cup Addresses /\ todo \subseteq Files \cup Addresses
  /\ reaping \in Files \cup Addresses \cup {None} /\ locked \in BOOLEAN
  /\ locked => reaping \in Rows(layer)
  /\ \A w \in Writers : pc[w] \in {"touch", "store", "stored"} => cur[w] \in left[w]
  /\ \A w \in Writers : pc[w] \in {"creating", "created", "attaching"} => newFile[w] \in Files

\* What a live attachment needs to be read is there: its file and every chunk's
\* bytes (attachment.delete, file.create and the reaper in any order).
LiveReadable ==
  /\ \A t \in attLive : attFile[t] \in FileRows
  /\ \A f \in FileRows : chunks[f] \subseteq Blobs

\* An address Storage.Put returned, and who sent it, stay for a grace period from
\* the call, whatever the reaper was about to do (Put's touch, reapOne's second look).
PutHolds ==
  \A w \in Writers : \A a \in Addresses : putAge[w][a] <= Grace =>
    /\ a \in want[w] \ left[w] => a \in Blobs /\ (w \in Uploaders => w \in holders[a])
    /\ pc[w] = "stored" /\ cur[w] = a => a \in Blobs

\* A blob row has its bytes and bytes have their row, so Put can go by either; a
\* holder row means the bytes are stored (cas.missing_chunks answers from it).
BytesWithRow == data = Blobs /\ \A a \in Addresses : holders[a] # {} => a \in data

\* What Put answers is so and stays so, the reaper at work or not.
PutTrue == PutHolds /\ BytesWithRow

\* A theme's files keep their bytes, with no foreign key to keep them.
ThemeStored == theme \subseteq data

\* So do the files of the builds a portal keeps.
PublishedStored == published \subseteq data

\* The reaper never takes a live attachment with a file.
ReaperSparesLive == [][\A f \in Files : ReapFile(f) => attLive' = attLive]_vars

\* A blob nothing uses, and a file no live attachment uses, don't stay for ever
\* (soft-deleted attachments, failing rows and restarts included).
AbandonedBlob(a) == a \in Blobs /\ ~BlobUsed(a) /\ \A w \in Writers : a \notin Uses(w)
AbandonedFile(f) == f \in FileRows /\ LiveRows(f) = {} /\ \A w \in Writers : newFile[w] # f
OrphansGo ==
  /\ \A a \in Addresses : []<>~AbandonedBlob(a)
  /\ \A f \in Files : []<>~AbandonedFile(f)
=============================================================================
