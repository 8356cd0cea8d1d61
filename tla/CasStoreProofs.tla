--------------------------- MODULE CasStoreProofs ---------------------------
(***************************************************************************)
(* Proofs about CasStore, for any number of writers, addresses, files and  *)
(* attachments and any grace period.                                       *)
(*                                                                         *)
(* Foreign keys and their locks keep what live attachments need.  What has *)
(* no foreign key is kept by time: a row the reaper may still take was     *)
(* past its grace period at the cutoff and has not been touched since,     *)
(* while bytes a writer has just stored are no older than its Put.         *)
(***************************************************************************)
EXTENDS CasStore, TLAPS

\* The foreign keys of attachment and file_chunk.
References ==
  /\ \A t \in Attachments : attFile[t] # None => attFile[t] \in FileRows
  /\ \A t \in attLive : attFile[t] # None
  /\ \A f \in FileRows : chunks[f] \subseteq Blobs

\* The rows an insert in flight refers to are there, and not the reaper's.
InFlight ==
  \A w \in Uploaders :
    /\ pc[w] = "creating" => \A a \in Uses(w) : a \in Blobs /\ ~ReaperHolds("blob", a)
    /\ pc[w] = "attaching" => newFile[w] \in FileRows /\ ~ReaperHolds("file", newFile[w])

\* a is stored, and its clock was started no earlier than w's Put of it.
Kept(w, a) == a \in Blobs /\ blobAge[a] <= putAge[w][a]

\* What w's calls of Put have done within the grace period.
PutKept ==
  \A w \in Writers : \A a \in Addresses :
    /\ putAge[w][a] <= Grace /\ a \in want[w] \ left[w] =>
         Kept(w, a) /\ (w \in Uploaders => w \in holders[a])
    /\ putAge[w][a] <= Grace /\ pc[w] = "stored" /\ cur[w] = a => Kept(w, a)
    /\ pc[w] = "store" /\ cur[w] = a /\ a \in Blobs => Kept(w, a)

\* Rows behind the cutoff have been left alone since, and only they are locked.
Cutoff ==
  layer = "blob" =>
    /\ \A a \in past \cap Blobs : blobAge[a] > Grace
    /\ locked => reaping \in past

\* A row the reaper may still take has no reference that lacks a foreign key.
NotPublished ==
  layer = "blob" /\ reaping \in past =>
    reaping \notin theme /\ (~OwnTheme => reaping \notin published)

\* Builds of a built-in theme copy no address.
OwnBytes == ~OwnTheme => \A w \in Builders : told[w] = {}

\* What has no foreign key is stored all the same.
StoredAll == theme \subseteq Blobs /\ (~OwnTheme => published \subseteq Blobs)

Inv ==
  /\ TypeOK /\ References /\ InFlight /\ BytesWithRow
  /\ PutKept /\ Cutoff /\ NotPublished /\ OwnBytes /\ StoredAll
-----------------------------------------------------------------------------
\* The kinds of rows and the missing row are told apart.
LEMMA Kinds ==
  /\ Grace \in Nat /\ None \notin Files /\ None \notin Addresses /\ None \notin Ages
  /\ Files \cap Addresses = {} /\ OwnTheme \in BOOLEAN
  /\ Uploaders \subseteq Writers /\ Builders \subseteq Writers /\ Editors \subseteq Writers
  /\ Uploaders \cap Builders = {} /\ Uploaders \cap Editors = {}
BY CasAssumption DEF Ages, Writers, Publishers

\* The reaper holds a row there is, so it holds none while it has none in hand.
LEMMA LockedRow ==
  ASSUME TypeOK
  PROVE  /\ locked => reaping # None
         /\ locked /\ layer = "blob" => reaping \in Blobs /\ reaping \in Addresses
         /\ locked /\ layer = "file" => reaping \in FileRows /\ reaping \in Files
BY Kinds DEF TypeOK, Rows, Blobs, FileRows

\* A step of writers alone: what the database and the reaper know of each other stays.
LEMMA WriterFrame ==
  ASSUME Inv, UNCHANGED <<dbVars, reaperVars>>
  PROVE  References' /\ BytesWithRow' /\ Cutoff' /\ NotPublished' /\ StoredAll'
<1>1. References'
  BY DEF Inv, References, dbVars, FileRows, Blobs
<1>2. BytesWithRow'
  BY DEF Inv, BytesWithRow, dbVars, Blobs
<1>3. Cutoff'
  BY DEF Inv, Cutoff, dbVars, reaperVars, Blobs
<1>4. NotPublished' /\ StoredAll'
  BY DEF Inv, NotPublished, StoredAll, dbVars, reaperVars, Blobs
<1> QED BY <1>1, <1>2, <1>3, <1>4

\* A writer that rests claims nothing.
LEMMA RestType ==
  ASSUME TypeOK, NEW w \in Writers, Rest(w)
  PROVE  /\ pc' \in [Writers -> Phases]
         /\ want' \in [Writers -> SUBSET Addresses] /\ told' \in [Writers -> SUBSET Addresses]
         /\ left' \in [Writers -> SUBSET Addresses]
         /\ cur' \in [Writers -> Addresses \cup {None}]
         /\ putAge' \in [Writers -> [Addresses -> Ages]]
         /\ newFile' \in [Writers -> Files \cup {None}]
         /\ pc'[w] = "idle" /\ want'[w] = {} /\ told'[w] = {}
         /\ \A v \in Writers : v # w =>
              /\ pc'[v] = pc[v] /\ want'[v] = want[v] /\ told'[v] = told[v] /\ left'[v] = left[v]
              /\ cur'[v] = cur[v] /\ putAge'[v] = putAge[v] /\ newFile'[v] = newFile[v]
         /\ \A v \in Writers : pc'[v] \in {"touch", "store", "stored"} => cur'[v] \in left'[v]
         /\ \A v \in Writers : pc'[v] \in {"creating", "created", "attaching"} => newFile'[v] \in Files
<1>1. "idle" \in Phases /\ Grace + 1 \in Ages
  BY Kinds DEF Phases, Ages
<1>2. /\ pc' = [pc EXCEPT ![w] = "idle"]
      /\ want' = [want EXCEPT ![w] = {}] /\ told' = [told EXCEPT ![w] = {}]
      /\ left' = [left EXCEPT ![w] = {}]
      /\ cur' = [cur EXCEPT ![w] = None]
      /\ putAge' = [putAge EXCEPT ![w] = [a \in Addresses |-> Grace + 1]]
      /\ newFile' = [newFile EXCEPT ![w] = None]
  BY DEF Rest
<1>3. [a \in Addresses |-> Grace + 1] \in [Addresses -> Ages]
  BY <1>1
<1>4. putAge' \in [Writers -> [Addresses -> Ages]] /\ \A v \in Writers : v # w => putAge'[v] = putAge[v]
  <2> DEFINE never == [a \in Addresses |-> Grace + 1]
  <2>1. never \in [Addresses -> Ages] /\ putAge' = [putAge EXCEPT ![w] = never]
    BY <1>2, <1>3
  <2> HIDE DEF never
  <2> QED BY <2>1 DEF TypeOK
<1>5. /\ pc' \in [Writers -> Phases] /\ pc'[w] = "idle"
      /\ \A v \in Writers : v # w => pc'[v] = pc[v]
  BY <1>1, <1>2 DEF TypeOK
<1>6. /\ want' \in [Writers -> SUBSET Addresses] /\ told' \in [Writers -> SUBSET Addresses]
      /\ left' \in [Writers -> SUBSET Addresses] /\ want'[w] = {} /\ told'[w] = {}
      /\ \A v \in Writers : v # w => want'[v] = want[v] /\ told'[v] = told[v] /\ left'[v] = left[v]
  BY <1>2 DEF TypeOK
<1>7. /\ cur' \in [Writers -> Addresses \cup {None}] /\ newFile' \in [Writers -> Files \cup {None}]
      /\ \A v \in Writers : v # w => cur'[v] = cur[v] /\ newFile'[v] = newFile[v]
  BY <1>2 DEF TypeOK
<1>8. \A v \in Writers : pc'[v] \in {"touch", "store", "stored"} => cur'[v] \in left'[v]
  BY <1>5, <1>6, <1>7 DEF TypeOK
<1>9. \A v \in Writers : pc'[v] \in {"creating", "created", "attaching"} => newFile'[v] \in Files
  BY <1>5, <1>7 DEF TypeOK
<1> QED BY <1>4, <1>5, <1>6, <1>7, <1>8, <1>9

\* Nor does what the others claim change.
LEMMA RestClaims ==
  ASSUME TypeOK, NEW w \in Writers, Rest(w), InFlight, PutKept, OwnBytes,
         UNCHANGED <<blobAge, fileAge, layer, reaping, locked>>,
         \A v \in Writers : \A a \in Addresses : v # w /\ v \in holders[a] => v \in holders'[a]
  PROVE  InFlight' /\ PutKept' /\ OwnBytes'
<1>1. /\ pc'[w] = "idle" /\ want'[w] = {} /\ told'[w] = {}
      /\ \A v \in Writers : v # w =>
           /\ pc'[v] = pc[v] /\ want'[v] = want[v] /\ told'[v] = told[v] /\ left'[v] = left[v]
           /\ cur'[v] = cur[v] /\ putAge'[v] = putAge[v] /\ newFile'[v] = newFile[v]
  BY RestType
<1>2. InFlight'
  BY <1>1, Kinds DEF InFlight, Uses, ReaperHolds, Blobs, FileRows
<1>3. PutKept'
  <2> SUFFICES ASSUME NEW v \in Writers, NEW a \in Addresses
               PROVE  (/\ putAge[v][a] <= Grace /\ a \in want[v] \ left[v] =>
                            Kept(v, a) /\ (v \in Uploaders => v \in holders[a])
                       /\ putAge[v][a] <= Grace /\ pc[v] = "stored" /\ cur[v] = a => Kept(v, a)
                       /\ pc[v] = "store" /\ cur[v] = a /\ a \in Blobs => Kept(v, a))'
    BY DEF PutKept
  <2>1. CASE v = w
    BY <1>1, <2>1
  <2>2. CASE v # w
    BY <1>1, <2>2 DEF PutKept, Kept, Blobs
  <2> QED BY <2>1, <2>2
<1>4. OwnBytes'
  BY <1>1, Kinds DEF OwnBytes
<1> QED BY <1>2, <1>3, <1>4

LEMMA GiveUpStep ==
  ASSUME Inv, NEW w \in Writers, GiveUp(w)
  PROVE  Inv'
<1>1. Rest(w) /\ UNCHANGED <<dbVars, reaperVars>>
  BY DEF GiveUp
<1>2. TypeOK'
  BY <1>1, RestType DEF Inv, TypeOK, dbVars, reaperVars, Rows, Blobs, FileRows
<1>3. InFlight' /\ PutKept' /\ OwnBytes'
  BY <1>1, RestClaims DEF Inv, dbVars, reaperVars
<1> QED BY <1>1, <1>2, <1>3, WriterFrame DEF Inv

LEMMA BeginStep ==
  ASSUME Inv, NEW w \in Writers, NEW S \in SUBSET Addresses, NEW T \in SUBSET Addresses, Begin(w, S, T),
         ~OwnTheme /\ w \in Builders => T = {}
  PROVE  Inv'
<1>1. /\ want' = [want EXCEPT ![w] = S] /\ told' = [told EXCEPT ![w] = T]
      /\ left' = [left EXCEPT ![w] = S]
      /\ pc' = [pc EXCEPT ![w] = "put"] /\ pc[w] = "idle"
      /\ UNCHANGED <<dbVars, cur, putAge, newFile, reaperVars>>
  BY DEF Begin
<1>2. TypeOK'
  BY <1>1 DEF Inv, TypeOK, dbVars, reaperVars, Rows, Blobs, FileRows, Phases
<1>3. /\ pc'[w] = "put" /\ want'[w] = S /\ told'[w] = T /\ left'[w] = S
      /\ \A v \in Writers : v # w =>
           pc'[v] = pc[v] /\ want'[v] = want[v] /\ told'[v] = told[v] /\ left'[v] = left[v]
  BY <1>1 DEF Inv, TypeOK
<1>4. InFlight'
  BY <1>1, <1>3, Kinds DEF Inv, InFlight, Uses, ReaperHolds, Blobs, FileRows, dbVars, reaperVars
<1>5. PutKept'
  BY <1>1, <1>3 DEF Inv, PutKept, Kept, Blobs, dbVars
<1>6. OwnBytes'
  BY <1>3, Kinds DEF Inv, OwnBytes
<1> QED BY <1>1, <1>2, <1>4, <1>5, <1>6, WriterFrame DEF Inv

\* The clock of a Put starts at its look; what isn't there has no row to be older.
LEMMA PutLookStep ==
  ASSUME Inv, NEW w \in Writers, NEW a \in Addresses, PutLook(w, a)
  PROVE  Inv'
<1>1. /\ pc[w] = "put" /\ a \in left[w]
      /\ cur' = [cur EXCEPT ![w] = a]
      /\ putAge' = [putAge EXCEPT ![w][a] = 0]
      /\ pc' = [pc EXCEPT ![w] = IF Has(a) THEN "touch" ELSE "store"]
      /\ UNCHANGED <<dbVars, want, told, left, newFile, reaperVars>>
  BY DEF PutLook
<1>2. 0 \in Ages
  BY Kinds DEF Ages
<1>3. /\ putAge' \in [Writers -> [Addresses -> Ages]]
      /\ \A v \in Writers, b \in Addresses : v # w \/ b # a => putAge'[v][b] = putAge[v][b]
  <2>1. putAge \in [Writers -> [Addresses -> Ages]]
    BY DEF Inv, TypeOK
  <2>2. [putAge[w] EXCEPT ![a] = 0] \in [Addresses -> Ages]
    BY <1>2, <2>1
  <2>3. putAge' = [putAge EXCEPT ![w] = [putAge[w] EXCEPT ![a] = 0]]
    BY <1>1
  <2> QED BY <2>1, <2>2, <2>3
<1>4. /\ pc' \in [Writers -> Phases] /\ pc'[w] \in {"touch", "store"}
      /\ pc'[w] = "store" => a \notin data
      /\ cur' \in [Writers -> Addresses \cup {None}] /\ cur'[w] = a
      /\ \A v \in Writers : v # w => pc'[v] = pc[v] /\ cur'[v] = cur[v]
  BY <1>1 DEF Inv, TypeOK, Phases, Has
<1>5. TypeOK'
  <2>1. \A v \in Writers : pc'[v] \in {"touch", "store", "stored"} => cur'[v] \in left'[v]
    BY <1>1, <1>4 DEF Inv, TypeOK
  <2>2. \A v \in Writers : pc'[v] \in {"creating", "created", "attaching"} => newFile'[v] \in Files
    BY <1>1, <1>4 DEF Inv, TypeOK
  <2> QED BY <1>1, <1>3, <1>4, <2>1, <2>2 DEF Inv, TypeOK, dbVars, reaperVars, Rows, Blobs, FileRows
<1>6. InFlight'
  BY <1>1, <1>4, Kinds DEF Inv, InFlight, Uses, ReaperHolds, Blobs, FileRows, dbVars, reaperVars
<1>7. PutKept'
  <2> SUFFICES ASSUME NEW v \in Writers, NEW b \in Addresses
               PROVE  (/\ putAge[v][b] <= Grace /\ b \in want[v] \ left[v] =>
                            Kept(v, b) /\ (v \in Uploaders => v \in holders[b])
                       /\ putAge[v][b] <= Grace /\ pc[v] = "stored" /\ cur[v] = b => Kept(v, b)
                       /\ pc[v] = "store" /\ cur[v] = b /\ b \in Blobs => Kept(v, b))'
    BY DEF PutKept
  <2>1. CASE v # w
    BY <1>1, <1>3, <1>4, <2>1 DEF Inv, PutKept, Kept, Blobs, dbVars
  <2>2. CASE v = w /\ b # a
    BY <1>1, <1>3, <1>4, <2>2 DEF Inv, PutKept, Kept, Blobs, dbVars
  <2>3. CASE v = w /\ b = a
    <3>1. b \notin want'[v] \ left'[v]
      BY <1>1, <2>3
    <3>2. pc'[v] # "stored"
      BY <1>4, <2>3
    <3>3. pc'[v] = "store" => b \notin Blobs'
      BY <1>1, <1>4, <2>3 DEF Inv, BytesWithRow, Blobs, dbVars
    <3> QED BY <3>1, <3>2, <3>3
  <2> QED BY <2>1, <2>2, <2>3
<1>8. OwnBytes'
  BY <1>1 DEF Inv, OwnBytes
<1> QED BY <1>1, <1>5, <1>6, <1>7, <1>8, WriterFrame DEF Inv

\* An address is struck off what is left to store.
LEMMA StoredType ==
  ASSUME TypeOK, NEW w \in Writers, Stored(w)
  PROVE  /\ left' \in [Writers -> SUBSET Addresses] /\ left'[w] = left[w] \ {cur[w]}
         /\ cur' \in [Writers -> Addresses \cup {None}] /\ cur'[w] = None
         /\ pc' \in [Writers -> Phases] /\ pc'[w] = "put"
         /\ \A v \in Writers : v # w => pc'[v] = pc[v] /\ left'[v] = left[v] /\ cur'[v] = cur[v]
<1>1. left' = [left EXCEPT ![w] = left[w] \ {cur[w]}]
  BY DEF Stored
<1> QED BY <1>1 DEF Stored, TypeOK, Phases

\* It was kept under way and is kept now.
LEMMA StoredClaims ==
  ASSUME TypeOK, PutKept, NEW w \in Writers, pc[w] = "stored", Stored(w),
         UNCHANGED <<blobAge, want, putAge>>,
         \A v \in Writers : \A a \in Addresses : v \in holders[a] => v \in holders'[a],
         w \in Uploaders => w \in holders'[cur[w]]
  PROVE  PutKept'
<1>1. /\ left'[w] = left[w] \ {cur[w]} /\ pc'[w] = "put"
      /\ \A v \in Writers : v # w => pc'[v] = pc[v] /\ left'[v] = left[v] /\ cur'[v] = cur[v]
  BY StoredType
<1> SUFFICES ASSUME NEW v \in Writers, NEW b \in Addresses
             PROVE  (/\ putAge[v][b] <= Grace /\ b \in want[v] \ left[v] =>
                          Kept(v, b) /\ (v \in Uploaders => v \in holders[b])
                     /\ putAge[v][b] <= Grace /\ pc[v] = "stored" /\ cur[v] = b => Kept(v, b)
                     /\ pc[v] = "store" /\ cur[v] = b /\ b \in Blobs => Kept(v, b))'
  BY DEF PutKept
<1>2. CASE v # w
  BY <1>1, <1>2 DEF PutKept, Kept, Blobs
<1>3. CASE v = w
  BY <1>1, <1>3 DEF PutKept, Kept, Blobs
<1> QED BY <1>2, <1>3

LEMMA PutDoneStep ==
  ASSUME Inv, NEW w \in Writers, PutDone(w)
  PROVE  Inv'
<1>1. w \in Publishers /\ pc[w] = "stored" /\ Stored(w)
      /\ UNCHANGED <<dbVars, want, told, putAge, newFile, reaperVars>>
  BY DEF PutDone
<1>2. w \notin Uploaders
  BY <1>1, CasAssumption
<1>3. /\ left' \in [Writers -> SUBSET Addresses] /\ left'[w] = left[w] \ {cur[w]}
      /\ cur' \in [Writers -> Addresses \cup {None}]
      /\ pc' \in [Writers -> Phases] /\ pc'[w] = "put"
      /\ \A v \in Writers : v # w => pc'[v] = pc[v] /\ left'[v] = left[v] /\ cur'[v] = cur[v]
  BY <1>1, StoredType DEF Inv
<1>4. TypeOK'
  <2>1. \A v \in Writers : pc'[v] \in {"touch", "store", "stored"} => cur'[v] \in left'[v]
    BY <1>1, <1>3 DEF Inv, TypeOK
  <2>2. \A v \in Writers : pc'[v] \in {"creating", "created", "attaching"} => newFile'[v] \in Files
    BY <1>1, <1>3 DEF Inv, TypeOK
  <2> QED BY <1>1, <1>3, <2>1, <2>2 DEF Inv, TypeOK, dbVars, reaperVars, Rows, Blobs, FileRows
<1>5. InFlight'
  BY <1>1, <1>3, Kinds DEF Inv, InFlight, Uses, ReaperHolds, Blobs, FileRows, dbVars, reaperVars
<1>6. PutKept'
  BY <1>1, <1>2, StoredClaims DEF Inv, dbVars
<1>7. OwnBytes'
  BY <1>1 DEF Inv, OwnBytes
<1> QED BY <1>1, <1>4, <1>5, <1>6, <1>7, WriterFrame DEF Inv

\* The holder's row is noted while the blob is there, or the upload is refused.
LEMMA NoteHolderStep ==
  ASSUME Inv, NEW w \in Writers, NoteHolder(w)
  PROVE  Inv'
<1>1. /\ w \in Uploaders /\ pc[w] = "stored"
      /\ UNCHANGED <<blobAge, data, fileAge, chunks, attFile, attLive, published, theme, reaperVars>>
  BY DEF NoteHolder
<1>2. References' /\ Cutoff' /\ NotPublished' /\ StoredAll'
  <2>1. References'
    BY <1>1 DEF Inv, References, FileRows, Blobs
  <2>2. Cutoff'
    BY <1>1 DEF Inv, Cutoff, reaperVars, Blobs
  <2>3. NotPublished' /\ StoredAll'
    BY <1>1 DEF Inv, NotPublished, StoredAll, reaperVars, Blobs
  <2> QED BY <2>1, <2>2, <2>3
<1>3. CASE /\ cur[w] \in Blobs
           /\ holders' = [holders EXCEPT ![cur[w]] = holders[cur[w]] \cup {w}]
           /\ Stored(w)
           /\ UNCHANGED <<want, told, putAge, newFile>>
  <2>1. /\ holders' \in [Addresses -> SUBSET Uploaders]
        /\ w \in holders'[cur[w]]
        /\ \A a \in Addresses : holders[a] \subseteq holders'[a] /\ (a # cur[w] => holders'[a] = holders[a])
    BY <1>1, <1>3 DEF Inv, TypeOK, Blobs
  <2>2. /\ left' \in [Writers -> SUBSET Addresses] /\ left'[w] = left[w] \ {cur[w]}
        /\ cur' \in [Writers -> Addresses \cup {None}]
        /\ pc' \in [Writers -> Phases] /\ pc'[w] = "put"
        /\ \A v \in Writers : v # w => pc'[v] = pc[v] /\ left'[v] = left[v] /\ cur'[v] = cur[v]
    BY <1>3, StoredType DEF Inv
  <2>3. TypeOK'
    <3>1. \A v \in Writers : pc'[v] \in {"touch", "store", "stored"} => cur'[v] \in left'[v]
      BY <2>2 DEF Inv, TypeOK
    <3>2. \A v \in Writers : pc'[v] \in {"creating", "created", "attaching"} => newFile'[v] \in Files
      BY <1>3, <2>2 DEF Inv, TypeOK
    <3> QED BY <1>1, <1>3, <2>1, <2>2, <3>1, <3>2 DEF Inv, TypeOK, reaperVars, Rows, Blobs, FileRows
  <2>4. InFlight'
    BY <1>1, <1>3, <2>2, Kinds DEF Inv, InFlight, Uses, ReaperHolds, Blobs, FileRows, reaperVars
  <2>5. PutKept'
    BY <1>1, <1>3, <2>1, StoredClaims DEF Inv
  <2>6. OwnBytes'
    BY <1>3 DEF Inv, OwnBytes
  <2>7. BytesWithRow'
    BY <1>1, <1>3, <2>1 DEF Inv, BytesWithRow, Blobs
  <2> QED BY <1>2, <2>3, <2>4, <2>5, <2>6, <2>7 DEF Inv
<1>4. CASE Rest(w) /\ UNCHANGED holders
  <2>1. TypeOK'
    BY <1>1, <1>4, RestType DEF Inv, TypeOK, reaperVars, Rows, Blobs, FileRows
  <2>2. InFlight' /\ PutKept' /\ OwnBytes'
    BY <1>1, <1>4, RestClaims DEF Inv, reaperVars
  <2>3. BytesWithRow'
    BY <1>1, <1>4 DEF Inv, BytesWithRow, Blobs
  <2> QED BY <1>2, <2>1, <2>2, <2>3 DEF Inv
<1> QED BY <1>3, <1>4 DEF NoteHolder

\* A row is touched, or its clock begins: it is younger than anyone's Put, and out
\* of the reaper's reach.
LEMMA Younger ==
  ASSUME Inv, NEW w \in Writers, NEW a \in Addresses,
         cur[w] = a, pc[w] \in {"touch", "store"},
         blobAge' = [blobAge EXCEPT ![a] = 0],
         pc' = [pc EXCEPT ![w] = "stored"],
         past' = past \ {a}, ~ReaperHolds("blob", a),
         data' = data \cup {a},
         UNCHANGED <<holders, fileAge, chunks, attFile, attLive, published, theme,
                     want, told, left, cur, putAge, newFile, layer, todo, reaping, locked>>
  PROVE  Inv'
<1>1. 0 \in Ages /\ 0 # None
  BY Kinds DEF Ages
<1>2. /\ blobAge' \in [Addresses -> Ages \cup {None}] /\ blobAge'[a] = 0
      /\ \A b \in Addresses : b # a => blobAge'[b] = blobAge[b]
  BY <1>1 DEF Inv, TypeOK
<1>3. Blobs' = Blobs \cup {a}
  BY <1>1, <1>2 DEF Blobs
<1>4. /\ pc' \in [Writers -> Phases] /\ pc'[w] = "stored"
      /\ \A v \in Writers : v # w => pc'[v] = pc[v]
  BY DEF Inv, TypeOK, Phases
<1>5. TypeOK'
  <2>1. locked' => reaping' \in Rows(layer)'
    BY <1>3 DEF Inv, TypeOK, Rows, FileRows
  <2>2. \A v \in Writers : pc'[v] \in {"touch", "store", "stored"} => cur'[v] \in left'[v]
    BY <1>4 DEF Inv, TypeOK
  <2>3. \A v \in Writers : pc'[v] \in {"creating", "created", "attaching"} => newFile'[v] \in Files
    BY <1>4 DEF Inv, TypeOK
  <2> QED BY <1>2, <1>4, <2>1, <2>2, <2>3 DEF Inv, TypeOK
<1>6. References'
  BY <1>3 DEF Inv, References, FileRows
<1>7. InFlight'
  BY <1>3, <1>4, Kinds DEF Inv, InFlight, Uses, ReaperHolds, FileRows
<1>8. BytesWithRow'
  BY <1>3 DEF Inv, BytesWithRow
<1>9. PutKept'
  <2> SUFFICES ASSUME NEW v \in Writers, NEW b \in Addresses
               PROVE  (/\ putAge[v][b] <= Grace /\ b \in want[v] \ left[v] =>
                            Kept(v, b) /\ (v \in Uploaders => v \in holders[b])
                       /\ putAge[v][b] <= Grace /\ pc[v] = "stored" /\ cur[v] = b => Kept(v, b)
                       /\ pc[v] = "store" /\ cur[v] = b /\ b \in Blobs => Kept(v, b))'
    BY DEF PutKept
  <2>1. CASE b = a
    <3>1. putAge[v][a] \in Nat
      BY Kinds DEF Inv, TypeOK, Ages
    <3>2. Kept(v, a)'
      BY <1>2, <1>3, <3>1 DEF Kept
    <3> QED BY <2>1, <3>2 DEF Inv, PutKept
  <2>2. CASE b # a
    <3>1. b \in Blobs' => b \in Blobs
      BY <1>3, <2>2
    <3>2. Kept(v, b) => Kept(v, b)'
      BY <1>2, <1>3, <2>2 DEF Kept
    <3>3. pc'[v] = "stored" /\ cur'[v] = b => pc[v] = "stored"
      BY <1>4, <2>2
    <3>4. pc'[v] = "store" => pc[v] = "store"
      BY <1>4
    <3> QED BY <3>1, <3>2, <3>3, <3>4 DEF Inv, PutKept
  <2> QED BY <2>1, <2>2
<1>10. Cutoff'
  <2>1. layer = "blob" /\ locked => reaping # a
    BY DEF ReaperHolds
  <2> QED BY <1>2, <1>3, <2>1 DEF Inv, Cutoff
<1>11. NotPublished' /\ OwnBytes' /\ StoredAll'
  BY <1>3 DEF Inv, NotPublished, OwnBytes, StoredAll
<1> QED BY <1>5, <1>6, <1>7, <1>8, <1>9, <1>10, <1>11 DEF Inv

LEMMA PutTouchStep ==
  ASSUME Inv, NEW w \in Writers, PutTouch(w)
  PROVE  Inv'
<1>1. /\ pc[w] = "touch" /\ ~ReaperHolds("blob", cur[w])
      /\ UNCHANGED <<data, holders, fileAge, chunks, attFile, attLive, published, theme,
                     want, told, left, cur, putAge, newFile, layer, todo, reaping, locked>>
  BY DEF PutTouch
<1>2. cur[w] \in Addresses
  BY <1>1 DEF Inv, TypeOK
<1>3. CASE /\ cur[w] \in Blobs
           /\ blobAge' = Touched(cur[w])
           /\ past' = {k \in past : k = cur[w] => blobAge'[k] > 0}
           /\ pc' = [pc EXCEPT ![w] = "stored"]
  <2>1. blobAge' = [blobAge EXCEPT ![cur[w]] = 0] /\ blobAge'[cur[w]] = 0
    BY <1>2, <1>3 DEF Touched, Inv, TypeOK
  <2>2. past' = past \ {cur[w]}
    BY <1>3, <2>1
  <2>3. data' = data \cup {cur[w]}
    BY <1>1, <1>3 DEF Inv, BytesWithRow
  <2> QED BY <1>1, <1>2, <1>3, <2>1, <2>2, <2>3, Younger
<1>4. CASE /\ cur[w] \notin Blobs
           /\ pc' = [pc EXCEPT ![w] = "store"]
           /\ UNCHANGED <<blobAge, past>>
  <2>1. UNCHANGED <<dbVars, reaperVars>>
    BY <1>1, <1>4 DEF dbVars, reaperVars
  <2>2. /\ pc' \in [Writers -> Phases] /\ pc'[w] = "store"
        /\ \A v \in Writers : v # w => pc'[v] = pc[v]
    BY <1>4 DEF Inv, TypeOK, Phases
  <2>3. TypeOK'
    <3>1. \A v \in Writers : pc'[v] \in {"touch", "store", "stored"} => cur'[v] \in left'[v]
      BY <1>1, <2>2 DEF Inv, TypeOK
    <3>2. \A v \in Writers : pc'[v] \in {"creating", "created", "attaching"} => newFile'[v] \in Files
      BY <1>1, <2>2 DEF Inv, TypeOK
    <3> QED BY <1>1, <1>4, <2>2, <3>1, <3>2 DEF Inv, TypeOK, Rows, Blobs, FileRows
  <2>4. InFlight'
    BY <1>1, <1>4, <2>2, Kinds DEF Inv, InFlight, Uses, ReaperHolds, Blobs, FileRows
  <2>5. PutKept'
    BY <1>1, <1>4, <2>2 DEF Inv, PutKept, Kept, Blobs
  <2>6. OwnBytes'
    BY <1>1 DEF Inv, OwnBytes
  <2> QED BY <2>1, <2>3, <2>4, <2>5, <2>6, WriterFrame DEF Inv
<1> QED BY <1>3, <1>4 DEF PutTouch

LEMMA PutStoreStep ==
  ASSUME Inv, NEW w \in Writers, PutStore(w)
  PROVE  Inv'
<1>1. /\ pc[w] = "store"
      /\ data' = data \cup {cur[w]}
      /\ pc' = [pc EXCEPT ![w] = "stored"]
      /\ UNCHANGED <<holders, fileAge, chunks, attFile, attLive, published, theme,
                     want, told, left, cur, putAge, newFile, layer, todo, reaping, locked>>
  BY DEF PutStore
<1>2. cur[w] \in Addresses
  BY <1>1 DEF Inv, TypeOK
<1>3. CASE cur[w] \in Blobs
  <2>1. UNCHANGED <<blobAge, past, data>>
    BY <1>1, <1>3 DEF PutStore, Inv, BytesWithRow
  <2>2. UNCHANGED <<dbVars, reaperVars>>
    BY <1>1, <2>1 DEF dbVars, reaperVars
  <2>3. /\ pc' \in [Writers -> Phases] /\ pc'[w] = "stored"
        /\ \A v \in Writers : v # w => pc'[v] = pc[v]
    BY <1>1 DEF Inv, TypeOK, Phases
  <2>4. TypeOK'
    <3>1. \A v \in Writers : pc'[v] \in {"touch", "store", "stored"} => cur'[v] \in left'[v]
      BY <1>1, <2>3 DEF Inv, TypeOK
    <3>2. \A v \in Writers : pc'[v] \in {"creating", "created", "attaching"} => newFile'[v] \in Files
      BY <1>1, <2>3 DEF Inv, TypeOK
    <3> QED BY <1>1, <2>1, <2>3, <3>1, <3>2 DEF Inv, TypeOK, Rows, Blobs, FileRows
  <2>5. InFlight'
    BY <1>1, <2>1, <2>3, Kinds DEF Inv, InFlight, Uses, ReaperHolds, Blobs, FileRows
  <2>6. PutKept'
    BY <1>1, <1>3, <2>1, <2>3 DEF Inv, PutKept, Kept, Blobs
  <2>7. OwnBytes'
    BY <1>1 DEF Inv, OwnBytes
  <2> QED BY <2>2, <2>4, <2>5, <2>6, <2>7, WriterFrame DEF Inv
<1>4. CASE cur[w] \notin Blobs
  <2>1. blobAge' = [blobAge EXCEPT ![cur[w]] = 0] /\ past' = past \ {cur[w]}
    BY <1>4 DEF PutStore
  <2>2. ~ReaperHolds("blob", cur[w])
    BY <1>4, LockedRow DEF Inv, ReaperHolds
  <2> QED BY <1>1, <1>2, <2>1, <2>2, Younger
<1> QED BY <1>3, <1>4
-----------------------------------------------------------------------------
\* A writer moves on, with its claims as they are: pc and newFile alone change.
LEMMA MovesOn ==
  ASSUME Inv, NEW w \in Uploaders, NEW phase \in {"creating", "created", "attaching"}, NEW f \in Files,
         pc[w] \notin {"stored", "store", "touch"},
         pc' = [pc EXCEPT ![w] = phase], newFile' = [newFile EXCEPT ![w] = f],
         UNCHANGED <<dbVars, want, told, left, cur, putAge, reaperVars>>,
         phase = "creating" => \A a \in Uses(w) : a \in Blobs /\ ~ReaperHolds("blob", a),
         phase = "attaching" => f \in FileRows /\ ~ReaperHolds("file", f)
  PROVE  Inv'
<1>1. w \in Writers
  BY Kinds
<1>2. /\ pc' \in [Writers -> Phases] /\ pc'[w] = phase
      /\ newFile' \in [Writers -> Files \cup {None}] /\ newFile'[w] = f
      /\ \A v \in Writers : v # w => pc'[v] = pc[v] /\ newFile'[v] = newFile[v]
  BY <1>1 DEF Inv, TypeOK, Phases
<1>3. TypeOK'
  <2>1. \A v \in Writers : pc'[v] \in {"touch", "store", "stored"} => cur'[v] \in left'[v]
    BY <1>2 DEF Inv, TypeOK
  <2>2. \A v \in Writers : pc'[v] \in {"creating", "created", "attaching"} => newFile'[v] \in Files
    BY <1>2 DEF Inv, TypeOK
  <2> QED BY <1>2, <2>1, <2>2 DEF Inv, TypeOK, dbVars, reaperVars, Rows, Blobs, FileRows
<1>4. InFlight'
  BY <1>2, Kinds DEF Inv, InFlight, Uses, ReaperHolds, Blobs, FileRows, dbVars, reaperVars
<1>5. PutKept'
  BY <1>2 DEF Inv, PutKept, Kept, Blobs, dbVars
<1>6. OwnBytes'
  BY DEF Inv, OwnBytes
<1> QED BY <1>3, <1>4, <1>5, <1>6, WriterFrame DEF Inv

\* A refused call leaves the database and the reaper alone.
LEMMA RefusedStep ==
  ASSUME Inv, NEW w \in Writers, Rest(w), UNCHANGED <<dbVars, reaperVars>>
  PROVE  Inv'
<1>1. TypeOK'
  BY RestType DEF Inv, TypeOK, dbVars, reaperVars, Rows, Blobs, FileRows
<1>2. InFlight' /\ PutKept' /\ OwnBytes'
  BY RestClaims DEF Inv, dbVars, reaperVars
<1> QED BY <1>1, <1>2, WriterFrame DEF Inv

LEMMA CreateFileStep ==
  ASSUME Inv, NEW w \in Uploaders, NEW f \in Files, CreateFile(w, f)
  PROVE  Inv'
<1>1. pc[w] = "put" /\ w \in Writers /\ UNCHANGED <<dbVars, reaperVars>>
  BY Kinds DEF CreateFile, Ready
<1>2. CASE MayCreate(w)
  <2>1. /\ \A a \in Uses(w) : a \in Blobs /\ ~ReaperHolds("blob", a)
        /\ pc' = [pc EXCEPT ![w] = "creating"]
        /\ newFile' = [newFile EXCEPT ![w] = f]
        /\ UNCHANGED <<want, told, left, cur, putAge>>
    BY <1>2 DEF CreateFile, MayCreate
  <2> QED BY <1>1, <2>1, MovesOn
<1>3. CASE ~MayCreate(w)
  BY <1>1, <1>3, RefusedStep DEF CreateFile
<1> QED BY <1>2, <1>3

LEMMA PickFileStep ==
  ASSUME Inv, NEW w \in Uploaders, NEW f \in Files, PickFile(w, f)
  PROVE  Inv'
BY MovesOn DEF PickFile

LEMMA AttachStep ==
  ASSUME Inv, NEW w \in Uploaders, Attach(w)
  PROVE  Inv'
<1>1. pc[w] = "created" /\ ~ReaperHolds("file", newFile[w]) /\ w \in Writers /\ UNCHANGED <<dbVars, reaperVars>>
  BY Kinds DEF Attach
<1>2. CASE newFile[w] \in FileRows
  <2>1. pc' = [pc EXCEPT ![w] = "attaching"] /\ UNCHANGED <<want, told, left, cur, putAge, newFile>>
    BY <1>2 DEF Attach
  <2>2. newFile' = [newFile EXCEPT ![w] = newFile[w]] /\ newFile[w] \in Files
    BY <1>2, <2>1 DEF Inv, TypeOK, FileRows
  <2> QED BY <1>1, <1>2, <2>1, <2>2, MovesOn
<1>3. CASE newFile[w] \notin FileRows
  BY <1>1, <1>3, RefusedStep DEF Attach
<1> QED BY <1>2, <1>3

\* The file's row and its list of chunks, all of them stored and locked until now.
LEMMA CommitFileStep ==
  ASSUME Inv, NEW w \in Uploaders, CommitFile(w)
  PROVE  Inv'
<1> DEFINE f == newFile[w]
           never == [a \in Addresses |-> Grace + 1]
           used == Uses(w)
<1>1. /\ w \in Writers /\ pc[w] = "creating" /\ f \in Files
      /\ used \in SUBSET Addresses /\ used \subseteq Blobs
      /\ never \in [Addresses -> Ages] /\ 0 \in Ages /\ 0 # None
  BY Kinds DEF CommitFile, Inv, TypeOK, InFlight, Uses, Ages
<1>2. /\ fileAge' = [fileAge EXCEPT ![f] = 0]
      /\ chunks' = [chunks EXCEPT ![f] = used]
      /\ past' = past \ {f}
      /\ pc' = [pc EXCEPT ![w] = "created"]
      /\ want' = [want EXCEPT ![w] = {}] /\ told' = [told EXCEPT ![w] = {}]
      /\ putAge' = [putAge EXCEPT ![w] = never]
      /\ UNCHANGED <<blobAge, data, holders, attFile, attLive, published, theme,
                     left, cur, newFile, layer, todo, reaping, locked>>
  BY DEF CommitFile
<1>3. f = newFile[w]
  OBVIOUS
<1> HIDE DEF f, never, used
<1>4. /\ fileAge' \in [Files -> Ages \cup {None}] /\ FileRows' = FileRows \cup {f}
      /\ chunks' \in [Files -> SUBSET Addresses] /\ chunks'[f] = used
      /\ \A g \in Files : g # f => chunks'[g] = chunks[g]
  <2>1. fileAge' \in [Files -> Ages \cup {None}] /\ \A g \in Files : fileAge'[g] = IF g = f THEN 0 ELSE fileAge[g]
    BY <1>1, <1>2 DEF Inv, TypeOK
  <2>2. FileRows' = FileRows \cup {f}
    BY <1>1, <2>1 DEF FileRows
  <2>3. /\ chunks' \in [Files -> SUBSET Addresses] /\ chunks'[f] = used
        /\ \A g \in Files : g # f => chunks'[g] = chunks[g]
    BY <1>1, <1>2 DEF Inv, TypeOK
  <2> QED BY <2>1, <2>2, <2>3
<1>5. /\ pc' \in [Writers -> Phases] /\ pc'[w] = "created"
      /\ \A v \in Writers : v # w => pc'[v] = pc[v]
  BY <1>1, <1>2 DEF Inv, TypeOK, Phases
<1>6. /\ want' \in [Writers -> SUBSET Addresses] /\ told' \in [Writers -> SUBSET Addresses]
      /\ want'[w] = {} /\ told'[w] = {}
      /\ \A v \in Writers : v # w => want'[v] = want[v] /\ told'[v] = told[v]
  BY <1>1, <1>2 DEF Inv, TypeOK
<1>7. /\ putAge' \in [Writers -> [Addresses -> Ages]]
      /\ \A v \in Writers : v # w => putAge'[v] = putAge[v]
  BY <1>1, <1>2 DEF Inv, TypeOK
<1>8. Blobs' = Blobs
  BY <1>2 DEF Blobs
<1>9. TypeOK'
  <2>1. locked' => reaping' \in Rows(layer)'
    BY <1>2, <1>4, <1>8 DEF Inv, TypeOK, Rows
  <2>2. \A v \in Writers : pc'[v] \in {"touch", "store", "stored"} => cur'[v] \in left'[v]
    BY <1>2, <1>5 DEF Inv, TypeOK
  <2>3. \A v \in Writers : pc'[v] \in {"creating", "created", "attaching"} => newFile'[v] \in Files
    BY <1>1, <1>2, <1>3, <1>5 DEF Inv, TypeOK
  <2> QED BY <1>2, <1>4, <1>5, <1>6, <1>7, <2>1, <2>2, <2>3 DEF Inv, TypeOK
<1>10. References'
  BY <1>1, <1>2, <1>4, <1>8 DEF Inv, References, FileRows
<1>11. InFlight'
  BY <1>2, <1>4, <1>5, <1>6, <1>8, Kinds DEF Inv, InFlight, Uses, ReaperHolds
<1>12. BytesWithRow'
  BY <1>2, <1>8 DEF Inv, BytesWithRow
<1>13. PutKept'
  <2> SUFFICES ASSUME NEW v \in Writers, NEW b \in Addresses
               PROVE  (/\ putAge[v][b] <= Grace /\ b \in want[v] \ left[v] =>
                            Kept(v, b) /\ (v \in Uploaders => v \in holders[b])
                       /\ putAge[v][b] <= Grace /\ pc[v] = "stored" /\ cur[v] = b => Kept(v, b)
                       /\ pc[v] = "store" /\ cur[v] = b /\ b \in Blobs => Kept(v, b))'
    BY DEF PutKept
  <2>1. CASE v = w
    BY <1>5, <1>6, <2>1
  <2>2. CASE v # w
    BY <1>2, <1>5, <1>6, <1>7, <1>8, <2>2 DEF Inv, PutKept, Kept
  <2> QED BY <2>1, <2>2
<1>14. Cutoff' /\ NotPublished' /\ StoredAll'
  <2>1. Cutoff'
    BY <1>1, <1>2, <1>8, LockedRow, Kinds DEF Inv, Cutoff
  <2>2. NotPublished' /\ StoredAll'
    BY <1>2, <1>8 DEF Inv, NotPublished, StoredAll
  <2> QED BY <2>1, <2>2
<1>15. OwnBytes'
  BY <1>6, Kinds DEF Inv, OwnBytes
<1> QED BY <1>9, <1>10, <1>11, <1>12, <1>13, <1>14, <1>15 DEF Inv

\* The attachment's file is there: its transaction holds the file's row.
LEMMA CommitAttachStep ==
  ASSUME Inv, NEW w \in Uploaders, NEW t \in Attachments, CommitAttach(w, t)
  PROVE  Inv'
<1>1. /\ w \in Writers /\ newFile[w] \in Files /\ newFile[w] \in FileRows
      /\ attFile' = [attFile EXCEPT ![t] = newFile[w]]
      /\ attLive' = attLive \cup {t}
      /\ Rest(w)
      /\ UNCHANGED <<blobAge, data, holders, fileAge, chunks, published, theme, reaperVars>>
  BY Kinds DEF CommitAttach, Inv, InFlight, TypeOK
<1>2. attFile' \in [Attachments -> Files \cup {None}]
      /\ \A u \in Attachments : attFile'[u] = IF u = t THEN newFile[w] ELSE attFile[u]
  BY <1>1 DEF Inv, TypeOK
<1>3. Blobs' = Blobs /\ FileRows' = FileRows
  BY <1>1 DEF Blobs, FileRows
<1>4. TypeOK'
  <2>1. attLive' \subseteq Attachments
    BY <1>1 DEF Inv, TypeOK
  <2>2. (locked => reaping \in Rows(layer))'
    BY <1>1, <1>3 DEF Inv, TypeOK, Rows, reaperVars
  <2> QED BY <1>1, <1>2, <2>1, <2>2, RestType DEF Inv, TypeOK, reaperVars
<1>5. References'
  BY <1>1, <1>2, <1>3, Kinds DEF Inv, References, TypeOK
<1>6. InFlight' /\ PutKept' /\ OwnBytes'
  BY <1>1, RestClaims DEF Inv, reaperVars
<1>7. BytesWithRow' /\ StoredAll'
  BY <1>1, <1>3 DEF Inv, BytesWithRow, StoredAll
<1>8. Cutoff' /\ NotPublished'
  BY <1>1, <1>3 DEF Inv, Cutoff, NotPublished, reaperVars
<1> QED BY <1>4, <1>5, <1>6, <1>7, <1>8 DEF Inv

\* Attachments go; what they named may stay.
LEMMA FewerAttachments ==
  ASSUME Inv, NEW t \in Attachments,
         attFile' = attFile \/ attFile' = [attFile EXCEPT ![t] = None],
         attLive' = attLive \ {t},
         UNCHANGED <<blobAge, data, holders, fileAge, chunks, published, theme, writerVars, reaperVars>>
  PROVE  Inv'
<1>1. /\ attFile' \in [Attachments -> Files \cup {None}]
      /\ \A u \in Attachments : attFile'[u] = attFile[u] \/ (u = t /\ attFile'[u] = None)
  <2>1. attFile \in [Attachments -> Files \cup {None}]
    BY DEF Inv, TypeOK
  <2>2. CASE attFile' = attFile
    BY <2>1, <2>2
  <2>3. CASE attFile' = [attFile EXCEPT ![t] = None]
    BY <2>1, <2>3
  <2> QED BY <2>2, <2>3
<1>2. Blobs' = Blobs /\ FileRows' = FileRows
  BY DEF Blobs, FileRows
<1>3. TypeOK'
  BY <1>1, <1>2 DEF Inv, TypeOK, Rows, writerVars, reaperVars
<1>4. References'
  BY <1>1, <1>2 DEF Inv, References, TypeOK
<1>5. InFlight' /\ OwnBytes'
  BY <1>2 DEF Inv, InFlight, OwnBytes, Uses, ReaperHolds, writerVars, reaperVars
<1>6. PutKept'
  BY <1>2 DEF Inv, PutKept, Kept, writerVars
<1>7. BytesWithRow' /\ StoredAll' /\ Cutoff' /\ NotPublished'
  BY <1>2 DEF Inv, BytesWithRow, StoredAll, Cutoff, NotPublished, reaperVars
<1> QED BY <1>3, <1>4, <1>5, <1>6, <1>7 DEF Inv

LEMMA DetachStep ==
  ASSUME Inv, NEW t \in Attachments, Detach(t)
  PROVE  Inv'
BY FewerAttachments DEF Detach

LEMMA PurgeStep ==
  ASSUME Inv, NEW t \in Attachments, Purge(t)
  PROVE  Inv'
BY FewerAttachments DEF Purge

\* A publisher that stored all it wants in time: the bytes are there, and the
\* reaper's cutoff is behind them.
LEMMA WantedStored ==
  ASSUME Inv, NEW w \in Writers, Ready(w), InTime(w)
  PROVE  want[w] \subseteq Blobs /\ (layer = "blob" => want[w] \cap past = {})
<1> SUFFICES ASSUME NEW a \in want[w]
             PROVE  a \in Blobs /\ (layer = "blob" => a \notin past)
  OBVIOUS
<1>1. a \in Addresses /\ putAge[w][a] \in Nat /\ putAge[w][a] <= Grace
  BY Kinds DEF Inv, TypeOK, InTime, Ages
<1>2. a \in want[w] \ left[w]
  BY DEF Ready
<1>3. Kept(w, a)
  BY <1>1, <1>2 DEF Inv, PutKept
<1>4. blobAge[a] \in Nat
  BY <1>1, <1>3, Kinds DEF Inv, TypeOK, Kept, Blobs, Ages
<1>5. ~(blobAge[a] > Grace)
  BY <1>1, <1>3, <1>4, Kinds DEF Kept
<1> QED BY <1>3, <1>5 DEF Kept, Inv, Cutoff

\* Of the database, only what has no foreign key changes, and only to stored bytes
\* the reaper won't take.
LEMMA PublishedFrame ==
  ASSUME Inv,
         UNCHANGED <<blobAge, data, holders, fileAge, chunks, attFile, attLive, reaperVars>>,
         theme' \subseteq Addresses, published' \subseteq Addresses,
         theme' \subseteq Blobs, ~OwnTheme => published' \subseteq Blobs,
         layer = "blob" /\ reaping \in past =>
           reaping \notin theme' /\ (~OwnTheme => reaping \notin published')
  PROVE  References' /\ BytesWithRow' /\ Cutoff' /\ NotPublished' /\ StoredAll'
<1>1. Blobs' = Blobs /\ FileRows' = FileRows
  BY DEF Blobs, FileRows
<1>2. References' /\ BytesWithRow'
  BY <1>1 DEF Inv, References, BytesWithRow
<1>3. Cutoff' /\ NotPublished' /\ StoredAll'
  BY <1>1 DEF Inv, Cutoff, NotPublished, StoredAll, reaperVars
<1> QED BY <1>2, <1>3

LEMMA PublishStep ==
  ASSUME Inv, NEW w \in Builders, Publish(w)
  PROVE  Inv'
<1>1. /\ w \in Writers /\ Ready(w) /\ InTime(w) /\ Rest(w)
      /\ published' = Uses(w) \/ published' = Uses(w) \cup published
      /\ UNCHANGED <<blobAge, data, holders, fileAge, chunks, attFile, attLive, theme, reaperVars>>
  BY Kinds DEF Publish
<1>2. want[w] \subseteq Blobs /\ (layer = "blob" => want[w] \cap past = {})
  BY <1>1, WantedStored
<1>3. published' \subseteq Addresses
  BY <1>1 DEF Inv, TypeOK, Uses
<1>4. ~OwnTheme => Uses(w) = want[w]
  BY DEF Inv, OwnBytes, Uses
<1>5. ~OwnTheme => published' \subseteq Blobs
  BY <1>1, <1>2, <1>4 DEF Inv, StoredAll
<1>6. layer = "blob" /\ reaping \in past =>
        reaping \notin theme' /\ (~OwnTheme => reaping \notin published')
  BY <1>1, <1>2, <1>4 DEF Inv, NotPublished
<1>7. theme' \subseteq Addresses /\ theme' \subseteq Blobs
  BY <1>1 DEF Inv, TypeOK, StoredAll
<1>8. References' /\ BytesWithRow' /\ Cutoff' /\ NotPublished' /\ StoredAll'
  BY <1>1, <1>3, <1>5, <1>6, <1>7, PublishedFrame
<1>9. TypeOK'
  BY <1>1, <1>3, RestType DEF Inv, TypeOK, reaperVars, Rows, Blobs, FileRows
<1>10. InFlight' /\ PutKept' /\ OwnBytes'
  BY <1>1, RestClaims DEF Inv, reaperVars
<1> QED BY <1>8, <1>9, <1>10 DEF Inv

LEMMA PutThemeFileStep ==
  ASSUME Inv, NEW w \in Editors, PutThemeFile(w)
  PROVE  Inv'
<1>1. /\ w \in Writers /\ Ready(w) /\ InTime(w) /\ Rest(w)
      /\ theme' \subseteq theme \cup want[w]
      /\ UNCHANGED <<blobAge, data, holders, fileAge, chunks, attFile, attLive, published, reaperVars>>
  BY Kinds DEF PutThemeFile
<1>2. want[w] \subseteq Blobs /\ (layer = "blob" => want[w] \cap past = {})
  BY <1>1, WantedStored
<1>3. theme' \subseteq Addresses /\ theme' \subseteq Blobs
  BY <1>1, <1>2 DEF Inv, TypeOK, StoredAll
<1>4. layer = "blob" /\ reaping \in past =>
        reaping \notin theme' /\ (~OwnTheme => reaping \notin published')
  BY <1>1, <1>2 DEF Inv, NotPublished
<1>5. published' \subseteq Addresses /\ (~OwnTheme => published' \subseteq Blobs)
  BY <1>1 DEF Inv, TypeOK, StoredAll
<1>6. References' /\ BytesWithRow' /\ Cutoff' /\ NotPublished' /\ StoredAll'
  BY <1>1, <1>3, <1>4, <1>5, PublishedFrame
<1>7. TypeOK'
  BY <1>1, <1>3, RestType DEF Inv, TypeOK, reaperVars, Rows, Blobs, FileRows
<1>8. InFlight' /\ PutKept' /\ OwnBytes'
  BY <1>1, RestClaims DEF Inv, reaperVars
<1> QED BY <1>6, <1>7, <1>8 DEF Inv

LEMMA DeleteThemeFileStep ==
  ASSUME Inv, NEW a \in Addresses, DeleteThemeFile(a)
  PROVE  Inv'
<1>1. /\ theme' = theme \ {a}
      /\ UNCHANGED <<blobAge, data, holders, fileAge, chunks, attFile, attLive, published, writerVars, reaperVars>>
  BY DEF DeleteThemeFile
<1>2. References' /\ BytesWithRow' /\ Cutoff' /\ NotPublished' /\ StoredAll'
  BY <1>1, PublishedFrame DEF Inv, TypeOK, StoredAll, NotPublished
<1>3. TypeOK'
  BY <1>1 DEF Inv, TypeOK, writerVars, reaperVars, Rows, Blobs, FileRows
<1>4. InFlight' /\ OwnBytes'
  BY <1>1 DEF Inv, InFlight, OwnBytes, Uses, ReaperHolds, Blobs, FileRows, writerVars, reaperVars
<1>5. PutKept'
  BY <1>1 DEF Inv, PutKept, Kept, Blobs, writerVars
<1> QED BY <1>2, <1>3, <1>4, <1>5 DEF Inv
-----------------------------------------------------------------------------
\* The reaper's own steps, short of a delete: the database and the writers stay.
LEMMA ReaperFrame ==
  ASSUME Inv, UNCHANGED <<dbVars, writerVars>>,
         layer' \in {"file", "blob", "idle"},
         past' \subseteq Files \cup Addresses, todo' \subseteq Files \cup Addresses,
         reaping' \in Files \cup Addresses \cup {None}, locked' \in BOOLEAN,
         locked' => reaping' \in Rows(layer'),
         \A a \in Addresses : ReaperHolds("blob", a)' =>
           ReaperHolds("blob", a) \/ a \notin Shared("blob"),
         \A f \in Files : ReaperHolds("file", f)' =>
           ReaperHolds("file", f) \/ f \notin Shared("file"),
         Cutoff', NotPublished'
  PROVE  Inv'
<1>1. Blobs' = Blobs /\ FileRows' = FileRows
  BY DEF Blobs, FileRows, dbVars
<1>2. TypeOK'
  BY <1>1 DEF Inv, TypeOK, Rows, dbVars, writerVars
<1>3. References' /\ BytesWithRow' /\ StoredAll'
  BY <1>1 DEF Inv, References, BytesWithRow, StoredAll, dbVars
<1>4. PutKept' /\ OwnBytes'
  BY <1>1 DEF Inv, PutKept, OwnBytes, Kept, dbVars, writerVars
<1>5. InFlight'
  <2> SUFFICES ASSUME NEW w \in Uploaders
               PROVE  (/\ pc[w] = "creating" => \A a \in Uses(w) : a \in Blobs /\ ~ReaperHolds("blob", a)
                       /\ pc[w] = "attaching" => newFile[w] \in FileRows /\ ~ReaperHolds("file", newFile[w]))'
    BY DEF InFlight
  <2>1. pc' = pc /\ newFile' = newFile /\ want' = want /\ told' = told
    BY DEF writerVars
  <2>2. ASSUME pc[w] = "creating", NEW a \in Uses(w)
        PROVE  a \in Blobs' /\ ~ReaperHolds("blob", a)'
    <3>1. a \in Addresses /\ a \in Blobs /\ ~ReaperHolds("blob", a)
      BY <2>2, Kinds DEF Inv, InFlight, TypeOK, Uses
    <3>2. a \in Shared("blob")
      BY <2>2 DEF Shared
    <3> QED BY <1>1, <3>1, <3>2
  <2>3. ASSUME pc[w] = "attaching"
        PROVE  newFile[w] \in FileRows' /\ ~ReaperHolds("file", newFile[w])'
    <3>1. newFile[w] \in Files /\ newFile[w] \in FileRows /\ ~ReaperHolds("file", newFile[w])
      BY <2>3, Kinds DEF Inv, InFlight, TypeOK
    <3>2. newFile[w] \in Shared("file")
      BY <2>3 DEF Shared
    <3> QED BY <1>1, <2>1, <3>1, <3>2
  <2> QED BY <2>1, <2>2, <2>3 DEF Uses
<1> QED BY <1>2, <1>3, <1>4, <1>5 DEF Inv

\* The cutoff is now: every row behind it is past its grace period.
LEMMA SweepStep ==
  ASSUME Inv, NEW l \in {"file", "blob"}, Sweep(l)
  PROVE  Inv'
<1>1. /\ reaping = None /\ ~locked
      /\ layer' = l /\ past' = Old(l) /\ todo' \subseteq past'
      /\ UNCHANGED <<dbVars, writerVars, reaping, locked>>
  BY LockedRow DEF Inv, Sweep
<1>2. past' \subseteq Files \cup Addresses
  BY <1>1 DEF Old, Rows, Blobs, FileRows
<1>3. None \notin past'
  BY <1>2, Kinds
<1>4. Cutoff'
  <2> SUFFICES ASSUME l = "blob", NEW a \in past'
               PROVE  blobAge'[a] > Grace
    BY <1>1 DEF Cutoff
  <2>1. a \in Old("blob") /\ blobAge' = blobAge
    BY <1>1 DEF dbVars
  <2> QED BY <2>1 DEF Old, Age
<1>5. NotPublished'
  BY <1>1, <1>3 DEF NotPublished
<1>6. reaping' \in Files \cup Addresses \cup {None} /\ locked' = FALSE /\ todo' \subseteq Files \cup Addresses
  BY <1>1, <1>2 DEF Inv, TypeOK
<1>7. \A k : ~ReaperHolds("blob", k)' /\ ~ReaperHolds("file", k)'
  BY <1>6 DEF ReaperHolds
<1> QED BY <1>1, <1>2, <1>4, <1>5, <1>6, <1>7, ReaperFrame

\* A pass that ends, one way or the other, holds nothing.
LEMMA EndPassStep ==
  ASSUME Inv, EndPass \/ StopReaper
  PROVE  Inv'
<1>1. /\ layer' = "idle" /\ past' = {} /\ todo' = {} /\ reaping' = None /\ locked' = FALSE
      /\ UNCHANGED <<dbVars, writerVars>>
  <2>1. CASE EndPass
    BY <2>1, LockedRow DEF Inv, EndPass, TypeOK
  <2>2. CASE StopReaper
    BY <2>2 DEF StopReaper
  <2> QED BY <2>1, <2>2
<1>2. Cutoff' /\ NotPublished'
  BY <1>1 DEF Cutoff, NotPublished
<1>3. \A k : ~ReaperHolds("blob", k)' /\ ~ReaperHolds("file", k)'
  BY <1>1 DEF ReaperHolds
<1> QED BY <1>1, <1>2, <1>3, ReaperFrame

\* What is unused when it is looked at may be used again only with a new Put.
LEMMA ReapLookStep ==
  ASSUME Inv, NEW k \in Files \cup Addresses, ReapLook(k)
  PROVE  Inv'
<1>1. /\ reaping = None /\ ~locked
      /\ todo' = todo \ {k}
      /\ reaping' = IF k \in Rows(layer) /\ k \in past /\ Unused(layer, k) THEN k ELSE None
      /\ UNCHANGED <<dbVars, writerVars, layer, past, locked>>
  BY LockedRow DEF Inv, ReapLook
<1>2. Cutoff'
  BY <1>1 DEF Inv, Cutoff, Blobs, dbVars
<1>3. NotPublished'
  <2>1. CASE k \in past /\ Unused(layer, k)
    BY <1>1, <2>1, Kinds DEF NotPublished, Unused, BlobUsed, dbVars, Inv, TypeOK
  <2>2. CASE ~(k \in past /\ Unused(layer, k))
    BY <1>1, <2>2, Kinds DEF NotPublished, Inv, TypeOK
  <2> QED BY <2>1, <2>2
<1>4. /\ layer' \in {"file", "blob", "idle"} /\ locked' = FALSE
      /\ past' \subseteq Files \cup Addresses /\ todo' \subseteq Files \cup Addresses
      /\ reaping' \in Files \cup Addresses \cup {None}
  BY <1>1 DEF Inv, TypeOK
<1>5. \A j : ~ReaperHolds("blob", j)' /\ ~ReaperHolds("file", j)'
  BY <1>4 DEF ReaperHolds
<1> QED BY <1>1, <1>2, <1>3, <1>4, <1>5, ReaperFrame

\* A row an insert in flight refers to, or touched since the cutoff, isn't locked.
LEMMA ReapLockStep ==
  ASSUME Inv, NEW k \in Files \cup Addresses, ReapLock(k)
  PROVE  Inv'
<1>1. /\ reaping = k /\ ~locked
      /\ UNCHANGED <<dbVars, writerVars, layer, past, todo>>
  BY DEF ReapLock
<1>2. CASE /\ k \in Rows(layer) /\ k \notin Shared(layer) /\ StillPast(k)
           /\ locked' = TRUE /\ UNCHANGED reaping
  <2>1. Cutoff'
    BY <1>1, <1>2 DEF Inv, Cutoff, Blobs, dbVars, StillPast
  <2>2. NotPublished'
    BY <1>1, <1>2 DEF Inv, NotPublished, dbVars
  <2>3. \A j : (ReaperHolds("blob", j)' => j \notin Shared("blob"))
               /\ (ReaperHolds("file", j)' => j \notin Shared("file"))
    BY <1>1, <1>2 DEF ReaperHolds
  <2>4. locked' \in BOOLEAN /\ reaping' \in Rows(layer')
    BY <1>1, <1>2
  <2>5. /\ layer' \in {"file", "blob", "idle"}
        /\ past' \subseteq Files \cup Addresses /\ todo' \subseteq Files \cup Addresses
        /\ reaping' \in Files \cup Addresses \cup {None}
    BY <1>1, <1>2 DEF Inv, TypeOK
  <2> QED BY <1>1, <2>1, <2>2, <2>3, <2>4, <2>5, ReaperFrame
<1>3. CASE reaping' = None /\ UNCHANGED locked
  <2>1. Cutoff'
    BY <1>1, <1>3 DEF Inv, Cutoff, Blobs, dbVars
  <2>2. NotPublished'
    BY <1>1, <1>3, Kinds DEF NotPublished, Inv, TypeOK
  <2>3. \A j : ~ReaperHolds("blob", j)' /\ ~ReaperHolds("file", j)'
    BY <1>1, <1>3 DEF ReaperHolds
  <2>4. /\ layer' \in {"file", "blob", "idle"} /\ locked' \in BOOLEAN /\ ~locked'
        /\ past' \subseteq Files \cup Addresses /\ todo' \subseteq Files \cup Addresses
        /\ reaping' \in Files \cup Addresses \cup {None}
    BY <1>1, <1>3 DEF Inv, TypeOK
  <2> QED BY <1>1, <2>1, <2>2, <2>3, <2>4, ReaperFrame
<1> QED BY <1>2, <1>3 DEF ReapLock

\* A rolled-back delete leaves the bytes with their row.
LEMMA ReapFailStep ==
  ASSUME Inv, ReapFail
  PROVE  Inv'
<1>1. /\ locked' = FALSE /\ reaping' = None /\ data' = data
      /\ UNCHANGED <<dbVars, writerVars, layer, past, todo>>
  BY DEF ReapFail, DroppedAhead, dbVars
<1>2. Cutoff'
  BY <1>1 DEF Inv, Cutoff, Blobs, dbVars
<1>3. NotPublished'
  BY <1>1, Kinds DEF NotPublished, Inv, TypeOK
<1>4. \A j : ~ReaperHolds("blob", j)' /\ ~ReaperHolds("file", j)'
  BY <1>1 DEF ReaperHolds
<1>5. /\ layer' \in {"file", "blob", "idle"}
      /\ past' \subseteq Files \cup Addresses /\ todo' \subseteq Files \cup Addresses
  BY <1>1 DEF Inv, TypeOK
<1> QED BY <1>1, <1>2, <1>3, <1>4, <1>5, ReaperFrame

\* Only dead attachments named the file, and no transaction is attaching it.
LEMMA ReapFileStep ==
  ASSUME Inv, NEW f \in Files, ReapFile(f)
  PROVE  Inv' /\ attLive' = attLive
<1>1. /\ locked /\ layer = "file" /\ reaping = f
      /\ RowsOf(f) \subseteq DeadRows(f)
      /\ attFile' = [t \in Attachments |-> IF t \in DeadRows(f) THEN None ELSE attFile[t]]
      /\ attLive' = attLive \ DeadRows(f)
      /\ fileAge' = [fileAge EXCEPT ![f] = None]
      /\ chunks' = [chunks EXCEPT ![f] = {}]
      /\ locked' = FALSE /\ reaping' = None
      /\ UNCHANGED <<blobAge, data, holders, published, theme, writerVars, layer, past, todo>>
  BY DEF ReapFile
<1>2. attLive' = attLive
  BY <1>1 DEF DeadRows
<1>3. /\ attFile' \in [Attachments -> Files \cup {None}]
      /\ \A t \in Attachments : attFile'[t] = IF attFile[t] = f THEN None ELSE attFile[t]
  BY <1>1 DEF Inv, TypeOK, DeadRows, RowsOf
<1>4. \A t \in attLive : attFile[t] # f
  BY <1>1 DEF Inv, TypeOK, DeadRows, RowsOf
<1>5. Blobs' = Blobs
  BY <1>1 DEF Blobs
<1>6. fileAge' \in [Files -> Ages \cup {None}] /\ FileRows' = FileRows \ {f}
  <2>1. /\ fileAge' \in [Files -> Ages \cup {None}]
        /\ \A g \in Files : fileAge'[g] = IF g = f THEN None ELSE fileAge[g]
    BY <1>1 DEF Inv, TypeOK
  <2> QED BY <2>1 DEF FileRows
<1>7. chunks' \in [Files -> SUBSET Addresses] /\ \A g \in Files : g # f => chunks'[g] = chunks[g]
  BY <1>1 DEF Inv, TypeOK
<1>8. TypeOK'
  BY <1>1, <1>2, <1>3, <1>6, <1>7 DEF Inv, TypeOK, writerVars
<1>9. References'
  <2>1. \A t \in attLive : t \in Attachments /\ attFile[t] # None
    BY DEF Inv, TypeOK, References
  <2>2. \A g \in FileRows' : g \in Files /\ g # f /\ chunks[g] \subseteq Blobs
    BY <1>6 DEF Inv, References, FileRows
  <2> QED BY <1>2, <1>3, <1>4, <1>5, <1>6, <1>7, <2>1, <2>2 DEF Inv, References
<1>10. InFlight'
  <2>1. \A w \in Uploaders : pc[w] = "attaching" => newFile[w] # f
    BY <1>1 DEF Inv, InFlight, ReaperHolds
  <2>2. \A k : ~ReaperHolds("blob", k)' /\ ~ReaperHolds("file", k)'
    BY <1>1 DEF ReaperHolds
  <2> QED BY <1>1, <1>5, <1>6, <2>1, <2>2 DEF Inv, InFlight, Uses, writerVars
<1>11. BytesWithRow' /\ StoredAll' /\ OwnBytes'
  BY <1>1, <1>5 DEF Inv, BytesWithRow, StoredAll, OwnBytes, writerVars
<1>12. PutKept'
  BY <1>1, <1>5 DEF Inv, PutKept, Kept, writerVars
<1>13. Cutoff' /\ NotPublished'
  BY <1>1 DEF Cutoff, NotPublished
<1> QED BY <1>2, <1>8, <1>9, <1>10, <1>11, <1>12, <1>13 DEF Inv

\* A blob that goes is older than any Put of it in its grace period, and nothing
\* refers to it, with a foreign key or without.
LEMMA ReapBlobStep ==
  ASSUME Inv, NEW a \in Addresses, ReapBlob(a)
  PROVE  Inv'
<1>1. /\ locked /\ layer = "blob" /\ reaping = a
      /\ ChunkOf(a) = {}
      /\ blobAge' = [blobAge EXCEPT ![a] = None]
      /\ data' = data \ {a}
      /\ holders' = [holders EXCEPT ![a] = {}]
      /\ locked' = FALSE /\ reaping' = None
      /\ UNCHANGED <<fileAge, chunks, attFile, attLive, published, theme, writerVars, layer, past, todo>>
  BY DEF ReapBlob, ForeignKey
<1>2. /\ blobAge' \in [Addresses -> Ages \cup {None}] /\ blobAge'[a] = None
      /\ \A b \in Addresses : b # a => blobAge'[b] = blobAge[b]
  BY <1>1 DEF Inv, TypeOK
<1>3. Blobs' = Blobs \ {a} /\ FileRows' = FileRows
  BY <1>1, <1>2 DEF Blobs, FileRows
<1>4. /\ holders' \in [Addresses -> SUBSET Uploaders] /\ holders'[a] = {}
      /\ \A b \in Addresses : b # a => holders'[b] = holders[b]
  BY <1>1 DEF Inv, TypeOK
<1>5. a \in past /\ a \in Blobs /\ blobAge[a] > Grace /\ a \notin theme /\ (~OwnTheme => a \notin published)
  BY <1>1, LockedRow DEF Inv, Cutoff, NotPublished
<1>6. TypeOK'
  BY <1>1, <1>2, <1>4 DEF Inv, TypeOK, writerVars
<1>7. References'
  BY <1>1, <1>3 DEF Inv, References, ChunkOf, FileRows
<1>8. InFlight'
  <2>1. \A w \in Uploaders : pc[w] = "creating" => a \notin Uses(w)
    BY <1>1 DEF Inv, InFlight, ReaperHolds
  <2>2. \A k : ~ReaperHolds("blob", k)' /\ ~ReaperHolds("file", k)'
    BY <1>1 DEF ReaperHolds
  <2> QED BY <1>1, <1>3, <2>1, <2>2 DEF Inv, InFlight, Uses, writerVars
<1>9. BytesWithRow' /\ StoredAll' /\ OwnBytes'
  BY <1>1, <1>3, <1>4, <1>5 DEF Inv, BytesWithRow, StoredAll, OwnBytes, writerVars
<1>10. PutKept'
  <2> SUFFICES ASSUME NEW v \in Writers, NEW b \in Addresses
               PROVE  (/\ putAge[v][b] <= Grace /\ b \in want[v] \ left[v] =>
                            Kept(v, b) /\ (v \in Uploaders => v \in holders[b])
                       /\ putAge[v][b] <= Grace /\ pc[v] = "stored" /\ cur[v] = b => Kept(v, b)
                       /\ pc[v] = "store" /\ cur[v] = b /\ b \in Blobs => Kept(v, b))'
    BY DEF PutKept
  <2>1. CASE b # a
    <3>1. Kept(v, b) => Kept(v, b)'
      BY <1>1, <1>2, <1>3, <2>1 DEF Kept, writerVars
    <3> QED BY <1>1, <1>3, <1>4, <2>1, <3>1 DEF Inv, PutKept, writerVars
  <2>2. CASE b = a
    <3>1. putAge[v][a] \in Nat /\ blobAge[a] \in Nat
      BY <1>5, Kinds DEF Inv, TypeOK, Ages, Blobs
    <3>2. Kept(v, a) => ~(putAge[v][a] <= Grace)
      BY <1>5, <3>1, Kinds DEF Kept
    <3>3. UNCHANGED <<putAge, want, left, pc, cur>>
      BY <1>1 DEF writerVars
    <3> QED BY <1>3, <2>2, <3>2, <3>3 DEF Inv, PutKept
  <2> QED BY <2>1, <2>2
<1>11. Cutoff'
  BY <1>1, <1>2, <1>3 DEF Inv, Cutoff, Blobs
<1>12. NotPublished'
  BY <1>1, Kinds DEF NotPublished, Inv, TypeOK
<1> QED BY <1>6, <1>7, <1>8, <1>9, <1>10, <1>11, <1>12 DEF Inv

\* Everything grows older alike.
LEMMA OlderFacts ==
  /\ Older(None) = None
  /\ \A n \in Ages : Older(n) \in Ages /\ Older(n) # None /\ n <= Older(n)
  /\ \A m, n \in Ages : m <= n => Older(m) <= Older(n)
BY Kinds DEF Older, Ages

LEMMA TickStep ==
  ASSUME Inv, Tick
  PROVE  Inv'
<1>1. /\ blobAge' = [a \in Addresses |-> Older(blobAge[a])]
      /\ fileAge' = [f \in Files |-> Older(fileAge[f])]
      /\ putAge' = [w \in Writers |-> [a \in Addresses |-> Older(putAge[w][a])]]
      /\ UNCHANGED <<data, holders, chunks, attFile, attLive, published, theme,
                     pc, want, told, left, cur, newFile, reaperVars>>
  BY DEF Tick
<1>2. /\ blobAge' \in [Addresses -> Ages \cup {None}]
      /\ \A a \in Addresses : blobAge'[a] = Older(blobAge[a])
  BY <1>1, OlderFacts DEF Inv, TypeOK
<1>3. /\ fileAge' \in [Files -> Ages \cup {None}]
      /\ \A f \in Files : fileAge'[f] = Older(fileAge[f])
  BY <1>1, OlderFacts DEF Inv, TypeOK
<1>4. /\ putAge' \in [Writers -> [Addresses -> Ages]]
      /\ \A w \in Writers, a \in Addresses : putAge'[w][a] = Older(putAge[w][a])
  BY <1>1, OlderFacts DEF Inv, TypeOK
<1>5. Blobs' = Blobs /\ FileRows' = FileRows
  BY <1>2, <1>3, OlderFacts, Kinds DEF Inv, TypeOK, Blobs, FileRows
<1>6. TypeOK'
  BY <1>1, <1>2, <1>3, <1>4, <1>5 DEF Inv, TypeOK, Rows, reaperVars
<1>7. References' /\ BytesWithRow' /\ StoredAll' /\ OwnBytes' /\ NotPublished'
  BY <1>1, <1>5 DEF Inv, References, BytesWithRow, StoredAll, OwnBytes, NotPublished, reaperVars
<1>8. InFlight'
  BY <1>1, <1>5 DEF Inv, InFlight, Uses, ReaperHolds, reaperVars
<1>9. PutKept'
  <2> SUFFICES ASSUME NEW v \in Writers, NEW b \in Addresses
               PROVE  (/\ putAge[v][b] <= Grace /\ b \in want[v] \ left[v] =>
                            Kept(v, b) /\ (v \in Uploaders => v \in holders[b])
                       /\ putAge[v][b] <= Grace /\ pc[v] = "stored" /\ cur[v] = b => Kept(v, b)
                       /\ pc[v] = "store" /\ cur[v] = b /\ b \in Blobs => Kept(v, b))'
    BY DEF PutKept
  <2>1. putAge[v][b] \in Ages /\ putAge'[v][b] = Older(putAge[v][b])
    BY <1>4 DEF Inv, TypeOK
  <2>2. putAge'[v][b] <= Grace => putAge[v][b] <= Grace
    BY <2>1, OlderFacts, Kinds DEF Ages
  <2>3. Kept(v, b) => Kept(v, b)'
    BY <1>2, <1>5, <2>1, OlderFacts DEF Kept, Inv, TypeOK, Blobs
  <2> QED BY <1>1, <1>5, <2>2, <2>3 DEF Inv, PutKept
<1>10. Cutoff'
  <2> SUFFICES ASSUME layer = "blob", NEW a \in past, a \in Blobs
               PROVE  blobAge'[a] > Grace
    BY <1>1, <1>5 DEF Inv, Cutoff, reaperVars
  <2>1. a \in Addresses /\ blobAge[a] \in Ages /\ blobAge[a] > Grace
    BY DEF Blobs, Inv, TypeOK, Cutoff
  <2> QED BY <1>2, <2>1, OlderFacts, Kinds DEF Ages
<1> QED BY <1>6, <1>7, <1>8, <1>9, <1>10 DEF Inv
-----------------------------------------------------------------------------
LEMMA InitInv == Init => Inv
<1> SUFFICES ASSUME Init
             PROVE  Inv
  OBVIOUS
<1>1. Blobs = {} /\ FileRows = {}
  BY DEF Init, Blobs, FileRows
<1>2. TypeOK
  <2>1. "idle" \in Phases /\ Grace + 1 \in Ages
    BY Kinds DEF Phases, Ages
  <2>2. putAge \in [Writers -> [Addresses -> Ages]]
    BY <2>1 DEF Init
  <2> QED BY <2>1, <2>2 DEF Init, TypeOK
<1>3. References /\ InFlight /\ BytesWithRow
  BY <1>1, Kinds DEF Init, References, InFlight, BytesWithRow
<1>4. PutKept
  <2>1. \A v \in Writers : want[v] = {} /\ pc[v] = "idle"
    BY DEF Init
  <2> QED BY <2>1 DEF PutKept
<1>5. Cutoff /\ NotPublished /\ OwnBytes /\ StoredAll
  BY Kinds DEF Init, Cutoff, NotPublished, OwnBytes, StoredAll
<1> QED BY <1>2, <1>3, <1>4, <1>5 DEF Inv

LEMMA PutStep ==
  ASSUME Inv, NEW w \in Writers, Put(w)
  PROVE  Inv'
<1>1. ASSUME NEW a \in Addresses, PutLook(w, a)
      PROVE  Inv'
  BY <1>1, PutLookStep
<1>2. CASE PutTouch(w)
  BY <1>2, PutTouchStep
<1>3. CASE PutStore(w)
  BY <1>3, PutStoreStep
<1>4. CASE PutDone(w)
  BY <1>4, PutDoneStep
<1>5. CASE NoteHolder(w)
  BY <1>5, NoteHolderStep
<1> QED BY <1>1, <1>2, <1>3, <1>4, <1>5 DEF Put

LEMMA UploadStep ==
  ASSUME Inv, NEW w \in Uploaders, Upload(w)
  PROVE  Inv'
<1>1. ASSUME NEW S \in SUBSET Addresses, StartUpload(w, S)
      PROVE  Inv'
  <2> DEFINE held == {a \in S : w \in holders[a]}
             rest == S \ held
  <2>1. Begin(w, rest, held) /\ held \in SUBSET Addresses /\ rest \in SUBSET Addresses
    BY <1>1 DEF StartUpload
  <2>2. w \in Writers /\ w \notin Builders
    BY Kinds
  <2> HIDE DEF held, rest
  <2> QED BY <2>1, <2>2, BeginStep
<1>2. ASSUME NEW f \in Files, CreateFile(w, f)
      PROVE  Inv'
  BY <1>2, CreateFileStep
<1>3. ASSUME NEW f \in Files, PickFile(w, f)
      PROVE  Inv'
  BY <1>3, PickFileStep
<1>4. CASE CommitFile(w)
  BY <1>4, CommitFileStep
<1>5. CASE Attach(w)
  BY <1>5, AttachStep
<1>6. ASSUME NEW t \in Attachments, CommitAttach(w, t)
      PROVE  Inv'
  BY <1>6, CommitAttachStep
<1> QED BY <1>1, <1>2, <1>3, <1>4, <1>5, <1>6 DEF Upload

LEMMA BuildStep ==
  ASSUME Inv, NEW w \in Builders, Build(w)
  PROVE  Inv'
<1>1. CASE Publish(w)
  BY <1>1, PublishStep
<1>2. ASSUME NEW a \in Addresses, StartBuild(w, a)
      PROVE  Inv'
  <2> DEFINE own == {a}
             copied == IF OwnTheme THEN theme ELSE {}
  <2>1. Begin(w, own, copied) /\ own \in SUBSET Addresses /\ copied \in SUBSET Addresses
        /\ (~OwnTheme => copied = {}) /\ w \in Writers
    BY <1>2, Kinds DEF StartBuild, Inv, TypeOK
  <2> HIDE DEF own, copied
  <2> QED BY <2>1, BeginStep
<1> QED BY <1>1, <1>2 DEF Build

LEMMA EditStep ==
  ASSUME Inv, NEW w \in Editors, Edit(w)
  PROVE  Inv'
<1>1. CASE PutThemeFile(w)
  BY <1>1, PutThemeFileStep
<1>2. ASSUME NEW a \in Addresses, StartEdit(w, a)
      PROVE  Inv'
  <2> DEFINE own == {a}
             copied == {}
  <2>1. Begin(w, own, copied) /\ own \in SUBSET Addresses /\ copied \in SUBSET Addresses
        /\ copied = {} /\ w \in Writers
    BY <1>2, Kinds DEF StartEdit
  <2> HIDE DEF own, copied
  <2> QED BY <2>1, BeginStep
<1> QED BY <1>1, <1>2 DEF Edit

LEMMA ReapStep ==
  ASSUME Inv, Reap
  PROVE  Inv'
<1>1. ASSUME NEW l \in {"file", "blob"}, Sweep(l)
      PROVE  Inv'
  BY <1>1, SweepStep
<1>2. ASSUME NEW k \in Files \cup Addresses, ReapLook(k)
      PROVE  Inv'
  BY <1>2, ReapLookStep
<1>3. ASSUME NEW k \in Files \cup Addresses, ReapLock(k)
      PROVE  Inv'
  BY <1>3, ReapLockStep
<1>4. CASE ReapFail
  BY <1>4, ReapFailStep
<1>5. CASE EndPass \/ StopReaper
  BY <1>5, EndPassStep
<1>6. ASSUME NEW f \in Files, ReapFile(f)
      PROVE  Inv'
  BY <1>6, ReapFileStep
<1>7. ASSUME NEW a \in Addresses, ReapBlob(a)
      PROVE  Inv'
  BY <1>7, ReapBlobStep
<1> QED BY <1>1, <1>2, <1>3, <1>4, <1>5, <1>6, <1>7 DEF Reap

LEMMA StutterStep ==
  ASSUME Inv, UNCHANGED vars
  PROVE  Inv'
<1>1. Blobs' = Blobs /\ FileRows' = FileRows /\ UNCHANGED <<dbVars, writerVars, reaperVars>>
  BY DEF vars, Blobs, FileRows, dbVars
<1>2. Cutoff' /\ NotPublished'
  BY <1>1 DEF Inv, Cutoff, NotPublished, reaperVars, dbVars
<1>3. \A k : (ReaperHolds("blob", k)' => ReaperHolds("blob", k))
             /\ (ReaperHolds("file", k)' => ReaperHolds("file", k))
  BY <1>1 DEF ReaperHolds, reaperVars
<1>4. /\ layer' \in {"file", "blob", "idle"}
      /\ past' \subseteq Files \cup Addresses /\ todo' \subseteq Files \cup Addresses
      /\ reaping' \in Files \cup Addresses \cup {None} /\ locked' \in BOOLEAN
      /\ locked' => reaping' \in Rows(layer')
  BY <1>1 DEF Inv, TypeOK, reaperVars
<1> QED BY <1>1, <1>2, <1>3, <1>4, ReaperFrame

LEMMA NextInv == Inv /\ [Next]_vars => Inv'
<1> SUFFICES ASSUME Inv, [Next]_vars
             PROVE  Inv'
  OBVIOUS
<1>1. ASSUME NEW w \in Writers, Put(w)
      PROVE  Inv'
  BY <1>1, PutStep
<1>2. ASSUME NEW w \in Writers, GiveUp(w)
      PROVE  Inv'
  BY <1>2, GiveUpStep
<1>3. ASSUME NEW w \in Uploaders, Upload(w)
      PROVE  Inv'
  BY <1>3, UploadStep
<1>4. ASSUME NEW w \in Builders, Build(w)
      PROVE  Inv'
  BY <1>4, BuildStep
<1>5. ASSUME NEW w \in Editors, Edit(w)
      PROVE  Inv'
  BY <1>5, EditStep
<1>6. ASSUME NEW t \in Attachments, Detach(t) \/ Purge(t)
      PROVE  Inv'
  BY <1>6, DetachStep, PurgeStep
<1>7. ASSUME NEW a \in Addresses, DeleteThemeFile(a)
      PROVE  Inv'
  BY <1>7, DeleteThemeFileStep
<1>8. CASE Reap
  BY <1>8, ReapStep
<1>9. CASE Tick
  BY <1>9, TickStep
<1>10. CASE UNCHANGED vars
  BY <1>10, StutterStep
<1> QED BY <1>1, <1>2, <1>3, <1>4, <1>5, <1>6, <1>7, <1>8, <1>9, <1>10 DEF Next

LEMMA Invariant == Spec => []Inv
<1>1. Init => Inv
  BY InitInv
<1>2. Inv /\ [Next]_vars => Inv'
  BY NextInv
<1> QED BY <1>1, <1>2, PTL DEF Spec
-----------------------------------------------------------------------------
\* Types, and the lock is on a row there is, at every step of writers and reaper.
THEOREM Typed == Spec => []TypeOK
<1>1. Inv => TypeOK
  BY DEF Inv
<1> QED BY <1>1, Invariant, PTL

\* Attachments, deletes, purges and the reaper in any order: a live attachment has
\* its file, and its file every chunk's bytes (the foreign keys' locks).
THEOREM LiveAttachmentsReadable == Spec => []LiveReadable
<1>1. Inv => LiveReadable
  BY DEF Inv, References, LiveReadable, TypeOK
<1> QED BY <1>1, Invariant, PTL

\* What Storage.Put answered is so for a grace period, and bytes and rows go together.
THEOREM PutsAreTrue == Spec => []PutTrue
<1>1. Inv => PutTrue
  BY DEF Inv, PutTrue, PutHolds, PutKept, Kept
<1> QED BY <1>1, Invariant, PTL

\* theme_file has no foreign key: its bytes stay all the same.
THEOREM ThemeBytesStay == Spec => []ThemeStored
<1>1. Inv => ThemeStored
  BY DEF Inv, StoredAll, BytesWithRow, ThemeStored
<1> QED BY <1>1, Invariant, PTL

\* Nor has portal_build_file: the files of the builds kept stay stored, in portals
\* that copy no file of a theme card.
THEOREM BuildBytesStay == ~OwnTheme => (Spec => []PublishedStored)
<1> SUFFICES ASSUME ~OwnTheme
             PROVE  Spec => []PublishedStored
  OBVIOUS
<1>1. Inv => PublishedStored
  BY DEF Inv, StoredAll, BytesWithRow, PublishedStored
<1> QED BY <1>1, Invariant, PTL

\* The reaper's delete of a file takes no live attachment with it.
THEOREM LiveAttachmentsSpared == Spec => ReaperSparesLive
<1>1. Inv /\ [Next]_vars => [\A f \in Files : ReapFile(f) => attLive' = attLive]_vars
  BY ReapFileStep
<1> QED BY <1>1, Invariant, PTL DEF Spec, ReaperSparesLive
=============================================================================
