-------------------------- MODULE EntityDataProofs --------------------------
(***************************************************************************)
(* Proofs about EntityData, for any objects, data and files: what a commit *)
(* has stored stays as it is, an object that wrote reads what it wrote,    *)
(* and what an object gives was there to read.                             *)
(*                                                                         *)
(* Nothing locks a file, so each argument is about who may still write it. *)
(* A file that a commit moves has no writers or counts as not quiet, and   *)
(* no object that is opened later gets it, since a new file is a file that *)
(* was never made (Made, Quiet).  Between an object's write and its next   *)
(* read, whoever changes the file makes "mine" of everybody None; until    *)
(* then nobody writes it, and the object keeps nothing else (Mine).  A     *)
(* value is read, kept or given only after "seen" has it (Seen).           *)
(***************************************************************************)
EXTENDS EntityData, FiniteSetTheorems, TLAPS

-----------------------------------------------------------------------------
(* The inductive invariant.                                                *)

Written == Data \union {"hollow"}
Reader == [file : File, header : Data, used : BOOLEAN]
Writer == [file : File, value : Written, alone : BOOLEAN]
Opened == [at : {"workspace", "store"}, writes : BOOLEAN, cache : Written \union {None},
           reader : Reader \union {None}, writer : Writer \union {None}]

FilesOK ==
    /\ entry \in {"transient", "stored", "gone"}
    /\ work \in File \union {None}
    /\ content \in [File -> Content \union {None}]
    /\ stored \subseteq [hash : Content, file : File, quiet : BOOLEAN]
    /\ sets \in Nat
    /\ hashed \in Content \union {None}

TypeOK ==
    /\ type \in Type
    /\ FilesOK
    /\ object \in [Object -> Opened \union {Closed}]
    /\ mine \in [Object -> Written \union {None}]

(* A file that is in use was made, and no file is in use twice. *)
Made ==
    /\ work # None => content[work] # None
    /\ \A s \in stored : content[s.file] # None /\ s.file # work

(* Nobody can write what was quiet when it was stored. *)
Quiet == \A s \in stored : s.quiet => Writers(s.file) = {} /\ content[s.file] = s.hash

(* Who may write does so in the workspace; point clouds and assets are     *)
(* kept as they are written.                                               *)
Writes ==
    \A o \in Object : IsOpen(o) =>
        /\ object[o].writes => object[o].at = "workspace"
        /\ Writing(o) =>
              /\ object[o].writes
              /\ type \in {"pointcloud2", "asset"} => object[o].cache = object[o].writer.value

(* What an object wrote is in the file, with nobody who writes it, and the *)
(* object keeps nothing else.                                              *)
Mine ==
    \A o \in Object : mine[o] # None =>
        /\ Idle(o) /\ object[o].writes
        /\ work # None /\ content[work] = mine[o] /\ Writers(work) = {}
        /\ object[o].cache \in {None, mine[o]}
        /\ type = "asset" => object[o].cache = mine[o] /\ object[o].reader = None
        /\ object[o].reader # None =>
              object[o].reader.file = work /\ object[o].reader.header = mine[o]

(* What there is to read, and what an object keeps or has begun to read,   *)
(* was seen.                                                               *)
Seen ==
    \A o \in Object :
        /\ IsFiniteSet(seen[o])
        /\ IsOpen(o) =>
              /\ \A c \in Readable(o) : Value(c) \in seen[o]
              /\ object[o].cache \in Data => object[o].cache \in seen[o]
              /\ object[o].cache = "hollow" => "hollow" \in seen[o] \/ type = "tf"
              /\ object[o].reader # None => object[o].reader.header \in seen[o]

GotOK == got.by \in Object \union {None}
IInv == TypeOK /\ Made /\ Quiet /\ Writes /\ Mine /\ Seen
          /\ seen = [o \in Object |-> seen[o]] /\ GotOK /\ Regular /\ ReadYourWrites

-----------------------------------------------------------------------------
(* Objects.                                                                *)

LEMMA Strings ==
    /\ {"no file", "cut", "message", "hollow", "torn"} \cap Data = {}
    /\ None \notin {"no file", "cut", "message", "hollow", "torn"}
    /\ None \notin Data /\ None \notin File /\ None \notin Written /\ None \notin Content
    /\ \A r \in Reader : r # None
BY DataAssumption, NoneAssumption DEF Written, Content, Reader

LEMMA OpenedIsOpen ==
    ASSUME NEW x \in Opened
    PROVE  x # Closed
BY DEF Opened, Closed

LEMMA ObjectType ==
    ASSUME TypeOK, NEW o \in Object
    PROVE  /\ IsOpen(o) =>
                /\ object[o] \in Opened
                /\ object[o].at \in {"workspace", "store"} /\ object[o].writes \in BOOLEAN
                /\ object[o].cache \in Written \union {None}
                /\ object[o].reader \in Reader \union {None}
                /\ object[o].writer \in Writer \union {None}
           /\ ~IsOpen(o) => object[o] = Closed /\ ~Writing(o) /\ ~Idle(o)
<1>1. object[o] \in Opened \union {Closed}
  BY DEF TypeOK
<1> QED BY <1>1 DEF IsOpen, Writing, Idle, Opened

(* An object gets another value. *)
LEMMA ObjectChanges ==
    ASSUME TypeOK, NEW o \in Object, NEW x, object' = [object EXCEPT ![o] = x]
    PROVE  /\ object'[o] = x
           /\ \A p \in Object : p # o => object'[p] = object[p]
           /\ x \in Opened \union {Closed} => object' \in [Object -> Opened \union {Closed}]
BY DEF TypeOK

LEMMA FilesType ==
    ASSUME TypeOK
    PROVE  /\ work # None => work \in File
           /\ content = [f \in File |-> content[f]]
           /\ \A f \in File : content[f] # None => content[f] \in Content
           /\ \A g \in stored : g.hash \in Content /\ g.file \in File /\ g.quiet \in BOOLEAN
           /\ sets \in Nat
BY DEF TypeOK, FilesOK

(* What is read is data, or makes a hollow value. *)
LEMMA ValueType ==
    ASSUME NEW c
    PROVE  /\ Value(c) \in Written
           /\ c \in Written => Value(c) = c
BY DEF Value, Written

LEMMA ReadsData ==
    ASSUME TypeOK, NEW o \in Object, IsOpen(o), ReadsFrom(o) \in Data
    PROVE  object[o].at # "store" /\ work \in File /\ ReadsFrom(o) = content[work]
BY Strings, FilesType DEF ReadsFrom

-----------------------------------------------------------------------------
(* What steps do to objects.                                               *)

(* An object is as it was, but may not be alone in a file any more. *)
Alike(p) ==
    /\ IsOpen(p)' <=> IsOpen(p)
    /\ IsOpen(p) =>
          /\ object'[p].at = object[p].at /\ object'[p].writes = object[p].writes
          /\ object'[p].cache = object[p].cache /\ object'[p].reader = object[p].reader
    /\ Writing(p)' =>
          /\ Writing(p)
          /\ object'[p].writer.file = object[p].writer.file
          /\ object'[p].writer.value = object[p].writer.value

LEMMA SameIsAlike ==
    ASSUME NEW p, object'[p] = object[p]
    PROVE  Alike(p)
BY DEF Alike, IsOpen, Writing

OthersSame(o) == \A p \in Object : p # o => object'[p] = object[p]

(* The object gives a value. *)
Gave(o, v) ==
    /\ Idle(o)
    /\ got' = [by |-> o, value |-> v]
    /\ UNCHANGED <<type, files, mine>>
    /\ OthersSame(o)
    /\ object' \in [Object -> Opened \union {Closed}] /\ object'[o] \in Opened
    /\ object'[o].at = object[o].at /\ object'[o].writes = object[o].writes
    /\ object'[o].writer = object[o].writer
    /\ \/ /\ object[o].cache # None /\ v = object[o].cache
          /\ object'[o].cache = object[o].cache /\ object'[o].reader = object[o].reader
       \/ /\ object[o].cache = None /\ v = Value(ReadsFrom(o)) /\ type \notin {"asset", "las"}
          /\ object'[o].cache = v /\ object'[o].reader = object[o].reader
       \/ /\ type = "tf" /\ ReadsFrom(o) \notin Data /\ v = "hollow"
          /\ object'[o].cache = object[o].cache /\ object'[o].reader = object[o].reader
       \/ /\ object[o].reader # None
          /\ v \in FromStream(object[o].reader) \/ (type = "asset" /\ v = "hollow")
          /\ object'[o].cache = object[o].cache /\ object'[o].reader # None
          /\ object'[o].reader.file = object[o].reader.file
          /\ object'[o].reader.header = object[o].reader.header

(* It has read the header of the data. *)
Began(o) ==
    /\ Idle(o)
    /\ type = "asset" => object[o].cache = None
    /\ got' = [by |-> None, value |-> None]
    /\ UNCHANGED <<type, files, mine>>
    /\ OthersSame(o)
    /\ object' \in [Object -> Opened \union {Closed}] /\ object'[o] \in Opened
    /\ object'[o].at = object[o].at /\ object'[o].writes = object[o].writes
    /\ object'[o].writer = object[o].writer /\ object'[o].cache = object[o].cache
    /\ object'[o].reader.file = work /\ object'[o].reader.header = ReadsFrom(o)
    /\ ReadsFrom(o) \in Data

LEMMA FromCacheGives ==
    ASSUME TypeOK, NEW o \in Object, Idle(o), FromCache(o)
    PROVE  Gave(o, object[o].cache)
<1>1. object[o] \in Opened
  BY ObjectType DEF Idle
<1> QED BY <1>1 DEF Gave, FromCache, Gets, OthersSame, TypeOK

LEMMA IntoCacheGives ==
    ASSUME TypeOK, NEW o \in Object, Idle(o), type \notin {"asset", "las"},
           NEW v, v = Value(ReadsFrom(o)), IntoCache(o, v)
    PROVE  Gave(o, v)
<1>1. object[o] \in Opened /\ v \in Written
  BY ObjectType, ValueType DEF Idle
<1>2. [object[o] EXCEPT !.cache = v] \in Opened
  BY <1>1 DEF Opened
<1>3. object' = [object EXCEPT ![o] = [object[o] EXCEPT !.cache = v]]
  BY DEF IntoCache
<1>4. /\ object'[o] = [object[o] EXCEPT !.cache = v] /\ OthersSame(o)
      /\ object' \in [Object -> Opened \union {Closed}]
  BY <1>2, <1>3, ObjectChanges DEF OthersSame
<1>5. /\ object'[o].at = object[o].at /\ object'[o].writes = object[o].writes
      /\ object'[o].writer = object[o].writer /\ object'[o].reader = object[o].reader
      /\ object'[o].cache = v
  BY <1>1, <1>4 DEF Opened
<1> QED BY <1>2, <1>4, <1>5 DEF Gave, IntoCache, Gets

LEMMA OpenReaderBegins ==
    ASSUME TypeOK, NEW o \in Object, Idle(o), type = "asset" => object[o].cache = None,
           OpenReader(o)
    PROVE  Began(o)
<1> DEFINE r == [file |-> work, header |-> ReadsFrom(o), used |-> FALSE]
<1>1. object[o] \in Opened /\ ReadsFrom(o) \in Data /\ work \in File
  BY ObjectType, ReadsData DEF Idle, OpenReader
<1>2. r \in Reader /\ r.file = work /\ r.header = ReadsFrom(o)
  BY <1>1 DEF Reader
<1>3. [object[o] EXCEPT !.reader = r] \in Opened
  BY <1>1, <1>2 DEF Opened
<1>4. object' = [object EXCEPT ![o] = [object[o] EXCEPT !.reader = r]]
  BY DEF OpenReader
<1>5. /\ object'[o] = [object[o] EXCEPT !.reader = r] /\ OthersSame(o)
      /\ object' \in [Object -> Opened \union {Closed}]
  BY <1>3, <1>4, ObjectChanges DEF OthersSame
<1>6. /\ object'[o].at = object[o].at /\ object'[o].writes = object[o].writes
      /\ object'[o].writer = object[o].writer /\ object'[o].cache = object[o].cache
      /\ object'[o].reader = r
  BY <1>1, <1>5 DEF Opened
<1> QED BY <1>1, <1>2, <1>3, <1>5, <1>6 DEF Began, OpenReader, GetsNothing

LEMMA GetStep ==
    ASSUME TypeOK, NEW o \in Object, Get(o)
    PROVE  Began(o) \/ \E v : Gave(o, v)
<1>1. CASE GetPointcloud(o)
  BY <1>1, FromCacheGives, IntoCacheGives DEF GetPointcloud
<1>2. CASE GetFloatGrid(o)
  BY <1>2, FromCacheGives, IntoCacheGives DEF GetFloatGrid, Value
<1>3. CASE GetPosePath(o)
  BY <1>3, FromCacheGives, IntoCacheGives DEF GetPosePath
<1>4. CASE GetPrimitive(o)
  BY <1>4, FromCacheGives, IntoCacheGives DEF GetPrimitive
<1>5. CASE GetBoundingbox(o)
  BY <1>5, FromCacheGives, IntoCacheGives DEF GetBoundingbox
<1>6. CASE GetTransforms(o)
  <2>1. CASE object[o].cache = None /\ ReadsFrom(o) \notin Data /\ Gets(o, "hollow") /\ UNCHANGED object
    <3>1. Idle(o) /\ object[o] \in Opened /\ type = "tf"
      BY <1>6, ObjectType DEF Idle, GetTransforms
    <3> QED BY <2>1, <3>1 DEF Gave, Gets, OthersSame, TypeOK
  <2> QED BY <1>6, <2>1, FromCacheGives, IntoCacheGives DEF GetTransforms, Value
<1>7. CASE GetAsset(o)
  BY <1>7, FromCacheGives, OpenReaderBegins DEF GetAsset
<1>8. CASE GetReader(o)
  BY <1>8, OpenReaderBegins DEF GetReader
<1>9. CASE ReadAsset(o)
  <2>1. /\ Idle(o) /\ object[o] \in Opened /\ type = "asset" /\ object[o].reader # None
        /\ object[o].reader \in Reader
    BY <1>9, ObjectType DEF Idle, ReadAsset
  <2>2. PICK v : Gets(o, v) /\ (v \in FromStream(object[o].reader) \/ v = "hollow")
    BY <1>9 DEF ReadAsset
  <2> DEFINE r == [object[o].reader EXCEPT !.used = TRUE]
  <2>3. r \in Reader /\ r.file = object[o].reader.file /\ r.header = object[o].reader.header
    BY <2>1 DEF Reader
  <2>4. [object[o] EXCEPT !.reader = r] \in Opened
    BY <2>1, <2>3 DEF Opened
  <2>5. object' = [object EXCEPT ![o] = [object[o] EXCEPT !.reader = r]]
    BY <1>9 DEF ReadAsset
  <2>6. /\ object'[o] = [object[o] EXCEPT !.reader = r] /\ OthersSame(o)
        /\ object' \in [Object -> Opened \union {Closed}]
    BY <2>4, <2>5, ObjectChanges DEF OthersSame
  <2>7. /\ object'[o].at = object[o].at /\ object'[o].writes = object[o].writes
        /\ object'[o].writer = object[o].writer /\ object'[o].cache = object[o].cache
        /\ object'[o].reader = r
    BY <2>1, <2>6 DEF Opened
  <2>8. r # None
    BY <2>3, Strings
  <2>9. Gave(o, v)
    BY <2>1, <2>2, <2>3, <2>4, <2>6, <2>7, <2>8 DEF Gave, Gets
  <2> QED BY <2>9
<1>10. CASE ReadPoints(o)
  <2>1. Idle(o) /\ object[o] \in Opened /\ object[o].reader # None /\ UNCHANGED object
    BY <1>10, ObjectType DEF Idle, ReadPoints
  <2>2. PICK v : Gets(o, v) /\ v \in FromStream(object[o].reader)
    BY <1>10 DEF ReadPoints
  <2>3. Gave(o, v)
    BY <2>1, <2>2 DEF Gave, Gets, OthersSame, TypeOK
  <2> QED BY <2>3
<1> QED BY <1>1, <1>2, <1>3, <1>4, <1>5, <1>6, <1>7, <1>8, <1>9, <1>10 DEF Get

(* The object has cut the file to write v, and keeps what it keeps then. *)
Wrote(o, v) ==
    /\ Idle(o) /\ object[o].writes /\ v \in Written
    /\ \E f \in WorkFile :
          /\ work' = f /\ f \in File
          /\ content' = [content EXCEPT ![f] = "cut"]
          /\ Writing(o)' => object'[o].writer.file = f /\ object'[o].writer.value = v
    /\ sets' = sets + 1
    /\ mine' = [p \in Object |-> None]
    /\ UNCHANGED <<type, entry, stored, hashed>>
    /\ \A p \in Object : p # o => Alike(p)
    /\ object' \in [Object -> Opened \union {Closed}]
    /\ object'[o] \in Opened
    /\ object'[o].at = object[o].at /\ object'[o].writes = object[o].writes
    /\ object'[o].reader \in {object[o].reader, None}
    /\ \/ object'[o].cache = object[o].cache
       \/ object'[o].cache \in Data
       \/ object'[o].cache = "hollow" /\ type = "tf"
    /\ type \in {"pointcloud2", "asset"} => object'[o].cache = v

(* The object as it is when it begins to write, but for the stream. *)
Changed(o, v, changed) ==
    /\ changed \in Opened
    /\ changed.at = object[o].at /\ changed.writes = object[o].writes
    /\ changed.reader \in {object[o].reader, None}
    /\ \/ changed.cache = object[o].cache
       \/ changed.cache \in Data
       \/ changed.cache = "hollow" /\ type = "tf"
    /\ type \in {"pointcloud2", "asset"} => changed.cache = v

LEMMA WorkFileIsFile ==
    ASSUME TypeOK
    PROVE  /\ WorkFile \subseteq File
           /\ \A f \in WorkFile : f = work \/ content[f] = None
BY FilesType DEF WorkFile

LEMMA TruncatedWrites ==
    ASSUME TypeOK, NEW o \in Object, MayWrite(o), NEW v \in Written, NEW changed,
           Changed(o, v, changed), Truncated(o, v, changed)
    PROVE  Wrote(o, v)
<1>1. PICK f \in WorkFile :
        /\ sets' = sets + 1
        /\ work' = f
        /\ content' = [content EXCEPT ![f] = "cut"]
        /\ object' = [p \in Object |->
              IF p = o
              THEN [changed EXCEPT !.writer =
                      [file |-> f, value |-> v, alone |-> Writers(f) = {}]]
              ELSE IF p \in Writers(f) THEN [object[p] EXCEPT !.writer.alone = FALSE]
              ELSE object[p]]
        /\ mine' = [p \in Object |-> None]
        /\ UNCHANGED <<type, entry, stored, hashed>>
  BY DEF Truncated
<1>2. f \in File /\ Idle(o) /\ object[o].writes
  BY WorkFileIsFile DEF MayWrite
<1> DEFINE w == [file |-> f, value |-> v, alone |-> Writers(f) = {}]
<1>3. w \in Writer /\ w.file = f /\ w.value = v
  BY <1>2 DEF Writer
<1>4. object'[o] = [changed EXCEPT !.writer = w]
  BY <1>1
<1>5. /\ object'[o] \in Opened
      /\ object'[o].at = changed.at /\ object'[o].writes = changed.writes
      /\ object'[o].cache = changed.cache /\ object'[o].reader = changed.reader
      /\ object'[o].writer = w
  BY <1>3, <1>4 DEF Opened, Changed
<1>6. ASSUME NEW p \in Object, p # o
      PROVE  Alike(p) /\ object'[p] \in Opened \union {Closed}
  <2>1. CASE p \in Writers(f)
    <3>1. /\ object'[p] = [object[p] EXCEPT !.writer.alone = FALSE]
          /\ object[p] \in Opened /\ object[p].writer \in Writer /\ Writing(p) /\ IsOpen(p)
      BY <1>1, <1>6, <2>1, ObjectType DEF Writers, Writing
    <3> DEFINE x == [object[p].writer EXCEPT !.alone = FALSE]
    <3>2. x \in Writer /\ x.file = object[p].writer.file /\ x.value = object[p].writer.value
      BY <3>1 DEF Writer
    <3>3. object'[p] = [object[p] EXCEPT !.writer = x]
      BY <3>1
    <3>4. /\ object'[p] \in Opened
          /\ object'[p].at = object[p].at /\ object'[p].writes = object[p].writes
          /\ object'[p].cache = object[p].cache /\ object'[p].reader = object[p].reader
          /\ object'[p].writer = x
      BY <3>1, <3>2, <3>3 DEF Opened
    <3>5. IsOpen(p)'
      BY <3>4, OpenedIsOpen DEF IsOpen
    <3> QED BY <3>1, <3>2, <3>4, <3>5 DEF Alike
  <2>2. CASE p \notin Writers(f)
    <3>1. object'[p] = object[p]
      BY <1>1, <1>6, <2>2
    <3> QED BY <3>1, SameIsAlike DEF TypeOK
  <2> QED BY <2>1, <2>2
<1>7. object' \in [Object -> Opened \union {Closed}]
  <2>1. \A p \in Object : object'[p] \in Opened \union {Closed}
    BY <1>5, <1>6
  <2>2. object' = [p \in Object |-> object'[p]]
    BY <1>1
  <2> QED BY <2>1, <2>2
<1> QED BY <1>1, <1>2, <1>3, <1>5, <1>6, <1>7 DEF Wrote, Changed

(* Ways to make the changed object. *)
LEMMA ChangedSame ==
    ASSUME TypeOK, NEW o \in Object, Idle(o), NEW v, type \notin {"pointcloud2", "asset"}
    PROVE  Changed(o, v, object[o])
<1>1. object[o] \in Opened
  BY ObjectType DEF Idle
<1> QED BY <1>1 DEF Changed

LEMMA ChangedCache ==
    ASSUME TypeOK, NEW o \in Object, Idle(o), NEW v, NEW x \in Written,
           x \in Data \/ type = "tf", type \in {"pointcloud2", "asset"} => x = v
    PROVE  /\ Changed(o, v, [object[o] EXCEPT !.cache = x])
           /\ Changed(o, v, [object[o] EXCEPT !.cache = x, !.reader = None])
<1>1. object[o] \in Opened
  BY ObjectType DEF Idle
<1>2. [object[o] EXCEPT !.cache = x] \in Opened /\ [object[o] EXCEPT !.cache = x, !.reader = None] \in Opened
  BY <1>1 DEF Opened
<1>3. Changed(o, v, [object[o] EXCEPT !.cache = x])
  BY <1>1, <1>2 DEF Changed, Opened, Written
<1>4. Changed(o, v, [object[o] EXCEPT !.cache = x, !.reader = None])
  BY <1>1, <1>2 DEF Changed, Opened, Written
<1> QED BY <1>3, <1>4

LEMMA ChangedKept ==
    ASSUME TypeOK, NEW o \in Object, Idle(o), NEW v \in Data, type \notin {"pointcloud2", "asset"}
    PROVE  Changed(o, v, Kept(o, v))
<1>1. object[o] \in Opened
  BY ObjectType DEF Idle
<1>2. CASE object[o].cache \in Data \union {"hollow"}
  <2>1. Kept(o, v) = [object[o] EXCEPT !.cache = v]
    BY <1>2 DEF Kept
  <2>2. v \in Written
    BY DEF Written
  <2>3. Changed(o, v, [object[o] EXCEPT !.cache = v])
    BY <2>2, ChangedCache
  <2> QED BY <2>1, <2>3
<1>3. CASE object[o].cache \notin Data \union {"hollow"}
  <2>1. Kept(o, v) = [object[o] EXCEPT !.cache = object[o].cache]
    BY <1>3 DEF Kept
  <2>2. Kept(o, v) \in Opened /\ Kept(o, v).cache = object[o].cache /\ Kept(o, v).at = object[o].at
        /\ Kept(o, v).writes = object[o].writes /\ Kept(o, v).reader = object[o].reader
    BY <1>1, <2>1 DEF Opened
  <2> QED BY <2>2 DEF Changed
<1> QED BY <1>2, <1>3

LEMMA SetsWrites ==
    ASSUME TypeOK, NEW o \in Object, MayWrite(o), NEW v \in Data, NEW inPlace,
           type \notin {"pointcloud2", "asset"}, Sets(o, v, inPlace)
    PROVE  Wrote(o, v)
<1>1. Idle(o) /\ v \in Written
  BY DEF MayWrite, Written
<1>2. CASE inPlace
  BY <1>1, <1>2, ChangedKept, TruncatedWrites DEF Sets
<1>3. CASE ~inPlace
  BY <1>1, <1>3, ChangedSame, TruncatedWrites DEF Sets
<1> QED BY <1>2, <1>3

(* The process ends before anything is written. *)
SetFails(o) == SetBoundingboxFails(o) \/ SetTransformsFails(o)

LEMMA FailsIs ==
    ASSUME NEW o, SetFails(o)
    PROVE  Idle(o) /\ EndsWriting(o)
BY DEF SetFails, SetBoundingboxFails, SetTransformsFails, MayWrite

LEMMA SetStep ==
    ASSUME TypeOK, NEW o \in Object, Set(o)
    PROVE  \/ FinishSet(o) \/ SetFails(o)
           \/ \E v \in Data : SetPointcloudReadOnly(o, v)
           \/ \E v \in Written : Wrote(o, v)
<1> SUFFICES ASSUME NEW v \in Data, NEW inPlace \in BOOLEAN,
                    \/ SetPointcloud(o, v) \/ SetAsset(o, v) \/ GetWriter(o, v)
                    \/ SetFloatGrid(o, v, inPlace) \/ SetPosePath(o, v, inPlace)
                    \/ SetPrimitive(o, v, inPlace) \/ SetTransforms(o, v, inPlace)
                    \/ SetBoundingbox(o, v, inPlace)
             PROVE  \E w \in Written : Wrote(o, w)
  BY DEF Set, SetFails
<1>1. v \in Written
  BY DEF Written
<1>2. CASE SetPointcloud(o, v)
  BY <1>1, <1>2, ChangedCache, TruncatedWrites DEF SetPointcloud, MayWrite
<1>3. CASE SetAsset(o, v)
  BY <1>1, <1>3, ChangedCache, TruncatedWrites DEF SetAsset, MayWrite
<1>4. CASE GetWriter(o, v)
  BY <1>1, <1>4, ChangedSame, TruncatedWrites DEF GetWriter, MayWrite
<1>5. CASE SetFloatGrid(o, v, inPlace) \/ SetPosePath(o, v, inPlace) \/ SetPrimitive(o, v, inPlace)
  BY <1>1, <1>5, SetsWrites DEF SetFloatGrid, SetPosePath, SetPrimitive
<1>6. CASE SetTransforms(o, v, inPlace)
  <2>1. Idle(o) /\ MayWrite(o) /\ type = "tf" /\ "hollow" \in Written
    BY <1>6 DEF SetTransforms, MayWrite, Written
  <2>2. CASE inPlace
    BY <1>1, <1>6, <2>1, <2>2, ChangedCache, TruncatedWrites DEF SetTransforms
  <2>3. CASE ~inPlace
    BY <1>1, <1>6, <2>1, <2>3, ChangedSame, TruncatedWrites DEF SetTransforms
  <2> QED BY <2>2, <2>3
<1>7. CASE SetBoundingbox(o, v, inPlace)
  <2>1. Idle(o) /\ MayWrite(o) /\ type = "boundingbox" /\ object[o].cache \in Written
    BY <1>7, ObjectType DEF SetBoundingbox, MayWrite, Idle
  <2>2. CASE inPlace
    BY <1>1, <1>7, <2>1, <2>2, ChangedKept, TruncatedWrites DEF SetBoundingbox
  <2>3. CASE ~inPlace
    BY <1>7, <2>1, <2>3, ChangedSame, TruncatedWrites DEF SetBoundingbox
  <2> QED BY <2>2, <2>3
<1> QED BY <1>2, <1>3, <1>4, <1>5, <1>6, <1>7

-----------------------------------------------------------------------------
(* Steps keep the invariant, but for what was seen.                        *)

Core == TypeOK /\ Made /\ Quiet /\ Writes /\ Mine

(* Nobody begins to write. *)
NobodyBegins ==
    \A p \in Object : Writing(p)' =>
        Writing(p) /\ object'[p].writer.file = object[p].writer.file

LEMMA FilesKept ==
    ASSUME TypeOK, Made, Quiet, NobodyBegins, UNCHANGED <<work, content, stored>>
    PROVE  Made' /\ Quiet'
<1>1. \A f : Writers(f)' \subseteq Writers(f)
  BY DEF Writers, NobodyBegins
<1> QED BY <1>1 DEF Made, Quiet

LEMMA ReadKeeps ==
    ASSUME Core, NEW o \in Object, Began(o) \/ \E v : Gave(o, v)
    PROVE  /\ Core'
           /\ \A v : Gave(o, v) => mine'[o] \in {None, v}
<1>1. /\ TypeOK /\ Made /\ Quiet /\ Writes /\ Mine /\ Idle(o) /\ object[o] \in Opened
      /\ UNCHANGED <<type, entry, work, content, stored, sets, hashed, mine>>
      /\ object' \in [Object -> Opened \union {Closed}] /\ object'[o] \in Opened
      /\ object'[o].at = object[o].at /\ object'[o].writes = object[o].writes
      /\ object'[o].writer = object[o].writer /\ object[o].writer = None
      /\ \A p \in Object : p # o => object'[p] = object[p]
  BY ObjectType DEF Core, Began, Gave, OthersSame, files, Idle, Writing
<1>2. IsOpen(o)' /\ ~Writing(o)' /\ Idle(o)' /\ IsOpen(o)
  BY <1>1, OpenedIsOpen DEF IsOpen, Writing, Idle
<1>3. TypeOK'
  BY <1>1 DEF TypeOK, FilesOK
<1>4. NobodyBegins
  BY <1>1, <1>2 DEF NobodyBegins, Writing, IsOpen
<1>5. Made' /\ Quiet'
  BY <1>1, <1>4, FilesKept
<1>6. Writes'
  BY <1>1, <1>2 DEF Writes, Writing, IsOpen
<1>7. ASSUME mine[o] # None
      PROVE  /\ ReadsFrom(o) = mine[o] /\ mine[o] \in Written
             /\ \A v : Gave(o, v) => v = mine[o]
             /\ object'[o].cache \in {None, mine[o]}
             /\ type = "asset" => object'[o].cache = mine[o] /\ object'[o].reader = None
             /\ object'[o].reader # None =>
                   object'[o].reader.file = work /\ object'[o].reader.header = mine[o]
  <2>1. /\ object[o].at = "workspace" /\ work # None /\ content[work] = mine[o]
        /\ object[o].cache \in {None, mine[o]}
        /\ type = "asset" => object[o].cache = mine[o] /\ object[o].reader = None
        /\ object[o].reader # None =>
              object[o].reader.file = work /\ object[o].reader.header = mine[o]
    BY <1>1, <1>2, <1>7 DEF Mine, Writes
  <2>2. mine[o] \in Written
    BY <1>1, <1>7 DEF TypeOK
  <2>3. ReadsFrom(o) = mine[o] /\ Value(ReadsFrom(o)) = mine[o]
    BY <2>1, <2>2, ValueType DEF ReadsFrom
  <2>4. ASSUME Began(o)
        PROVE  /\ object'[o].cache \in {None, mine[o]}
               /\ type = "asset" => object'[o].cache = mine[o] /\ object'[o].reader = None
               /\ object'[o].reader # None =>
                     object'[o].reader.file = work /\ object'[o].reader.header = mine[o]
    <3>1. type # "asset"
      BY <1>7, <2>1, <2>4 DEF Began
    <3> QED BY <2>1, <2>3, <2>4, <3>1 DEF Began
  <2>5. ASSUME NEW v, Gave(o, v)
        PROVE  /\ v = mine[o]
               /\ object'[o].cache \in {None, mine[o]}
               /\ type = "asset" => object'[o].cache = mine[o] /\ object'[o].reader = None
               /\ object'[o].reader # None =>
                     object'[o].reader.file = work /\ object'[o].reader.header = mine[o]
    <3>1. mine[o] \notin Data => mine[o] = "hollow"
      BY <2>2 DEF Written
    <3>2. object[o].reader # None => type # "asset" /\ FromStream(object[o].reader) = {mine[o]}
      BY <2>1 DEF FromStream
    <3> QED BY <1>7, <2>1, <2>3, <2>5, <3>1, <3>2 DEF Gave
  <2> QED BY <2>2, <2>3, <2>4, <2>5
<1>8. Mine'
  <2> SUFFICES ASSUME NEW p \in Object, mine[p] # None
               PROVE  (/\ Idle(p) /\ object[p].writes
                       /\ work # None /\ content[work] = mine[p] /\ Writers(work) = {}
                       /\ object[p].cache \in {None, mine[p]}
                       /\ type = "asset" => object[p].cache = mine[p] /\ object[p].reader = None
                       /\ object[p].reader # None =>
                             object[p].reader.file = work /\ object[p].reader.header = mine[p])'
    BY <1>1 DEF Mine
  <2>1. /\ Idle(p) /\ object[p].writes /\ work # None /\ content[work] = mine[p] /\ Writers(work) = {}
        /\ object[p].cache \in {None, mine[p]}
        /\ type = "asset" => object[p].cache = mine[p] /\ object[p].reader = None
        /\ object[p].reader # None =>
              object[p].reader.file = work /\ object[p].reader.header = mine[p]
    BY <1>1 DEF Mine
  <2>2. Writers(work)' = {}
    BY <1>1, <1>4, <2>1 DEF Writers, NobodyBegins
  <2>3. CASE p # o
    BY <1>1, <2>1, <2>2, <2>3 DEF Idle, IsOpen, Writing
  <2>4. CASE p = o
    BY <1>1, <1>2, <1>7, <2>1, <2>2, <2>4
  <2> QED BY <2>3, <2>4
<1>9. \A v : Gave(o, v) => mine'[o] \in {None, v}
  BY <1>1, <1>7
<1> QED BY <1>3, <1>5, <1>6, <1>8, <1>9 DEF Core

(* A file that is cut is the one in the workspace, or new. *)
LEMMA CutKeeps ==
    ASSUME Core, NEW f \in WorkFile, work' = f, content' = [content EXCEPT ![f] = "cut"],
           UNCHANGED <<stored>>,
           \A p \in Object : Writing(p)' =>
              \/ Writing(p) /\ object'[p].writer.file = object[p].writer.file
              \/ object'[p].writer.file = f
    PROVE  /\ f \in File /\ content' \in [File -> Content \union {None}]
           /\ Made' /\ Quiet'
<1>1. TypeOK /\ Made /\ Quiet /\ f \in File
  BY WorkFileIsFile DEF Core
<1>2. content' \in [File -> Content \union {None}]
  BY <1>1 DEF TypeOK, FilesOK, Content
<1>3. \A g \in stored : g.file # f /\ g.file \in File
  BY <1>1, WorkFileIsFile, FilesType DEF Made
<1>4. content'[f] = "cut" /\ \A g \in File : g # f => content'[g] = content[g]
  BY <1>1, FilesType
<1>5. Made'
  BY <1>1, <1>3, <1>4, Strings DEF Made
<1>6. \A g : g # f => Writers(g)' \subseteq Writers(g)
  BY DEF Writers
<1>7. Quiet'
  BY <1>1, <1>3, <1>4, <1>6 DEF Quiet
<1> QED BY <1>1, <1>2, <1>5, <1>7

LEMMA WroteKeeps ==
    ASSUME Core, NEW o \in Object, NEW v \in Written, Wrote(o, v)
    PROVE  Core'
<1>1. /\ TypeOK /\ Writes /\ Idle(o) /\ IsOpen(o) /\ object[o] \in Opened /\ object[o].writes
      /\ \A p \in Object : p # o => Alike(p)
      /\ object' \in [Object -> Opened \union {Closed}] /\ object'[o] \in Opened
      /\ object'[o].at = object[o].at /\ object'[o].writes = object[o].writes
      /\ type \in {"pointcloud2", "asset"} => object'[o].cache = v
      /\ mine' = [p \in Object |-> None]
      /\ sets' = sets + 1
      /\ UNCHANGED <<type, entry, stored, hashed>>
  BY ObjectType DEF Core, Wrote, Idle
<1>2. PICK f \in WorkFile :
        /\ work' = f
        /\ content' = [content EXCEPT ![f] = "cut"]
        /\ Writing(o)' => object'[o].writer.file = f /\ object'[o].writer.value = v
  BY DEF Wrote
<1>3. /\ f \in File /\ content' \in [File -> Content \union {None}]
      /\ Made' /\ Quiet'
  BY <1>1, <1>2, CutKeeps DEF Alike
<1>4. TypeOK'
  <2>1. sets' \in Nat
    BY <1>1 DEF TypeOK, FilesOK
  <2> QED BY <1>1, <1>2, <1>3, <2>1 DEF TypeOK, FilesOK
<1>5. Writes'
  <2> SUFFICES ASSUME NEW p \in Object, IsOpen(p)'
               PROVE  (/\ object[p].writes => object[p].at = "workspace"
                       /\ Writing(p) =>
                             /\ object[p].writes
                             /\ type \in {"pointcloud2", "asset"} =>
                                   object[p].cache = object[p].writer.value)'
    BY DEF Writes
  <2>1. CASE p = o
    BY <1>1, <1>2, <2>1 DEF Writes
  <2>2. CASE p # o
    BY <1>1, <2>2 DEF Writes, Alike
  <2> QED BY <2>1, <2>2
<1>6. Mine'
  BY <1>1 DEF Mine
<1> QED BY <1>3, <1>4, <1>5, <1>6 DEF Core

LEMMA FailsKeeps ==
    ASSUME Core, NEW o \in Object, SetFails(o)
    PROVE  Core'
<1>1. /\ TypeOK /\ Writes
      /\ object' = [object EXCEPT ![o] = Closed]
      /\ mine' = [p \in Object |-> None]
      /\ sets' = sets + 1
      /\ UNCHANGED <<type, entry, stored, hashed>>
  BY FailsIs DEF Core, EndsWriting
<1>2. /\ object'[o] = Closed /\ \A p \in Object : p # o => object'[p] = object[p]
      /\ object' \in [Object -> Opened \union {Closed}]
  BY <1>1, ObjectChanges
<1>3. PICK f \in WorkFile : work' = f /\ content' = [content EXCEPT ![f] = "cut"]
  BY FailsIs DEF EndsWriting
<1>4. /\ f \in File /\ content' \in [File -> Content \union {None}]
      /\ Made' /\ Quiet'
  BY <1>1, <1>2, <1>3, CutKeeps DEF Writing, IsOpen
<1>5. TypeOK'
  <2>1. sets' \in Nat
    BY <1>1 DEF TypeOK, FilesOK
  <2> QED BY <1>1, <1>2, <1>3, <1>4, <2>1 DEF TypeOK, FilesOK
<1>6. Writes'
  BY <1>1, <1>2 DEF Writes, Writing, IsOpen
<1>7. Mine'
  BY <1>1 DEF Mine
<1> QED BY <1>4, <1>5, <1>6, <1>7 DEF Core

LEMMA FinishKeeps ==
    ASSUME Core, NEW o \in Object, FinishSet(o)
    PROVE  Core'
<1> DEFINE w == object[o].writer
<1>1. /\ TypeOK /\ Made /\ Quiet /\ Writes /\ Writing(o) /\ IsOpen(o)
      /\ object[o] \in Opened /\ w \in Writer /\ w.file \in File /\ w.value \in Written
      /\ object' = [object EXCEPT ![o].writer = None]
      /\ UNCHANGED <<type, entry, work, stored, sets, hashed>>
  BY ObjectType DEF Core, FinishSet, Writing, Writer
<1>2. PICK c \in {w.value} \union (IF w.alone THEN {} ELSE {"cut"}) :
        /\ content' = [content EXCEPT ![w.file] = c]
        /\ mine' = [p \in Object |->
                      IF p = o /\ c = w.value /\ work = w.file /\ Fresh(o) THEN c ELSE None]
  BY DEF FinishSet
<1>3. c \in Content /\ c # None
  BY <1>1, <1>2, Strings DEF Content, Written
<1>4. content'[w.file] = c /\ \A g \in File : g # w.file => content'[g] = content[g]
  BY <1>1, <1>2, FilesType
<1>5. [object[o] EXCEPT !.writer = None] \in Opened
  BY <1>1 DEF Opened
<1>6. /\ object'[o] = [object[o] EXCEPT !.writer = None]
      /\ \A p \in Object : p # o => object'[p] = object[p]
      /\ object' \in [Object -> Opened \union {Closed}]
  BY <1>1, <1>5, ObjectChanges
<1>7. /\ object'[o].at = object[o].at /\ object'[o].writes = object[o].writes
      /\ object'[o].cache = object[o].cache /\ object'[o].reader = object[o].reader
      /\ object'[o].writer = None /\ IsOpen(o)' /\ ~Writing(o)'
  BY <1>1, <1>5, <1>6, OpenedIsOpen DEF Opened, IsOpen, Writing
<1>8. NobodyBegins
  BY <1>6, <1>7 DEF NobodyBegins, Writing, IsOpen
<1>9. TypeOK'
  <2>1. content' \in [File -> Content \union {None}]
    BY <1>1, <1>2, <1>3 DEF TypeOK, FilesOK
  <2>2. mine' \in [Object -> Written \union {None}]
    BY <1>1, <1>2
  <2> QED BY <1>1, <1>6, <2>1, <2>2 DEF TypeOK, FilesOK
<1>10. Made'
  BY <1>1, <1>3, <1>4, FilesType DEF Made
<1>11. \A f : Writers(f)' \subseteq Writers(f) \ {o}
  BY <1>7, <1>8 DEF Writers, NobodyBegins
<1>12. Quiet'
  <2>1. \A g \in stored : g.quiet => g.file # w.file
    BY <1>1 DEF Quiet, Writers
  <2> QED BY <1>1, <1>4, <1>11, <2>1, FilesType DEF Quiet
<1>13. Writes'
  BY <1>1, <1>6, <1>7 DEF Writes, Writing, IsOpen
<1>14. Mine'
  <2> SUFFICES ASSUME NEW p \in Object, mine'[p] # None
               PROVE  (/\ Idle(p) /\ object[p].writes
                       /\ work # None /\ content[work] = mine[p] /\ Writers(work) = {}
                       /\ object[p].cache \in {None, mine[p]}
                       /\ type = "asset" => object[p].cache = mine[p] /\ object[p].reader = None
                       /\ object[p].reader # None =>
                             object[p].reader.file = work /\ object[p].reader.header = mine[p])'
    BY DEF Mine
  <2>1. p = o /\ c = w.value /\ work = w.file /\ Fresh(o) /\ mine'[o] = c
    BY <1>2
  <2>2. Writers(work)' = {} /\ work # None
    BY <1>1, <1>11, <2>1, Strings DEF Fresh
  <2>3. object[o].writes /\ object[o].reader = None
    BY <1>1, <2>1 DEF Writes, Fresh
  <2>4. object[o].cache \in {None, c} /\ (type = "asset" => object[o].cache = c)
    BY <1>1, <2>1 DEF Writes, Fresh
  <2> QED BY <1>1, <1>4, <1>7, <2>1, <2>2, <2>3, <2>4 DEF Idle
<1> QED BY <1>9, <1>10, <1>12, <1>13, <1>14 DEF Core

(* An object is opened or closed, or one that may only read keeps data. *)
LEMMA ObjectKeeps ==
    ASSUME Core, NEW o \in Object, Open(o) \/ \E v \in Data : SetPointcloudReadOnly(o, v)
    PROVE  Core'
<1>1. TypeOK /\ Made /\ Quiet /\ Writes /\ Mine /\ UNCHANGED <<type, entry, work, content, stored, sets, hashed>>
  BY DEF Core, Open, OpenForReadWrite, OpenReadOnly, Close, SetPointcloudReadOnly, files
<1>2. \E x \in Opened \union {Closed} :
        /\ object' = [object EXCEPT ![o] = x]
        /\ x \in Opened => x.writer = None /\ (x.writes => x.at = "workspace")
  <2>1. CASE Close(o)
    <3>1. Closed \notin Opened
      BY OpenedIsOpen
    <3> QED BY <2>1, <3>1 DEF Close
  <2>2. CASE OpenForReadWrite(o)
    <3> DEFINE x == NewObject("workspace", TRUE)
    <3>1. x \in Opened /\ x.writer = None /\ x.at = "workspace"
      BY DEF NewObject, Opened
    <3> QED BY <2>2, <3>1 DEF OpenForReadWrite
  <2>3. CASE OpenReadOnly(o)
    <3> DEFINE x == NewObject(IF entry = "transient" THEN "workspace" ELSE "store", FALSE)
    <3>1. x \in Opened /\ x.writer = None /\ ~x.writes
      BY DEF NewObject, Opened
    <3> QED BY <2>3, <3>1 DEF OpenReadOnly
  <2>4. CASE \E v \in Data : SetPointcloudReadOnly(o, v)
    <3>1. PICK v \in Data : SetPointcloudReadOnly(o, v)
      BY <2>4
    <3>2. object[o] \in Opened /\ object[o].writer = None /\ ~object[o].writes /\ v \in Written
      BY <1>1, <3>1, ObjectType DEF SetPointcloudReadOnly, Idle, Writing, Written
    <3> DEFINE x == [object[o] EXCEPT !.cache = v]
    <3>3. x \in Opened /\ x.writer = None /\ ~x.writes
      BY <3>2 DEF Opened
    <3> QED BY <3>1, <3>3 DEF SetPointcloudReadOnly
  <2> QED BY <2>1, <2>2, <2>3, <2>4 DEF Open
<1>3. PICK x \in Opened \union {Closed} :
        /\ object' = [object EXCEPT ![o] = x]
        /\ x \in Opened => x.writer = None /\ (x.writes => x.at = "workspace")
  BY <1>2
<1>4. /\ object'[o] = x /\ \A p \in Object : p # o => object'[p] = object[p]
      /\ object' \in [Object -> Opened \union {Closed}]
  BY <1>1, <1>3, ObjectChanges
<1>5. ~Writing(o)'
  BY <1>3, <1>4 DEF Writing, IsOpen
<1>6. NobodyBegins
  BY <1>4, <1>5 DEF NobodyBegins, Writing, IsOpen
<1>7. Made' /\ Quiet'
  BY <1>1, <1>6, FilesKept
<1>8. Writes'
  BY <1>1, <1>3, <1>4, <1>5 DEF Writes, Writing, IsOpen
<1>9. /\ mine'[o] = None /\ \A p \in Object : p # o => mine'[p] = mine[p]
      /\ mine' \in [Object -> Written \union {None}]
  <2>1. CASE Close(o)
    BY <1>1, <2>1 DEF Close, TypeOK
  <2>2. CASE OpenForReadWrite(o) \/ OpenReadOnly(o)
    BY <1>1, <2>2 DEF OpenForReadWrite, OpenReadOnly, Mine, Idle, TypeOK
  <2>3. CASE \E v \in Data : SetPointcloudReadOnly(o, v)
    BY <1>1, <2>3 DEF SetPointcloudReadOnly, Mine, TypeOK
  <2> QED BY <2>1, <2>2, <2>3 DEF Open
<1>10. Mine'
  <2>1. Writers(work)' \subseteq Writers(work)
    BY <1>1, <1>6 DEF Writers, NobodyBegins
  <2> QED BY <1>1, <1>4, <1>9, <2>1 DEF Mine, Idle, IsOpen, Writing
<1>11. TypeOK'
  BY <1>1, <1>4, <1>9 DEF TypeOK, FilesOK
<1> QED BY <1>7, <1>8, <1>10, <1>11 DEF Core

(* The entity is stored, deleted or committed. *)
LEMMA EntityKeeps ==
    ASSUME Core, Keep
    PROVE  Core'
<1>1. TypeOK /\ Made /\ Quiet /\ Writes /\ Mine
  BY DEF Core
<1>2. UNCHANGED <<type, content, sets, object>> /\ \A f : Writers(f)' = Writers(f)
  <2>1. UNCHANGED <<type, content, sets, object>>
    BY DEF Keep, StoreEntity, DeleteEntity, HashData, MoveData, MoveFails, CommitWithoutData
  <2> QED BY <2>1 DEF Writers, Writing, IsOpen
<1>3. Writes'
  BY <1>1, <1>2 DEF Writes, Writing, IsOpen
<1>4. CASE StoreEntity \/ HashData \/ MoveFails \/ CommitWithoutData
  <2>1. UNCHANGED <<work, stored, mine>> /\ entry' \in {"transient", "stored", entry}
    BY <1>4 DEF StoreEntity, HashData, MoveFails, CommitWithoutData
  <2>2. hashed' \in Content \union {None}
    BY <1>1, <1>4, FilesType DEF StoreEntity, HashData, MoveFails, CommitWithoutData, TypeOK, FilesOK
  <2>3. TypeOK'
    BY <1>1, <1>2, <2>1, <2>2 DEF TypeOK, FilesOK
  <2>4. Made' /\ Quiet'
    BY <1>1, <1>2, <2>1 DEF Made, Quiet
  <2>5. Mine'
    BY <1>1, <1>2, <2>1 DEF Mine, Idle, IsOpen, Writing
  <2> QED BY <1>3, <2>3, <2>4, <2>5 DEF Core
<1>5. CASE DeleteEntity \/ MoveData
  <2>1. work' = None /\ mine' = [o \in Object |-> None]
    BY <1>5 DEF DeleteEntity, MoveData, NobodyKnows
  <2>2. Mine' /\ mine' \in [Object -> Written \union {None}]
    BY <2>1 DEF Mine
  <2>3. CASE DeleteEntity
    <3>1. entry' = "gone" /\ UNCHANGED <<stored, hashed>>
      BY <2>3 DEF DeleteEntity
    <3>2. TypeOK'
      BY <1>1, <1>2, <2>1, <2>2, <3>1 DEF TypeOK, FilesOK
    <3>3. Made' /\ Quiet'
      BY <1>1, <1>2, <2>1, <3>1, FilesType, Strings DEF Made, Quiet
    <3> QED BY <1>3, <2>2, <3>2, <3>3 DEF Core
  <2>4. CASE MoveData
    <3> DEFINE s == [hash |-> hashed, file |-> work,
                     quiet |-> Writers(work) = {} /\ content[work] = hashed]
    <3>1. /\ hashed # None /\ work # None /\ hashed' = None /\ entry' = "stored"
          /\ stored' = {g \in stored : g.hash # hashed} \union {s}
      BY <2>4 DEF MoveData
    <3>2. /\ s \in [hash : Content, file : File, quiet : BOOLEAN]
          /\ s.file = work /\ s.hash = hashed
          /\ s.quiet => Writers(work) = {} /\ content[work] = hashed
      BY <1>1, <3>1, FilesType DEF TypeOK, FilesOK
    <3>3. TypeOK'
      BY <1>1, <1>2, <2>1, <2>2, <3>1, <3>2 DEF TypeOK, FilesOK
    <3>4. Made'
      BY <1>1, <1>2, <2>1, <3>1, <3>2, FilesType, Strings DEF Made
    <3>5. Quiet'
      BY <1>1, <1>2, <3>1, <3>2 DEF Quiet
    <3> QED BY <1>3, <2>2, <3>3, <3>4, <3>5 DEF Core
  <2> QED BY <1>5, <2>3, <2>4
<1> QED BY <1>4, <1>5 DEF Keep

-----------------------------------------------------------------------------
(* What was seen.                                                          *)

(* Where what an object keeps, or reads from, comes from. *)
Traced(o) ==
    IsOpen(o)' =>
        /\ object'[o].cache \in Written =>
              \/ IsOpen(o) /\ object'[o].cache = object[o].cache
              \/ IsOpen(o) /\ object'[o].cache = Value(ReadsFrom(o))
              \/ IsOpen(o) /\ object'[o].cache \in Data /\ object'[o] # object[o] /\ got'.by = None
              \/ object'[o].cache = "hollow" /\ type' = "tf"
        /\ object'[o].reader # None =>
              \/ IsOpen(o) /\ object[o].reader # None /\ object'[o].reader.header = object[o].reader.header
              \/ IsOpen(o) /\ object'[o].reader.header \in Data /\ object'[o].reader.header = ReadsFrom(o)

LEMMA SameIsTraced ==
    ASSUME TypeOK, NEW o \in Object, object'[o] = object[o]
    PROVE  Traced(o)
BY DEF Traced, IsOpen

LEMMA StepTraced ==
    ASSUME TypeOK, Step, NEW o \in Object
    PROVE  Traced(o) /\ type' = type
<1>1. ASSUME NEW p \in Object, Get(p)
      PROVE  Traced(o) /\ type' = type
  <2>1. CASE Began(p)
    <3>1. CASE o = p
      BY <2>1, <3>1, ObjectType DEF Began, Traced, Idle, IsOpen
    <3>2. CASE o # p
      BY <2>1, <3>2, SameIsTraced DEF Began, OthersSame
    <3> QED BY <2>1, <3>1, <3>2 DEF Began
  <2>2. ASSUME NEW v, Gave(p, v)
        PROVE  Traced(o) /\ type' = type
    <3>1. CASE o = p
      BY <2>2, <3>1 DEF Gave, Traced, Idle
    <3>2. CASE o # p
      BY <2>2, <3>2, SameIsTraced DEF Gave, OthersSame
    <3> QED BY <2>2, <3>1, <3>2 DEF Gave
  <2> QED BY <1>1, <2>1, <2>2, GetStep
<1>2. CASE Keep
  <2>1. UNCHANGED <<type, object>>
    BY <1>2 DEF Keep, StoreEntity, DeleteEntity, HashData, MoveData, MoveFails, CommitWithoutData
  <2> QED BY <2>1, SameIsTraced
<1>3. ASSUME NEW p \in Object, Open(p)
      PROVE  Traced(o) /\ type' = type
  <2>1. type' = type /\ \E x : object' = [object EXCEPT ![p] = x]
    BY <1>3 DEF Open, OpenForReadWrite, OpenReadOnly, Close
  <2>2. CASE o # p
    BY <2>1, <2>2, ObjectChanges, SameIsTraced
  <2>3. CASE o = p
    <3>1. IsOpen(o)' => object'[o].cache = None /\ object'[o].reader = None
      BY <1>3, <2>3, ObjectChanges DEF Open, OpenForReadWrite, OpenReadOnly, Close, NewObject, IsOpen
    <3> QED BY <2>1, <3>1, Strings DEF Traced
  <2> QED BY <2>1, <2>2, <2>3
<1>4. ASSUME NEW p \in Object, GetsNothing, Set(p)
      PROVE  Traced(o) /\ type' = type
  <2>1. got'.by = None
    BY <1>4 DEF GetsNothing
  <2>2. CASE FinishSet(p)
    <3>1. type' = type /\ object' = [object EXCEPT ![p] = [object[p] EXCEPT !.writer = None]]
      BY <2>2 DEF FinishSet
    <3>2. CASE o # p
      BY <3>1, <3>2, ObjectChanges, SameIsTraced
    <3>3. CASE o = p
      <4>1. IsOpen(o) /\ object[o] \in Opened
        BY <2>2, <3>3, ObjectType DEF FinishSet, Writing
      <4>2. object'[o] = [object[o] EXCEPT !.writer = None]
        BY <3>1, <3>3, ObjectChanges
      <4>3. object'[o].cache = object[o].cache /\ object'[o].reader = object[o].reader
        BY <4>1, <4>2 DEF Opened
      <4> QED BY <3>1, <4>1, <4>3 DEF Traced
    <3> QED BY <3>1, <3>2, <3>3
  <2>3. CASE SetFails(p)
    <3>1. type' = type /\ object' = [object EXCEPT ![p] = Closed]
      BY <2>3, FailsIs DEF EndsWriting
    <3>2. CASE o # p
      BY <3>1, <3>2, ObjectChanges, SameIsTraced
    <3>3. CASE o = p
      BY <3>1, <3>3, ObjectChanges DEF Traced, IsOpen
    <3> QED BY <3>1, <3>2, <3>3
  <2>4. ASSUME NEW v \in Data, SetPointcloudReadOnly(p, v)
        PROVE  Traced(o) /\ type' = type
    <3>1. type' = type /\ object' = [object EXCEPT ![p] = [object[p] EXCEPT !.cache = v]] /\ Idle(p)
      BY <2>4 DEF SetPointcloudReadOnly
    <3>2. CASE o # p
      BY <3>1, <3>2, ObjectChanges, SameIsTraced
    <3>3. CASE o = p
      <4>1. IsOpen(o) /\ object[o] \in Opened
        BY <3>1, <3>3, ObjectType DEF Idle
      <4>2. object'[o] = [object[o] EXCEPT !.cache = v]
        BY <3>1, <3>3, ObjectChanges
      <4>3. object'[o].cache = v /\ object'[o].reader = object[o].reader
        BY <4>1, <4>2 DEF Opened
      <4>4. object'[o] = object[o] => object'[o].cache = object[o].cache
        OBVIOUS
      <4> QED BY <2>1, <3>1, <4>1, <4>3, <4>4 DEF Traced
    <3> QED BY <3>1, <3>2, <3>3
  <2>5. ASSUME NEW v \in Written, Wrote(p, v)
        PROVE  Traced(o) /\ type' = type
    <3>1. CASE o # p
      BY <2>5, <3>1, ObjectType DEF Wrote, Alike, Traced
    <3>2. CASE o = p
      <4>1. object'[o] = object[o] => object'[o].cache = object[o].cache
        OBVIOUS
      <4> QED BY <2>1, <2>5, <3>2, <4>1 DEF Wrote, Traced, Idle
    <3> QED BY <2>5, <3>1, <3>2 DEF Wrote
  <2> QED BY <1>4, <2>2, <2>3, <2>4, <2>5, SetStep
<1> QED BY <1>1, <1>2, <1>3, <1>4 DEF Step

(* What can be read now was seen. *)
LEMMA NowSeen ==
    ASSUME Next, NEW o \in Object, IsOpen(o)'
    PROVE  /\ seen'[o] = seen[o] \union Sees(o)
           /\ \A c \in Readable(o)' : Value(c) \in Sees(o)
           /\ IsOpen(o) /\ object'[o] # object[o] /\ got'.by = None /\ object'[o].cache \in Data =>
                 object'[o].cache \in Sees(o)
<1>1. seen'[o] = seen[o] \union Sees(o)
  BY DEF Next
<1>2. \A c \in Readable(o)' : Value(c) \in Sees(o)
  BY DEF Sees, Value
<1>3. IsOpen(o) /\ object'[o] # object[o] /\ got'.by = None /\ object'[o].cache \in Data =>
        object'[o].cache \in Sees(o)
  BY DEF Sees
<1> QED BY <1>1, <1>2, <1>3

LEMMA SeesIsFinite ==
    ASSUME NEW o
    PROVE  IsFiniteSet(Sees(o))
<1> DEFINE kept == IF IsOpen(o) /\ object'[o] # object[o] /\ got'.by = None
                   THEN {object'[o].cache} \cap Data ELSE {}
           set == IF Writing(o)' THEN {object'[o].writer.value} ELSE {}
           found == Readable(o)' \union kept \union set
           shown == [c \in found |-> IF c \in Data THEN c ELSE "hollow"]
<1>1. IsFiniteSet({}) /\ \A x : IsFiniteSet({x})
  BY FS_EmptySet, FS_Singleton
<1>2. IsFiniteSet({object'[o].cache} \cap Data)
  BY <1>1, FS_Subset
<1>3. IsFiniteSet(kept) /\ IsFiniteSet(set)
  BY <1>1, <1>2
<1>4. IsFiniteSet(Readable(o)')
  <2>1. CASE ~IsOpen(o)'
    BY <1>1, <2>1 DEF Readable
  <2>2. CASE IsOpen(o)'
    <3> DEFINE a == {ReadsFrom(o)'}
               b == IF object'[o].reader = None THEN {} ELSE {content'[object'[o].reader.file]}
    <3>1. IsFiniteSet(a) /\ IsFiniteSet(b)
      BY <1>1
    <3>2. Readable(o)' = a \union b
      BY <2>2 DEF Readable
    <3> HIDE DEF a, b
    <3> QED BY <3>1, <3>2, FS_Union
  <2> QED BY <2>1, <2>2
<1>5. IsFiniteSet(found)
  <2> HIDE DEF kept, set
  <2>1. IsFiniteSet(Readable(o)' \union kept)
    BY <1>3, <1>4, FS_Union
  <2> QED BY <1>3, <2>1, FS_Union
<1>6. Sees(o) = {IF c \in Data THEN c ELSE "hollow" : c \in found}
  BY DEF Sees
<1> HIDE DEF found
<1>7. Sees(o) = Range(shown)
  BY <1>6 DEF Range
<1>8. shown \in Surjection(found, Range(shown))
  BY DEF Range, Surjection
<1> QED BY <1>5, <1>7, <1>8, FS_Surjection

(* What was seen stays, and what an object keeps was seen. *)
LEMMA SeenKeeps ==
    ASSUME TypeOK, Seen, seen = [o \in Object |-> seen[o]], Next
    PROVE  /\ Seen' /\ seen' = [o \in Object |-> seen'[o]]
           /\ \A o \in Object : IsOpen(o)' => seen[o] \subseteq seen'[o]
<1>1. seen' = [o \in Object |-> seen'[o]]
  BY DEF Next
<1>2. \A o \in Object : IsOpen(o)' => seen[o] \subseteq seen'[o]
  BY NowSeen
<1>3. ASSUME NEW o \in Object
      PROVE  IsFiniteSet(seen'[o])
  <2>1. IsFiniteSet(seen[o] \union Sees(o)) /\ IsFiniteSet({})
    BY SeesIsFinite, FS_Union, FS_EmptySet DEF Seen
  <2>2. seen'[o] \in {seen[o] \union Sees(o), {}}
    BY DEF Next
  <2> QED BY <2>1, <2>2
<1>4. ASSUME NEW o \in Object, IsOpen(o)'
      PROVE  /\ \A c \in Readable(o)' : Value(c) \in seen'[o]
             /\ object'[o].cache \in Data => object'[o].cache \in seen'[o]
             /\ object'[o].cache = "hollow" => "hollow" \in seen'[o] \/ type' = "tf"
             /\ object'[o].reader # None => object'[o].reader.header \in seen'[o]
  <2>1. Traced(o) /\ type' = type
    BY StepTraced DEF Next
  <2>2. IsOpen(o) =>
          /\ Value(ReadsFrom(o)) \in seen[o]
          /\ object[o].cache \in Data => object[o].cache \in seen[o]
          /\ object[o].cache = "hollow" => "hollow" \in seen[o] \/ type = "tf"
          /\ object[o].reader # None => object[o].reader.header \in seen[o]
    BY DEF Seen, Readable
  <2>3. seen[o] \subseteq seen'[o] /\ Sees(o) \subseteq seen'[o]
    BY <1>4, NowSeen
  <2>4. object'[o].cache \in Data => object'[o].cache \in seen'[o]
    BY <1>4, <2>1, <2>2, <2>3, NowSeen, Strings DEF Traced, Written
  <2>5. object'[o].cache = "hollow" => "hollow" \in seen'[o] \/ type' = "tf"
    BY <1>4, <2>1, <2>2, <2>3, Strings DEF Traced, Written
  <2>6. object'[o].reader # None => object'[o].reader.header \in seen'[o]
    BY <1>4, <2>1, <2>2, <2>3 DEF Traced, Value
  <2> QED BY <1>4, <2>3, <2>4, <2>5, <2>6, NowSeen
<1> QED BY <1>1, <1>2, <1>3, <1>4 DEF Seen

LEMMA TwoAreMore ==
    ASSUME NEW S, IsFiniteSet(S), NEW x \in S, NEW y \in S, x # y
    PROVE  Cardinality(S) > 1
<1>1. Cardinality(S) \in Nat
  BY FS_CardinalityType
<1>2. Cardinality(S) # 0
  BY FS_EmptySet
<1>3. Cardinality(S) # 1
  BY FS_Singleton
<1> QED BY <1>1, <1>2, <1>3

(* What is given was seen. *)
LEMMA GivesWhatWasSeen ==
    ASSUME TypeOK, Seen, seen = [o \in Object |-> seen[o]], Next, NEW o \in Object, NEW v, Gave(o, v)
    PROVE  Regular'
<1>1. /\ got'.by = o /\ got'.value = v /\ type' = type /\ IsOpen(o) /\ Idle(o)
      /\ object'[o] \in Opened
  BY DEF Gave, Idle
<1>2. IsOpen(o)'
  BY <1>1, OpenedIsOpen DEF IsOpen
<1>3. seen[o] \subseteq seen'[o] /\ IsFiniteSet(seen'[o])
  BY <1>2, SeenKeeps DEF Seen
<1>4. /\ Value(ReadsFrom(o)) \in seen[o]
      /\ object[o].cache \in Data => object[o].cache \in seen[o]
      /\ object[o].cache = "hollow" => "hollow" \in seen[o] \/ type = "tf"
      /\ object[o].reader # None =>
            object[o].reader.header \in seen[o] /\ Value(content[object[o].reader.file]) \in seen[o]
  BY <1>1 DEF Seen, Readable
<1>5. object[o].cache \in Written \union {None}
  BY <1>1, ObjectType
<1>6. object[o].reader # None =>
        /\ object[o].reader.header \in Data
        /\ v = "torn" /\ v \in FromStream(object[o].reader) => Cardinality(seen'[o]) > 1
  <2> SUFFICES ASSUME object[o].reader # None
               PROVE  /\ object[o].reader.header \in Data
                      /\ v = "torn" /\ v \in FromStream(object[o].reader) => Cardinality(seen'[o]) > 1
    OBVIOUS
  <2> DEFINE h == object[o].reader.header
  <2> DEFINE c == content[object[o].reader.file]
  <2>1. h \in Data
    BY <1>1, ObjectType DEF Reader
  <2>2. ASSUME v = "torn", v \in FromStream(object[o].reader)
        PROVE  Cardinality(seen'[o]) > 1
    <3>1. c # h
      BY <2>1, <2>2, Strings DEF FromStream
    <3>2. Value(c) # h
      BY <2>1, <3>1, Strings DEF Value
    <3>3. h \in seen'[o] /\ Value(c) \in seen'[o]
      BY <1>3, <1>4
    <3> QED BY <1>3, <3>2, <3>3, TwoAreMore
  <2> QED BY <2>1, <2>2
<1>7. \/ v \in Data /\ v \in seen[o]
      \/ v = "hollow" /\ ("hollow" \in seen[o] \/ type = "tf" \/ (type = "asset" /\ object'[o].reader # None))
      \/ v = "torn" /\ Cardinality(seen'[o]) > 1
  <2>1. CASE object[o].cache # None /\ v = object[o].cache
    BY <1>4, <1>5, <2>1 DEF Written
  <2>2. CASE v = Value(ReadsFrom(o))
    BY <1>4, <2>2 DEF Value
  <2>3. CASE type = "tf" /\ v = "hollow"
    BY <2>3
  <2>4. CASE /\ object[o].reader # None /\ object'[o].reader # None
             /\ v \in FromStream(object[o].reader) \/ (type = "asset" /\ v = "hollow")
    BY <1>4, <1>6, <2>4 DEF FromStream
  <2> QED BY <2>1, <2>2, <2>3, <2>4 DEF Gave
<1>8. CASE v \in Data /\ v \in seen[o]
  BY <1>1, <1>3, <1>8, Strings DEF Regular
<1>9. CASE v = "hollow" /\ ("hollow" \in seen[o] \/ type = "tf" \/ (type = "asset" /\ object'[o].reader # None))
  BY <1>1, <1>3, <1>9 DEF Regular
<1>10. CASE v = "torn" /\ Cardinality(seen'[o]) > 1
  BY <1>1, <1>10 DEF Regular
<1> QED BY <1>7, <1>8, <1>9, <1>10

-----------------------------------------------------------------------------
(* The theorems.                                                           *)

LEMMA InitIInv ==
    ASSUME Init
    PROVE  IInv
<1>1. \A o \in Object : object[o] = Closed /\ ~IsOpen(o) /\ ~Writing(o) /\ mine[o] = None /\ seen[o] = {}
  BY DEF Init, IsOpen, Writing
<1>2. TypeOK
  BY DEF Init, TypeOK, FilesOK
<1>3. Made /\ Quiet /\ Writes /\ Mine
  BY <1>1 DEF Init, Made, Quiet, Writes, Mine
<1>4. Seen /\ seen = [o \in Object |-> seen[o]]
  BY <1>1, FS_EmptySet DEF Init, Seen
<1>5. GotOK /\ Regular /\ ReadYourWrites
  BY DEF Init, GotOK, Regular, ReadYourWrites
<1> QED BY <1>2, <1>3, <1>4, <1>5 DEF IInv

LEMMA NextIInv ==
    ASSUME IInv, [Next]_vars
    PROVE  IInv'
<1>1. Core /\ TypeOK /\ Seen /\ seen = [o \in Object |-> seen[o]] /\ GotOK /\ Regular /\ ReadYourWrites
  BY DEF IInv, Core
<1>2. CASE Next
  <2>1. Seen' /\ seen' = [o \in Object |-> seen'[o]]
    BY <1>1, <1>2, SeenKeeps
  <2>2. ASSUME NEW o \in Object, Get(o)
        PROVE  Core' /\ GotOK' /\ Regular' /\ ReadYourWrites'
    <3>1. ASSUME Began(o)
          PROVE  Core' /\ GotOK' /\ Regular' /\ ReadYourWrites'
      <4>1. got'.by = None /\ Core'
        BY <1>1, <3>1, ReadKeeps DEF Began
      <4> QED BY <4>1 DEF GotOK, Regular, ReadYourWrites
    <3>2. ASSUME NEW v, Gave(o, v)
          PROVE  Core' /\ GotOK' /\ Regular' /\ ReadYourWrites'
      <4>1. got'.by = o /\ got'.value = v
        BY <3>2 DEF Gave
      <4>2. Core' /\ mine'[o] \in {None, v}
        BY <1>1, <3>2, ReadKeeps
      <4>3. Regular'
        BY <1>1, <1>2, <3>2, GivesWhatWasSeen
      <4> QED BY <4>1, <4>2, <4>3 DEF GotOK, ReadYourWrites
    <3> QED BY <1>1, <2>2, <3>1, <3>2, GetStep
  <2>3. ASSUME GetsNothing, Keep \/ \E o \in Object : Set(o) \/ Open(o)
        PROVE  Core' /\ GotOK' /\ Regular' /\ ReadYourWrites'
    <3>1. got'.by = None
      BY <2>3 DEF GetsNothing
    <3>2. ASSUME NEW o \in Object, Set(o)
          PROVE  Core'
      BY <1>1, <3>2, SetStep, FinishKeeps, FailsKeeps, WroteKeeps, ObjectKeeps
    <3>3. Core'
      BY <1>1, <2>3, <3>2, EntityKeeps, ObjectKeeps
    <3> QED BY <3>1, <3>3 DEF GotOK, Regular, ReadYourWrites
  <2>4. Core' /\ GotOK' /\ Regular' /\ ReadYourWrites'
    BY <1>2, <2>2, <2>3 DEF Next, Step
  <2> QED BY <2>1, <2>4 DEF IInv, Core
<1>3. CASE UNCHANGED vars
  <2>1. TypeOK' /\ Made' /\ Quiet' /\ Writes' /\ Mine'
    BY <1>1, <1>3 DEF Core, vars, files, TypeOK, FilesOK, Made, Quiet, Writes, Mine,
                      Writers, Idle, Writing, IsOpen
  <2>2. Seen' /\ seen' = [o \in Object |-> seen'[o]] /\ GotOK' /\ Regular' /\ ReadYourWrites'
    BY <1>1, <1>3 DEF vars, files, Seen, GotOK, Regular, ReadYourWrites, IsOpen, Readable, ReadsFrom
  <2> QED BY <2>1, <2>2 DEF IInv
<1> QED BY <1>2, <1>3

THEOREM Inductive == Spec => []IInv
<1>1. Init => IInv
  BY InitIInv
<1>2. IInv /\ [Next]_vars => IInv'
  BY NextIInv
<1> QED BY <1>1, <1>2, PTL DEF Spec

(* Data that a commit moved while nobody wrote it is what its hash says,   *)
(* whatever clients do with the objects they have of it.                   *)
THEOREM StoredDataStays == Spec => []StoreStays
<1>1. IInv => StoreStays
  BY DEF IInv, Quiet, StoreStays
<1> QED BY <1>1, Inductive, PTL

(* An object gives back what it wrote, until somebody changes the file. *)
THEOREM WritesAreRead == Spec => []ReadYourWrites
<1>1. IInv => ReadYourWrites
  BY DEF IInv
<1> QED BY <1>1, Inductive, PTL

(* An object gives what there was to read or was set since it was opened;  *)
(* what it gives is hollow or torn only if there is a reason.              *)
THEOREM ReadsAreRegular == Spec => []Regular
<1>1. IInv => Regular
  BY DEF IInv
<1> QED BY <1>1, Inductive, PTL

=============================================================================
