----------------------------- MODULE EntityData -----------------------------
(***************************************************************************)
(* The data of an entity and the objects through which clients use it:     *)
(*   layertypes_collection               one class for each type of data   *)
(*   FileSystemEntitydataStreamProvider  their streams over a file         *)
(*   WorkspaceImpl, FSSerializer         which file that is, and what a    *)
(*                                       commit does with it               *)
(*                                                                         *)
(* One entity at one path.  Objects belong to any thread or process; they  *)
(* keep what they have read, and nothing locks the file.  A file that is   *)
(* moved or removed stays with those who have it open.                     *)
(***************************************************************************)
EXTENDS Naturals, FiniteSets

CONSTANTS
  Object,   \* objects that clients may have
  Data,     \* what the data may be
  None,     \* no data
  File,     \* bound: data files that are made
  MaxSets   \* bound: data that is written

Type == {"pointcloud2", "openvdb", "asset", "las",
         "pose_path", "primitive", "boundingbox", "tf"}

(* What reading may find besides data: no file, a file that is not written *)
(* to its end, the message of the entity.  What comes of it is "hollow",   *)
(* and of a file that changed between its header and the rest, "torn".     *)
ASSUME DataAssumption ==
    {"no file", "cut", "message", "hollow", "torn"} \cap (Data \union {None}) = {}
ASSUME NoneAssumption ==
    None \notin Data \union File \union [file : File, header : Data, used : BOOLEAN]
ASSUME MaxSetsAssumption == MaxSets \in Nat

Content == Data \union {"cut", "hollow"}

VARIABLES
  type,     \* of the entity
  entry,    \* "transient", "stored" or "gone"
  work,     \* entity_data at the path in the workspace, a file or None
  content,  \* [File -> what is in it, None if it was never made]
  stored,   \* files in entities_data, with the hash they are called by
  sets,     \* how often data was written
  hashed,   \* what a commit that is under way has hashed, or None
  object,   \* [Object -> what it is, or Closed]
  got,      \* the object from which this step has got data, with that data
  mine,     \* [Object -> what it wrote, if nobody has changed the file since
            \*  and it had read nothing before that it keeps]
  seen      \* [Object -> what there was to read since it was opened, and what it set]

files == <<entry, work, content, stored, sets, hashed>>
vars == <<type, files, object, got, mine, seen>>

(* An object reads and writes at the path in the workspace, or may only    *)
(* read; or it reads where the message of a committed entity is.  It has   *)
(* data it keeps, a stream it reads from and one it writes to.             *)
Closed == [at |-> "nowhere"]
NewObject(place, writes) ==
    [at |-> place, writes |-> writes, cache |-> None, reader |-> None, writer |-> None]

IsOpen(o) == object[o] # Closed
Writing(o) == IsOpen(o) /\ object[o].writer # None
Idle(o) == IsOpen(o) /\ ~Writing(o)

-----------------------------------------------------------------------------
(* Files.                                                                  *)

(* startRead, startReadFile: what an object finds when it begins to read.  *)
ReadsFrom(o) ==
    IF object[o].at = "store" THEN "message"
    ELSE IF work = None THEN "no file" ELSE content[work]

(* What there is to read for an object now, also in a stream it has open. *)
Readable(o) ==
    IF ~IsOpen(o) THEN {}
    ELSE {ReadsFrom(o)}
           \union (IF object[o].reader = None THEN {} ELSE {content[object[o].reader.file]})

Writers(f) == {o \in Object : Writing(o) /\ object[o].writer.file = f}

WorkFile ==
    IF sets >= MaxSets THEN {}
    ELSE IF work # None THEN {work} ELSE {g \in File : content[g] = None}

(* startWrite, startWriteFile: the file is made or cut to nothing.  Who    *)
(* was writing it goes on where he was.                                    *)
Truncated(o, v, changed) ==
    \E f \in WorkFile :
        /\ sets' = sets + 1
        /\ work' = f
        /\ content' = [content EXCEPT ![f] = "cut"]
        /\ object' = [p \in Object |->
              IF p = o
              THEN [changed EXCEPT !.writer =
                      [file |-> f, value |-> v, alone |-> Writers(f) = {}]]
              ELSE IF p \in Writers(f) THEN [object[p] EXCEPT !.writer.alone = FALSE]
              ELSE object[p]]
        /\ mine' = [p \in Object |-> None]
        /\ UNCHANGED <<type, entry, stored, hashed>>

(* Nobody else writes, and the object has not read before what it doesn't  *)
(* replace: point clouds and assets are kept as they are written.          *)
Fresh(o) ==
    /\ Writers(object[o].writer.file) = {o}
    /\ object[o].reader = None
    /\ \/ type \in {"pointcloud2", "asset"}
       \/ object[o].cache \in {None, object[o].writer.value}

(* endWrite, endWriteFile *)
FinishSet(o) ==
    LET w == object[o].writer
    IN  /\ Writing(o)
        /\ \E c \in {w.value} \union (IF w.alone THEN {} ELSE {"cut"}) :
              /\ content' = [content EXCEPT ![w.file] = c]
              /\ mine' = [p \in Object |->
                            IF p = o /\ c = w.value /\ work = w.file /\ Fresh(o)
                            THEN c ELSE None]
        /\ object' = [object EXCEPT ![o].writer = None]
        /\ UNCHANGED <<type, entry, work, stored, sets, hashed>>

-----------------------------------------------------------------------------
(* Reading.                                                                *)

Value(c) == IF c \in Data THEN c ELSE "hollow"

Gets(o, v) == got' = [by |-> o, value |-> v] /\ UNCHANGED <<type, files, mine>>
GetsNothing == got' = [by |-> None, value |-> None]

(* m_data is there already. *)
FromCache(o) ==
    /\ object[o].cache # None
    /\ Gets(o, object[o].cache)
    /\ UNCHANGED object

IntoCache(o, v) ==
    /\ object[o].cache = None
    /\ Gets(o, v)
    /\ object' = [object EXCEPT ![o].cache = v]

(* PointcloudEntitydata::getData: a cloud without points if reading fails *)
GetPointcloud(o) ==
    /\ type = "pointcloud2" /\ Idle(o)
    /\ FromCache(o) \/ IntoCache(o, Value(ReadsFrom(o)))

(* FloatGridEntitydata::getData throws if there is no grid. *)
GetFloatGrid(o) ==
    /\ type = "openvdb" /\ Idle(o)
    /\ \/ FromCache(o)
       \/ ReadsFrom(o) \in Data /\ IntoCache(o, ReadsFrom(o))

(* The messages: PosePathEntitydata::getData, PrimitiveEntitydata::getData *)
(* and BoundingboxEntitydata::getData proceed with an empty one, or with   *)
(* the box around the origin.                                              *)
GetPosePath(o) ==
    /\ type = "pose_path" /\ Idle(o)
    /\ FromCache(o) \/ IntoCache(o, Value(ReadsFrom(o)))

GetPrimitive(o) ==
    /\ type = "primitive" /\ Idle(o)
    /\ FromCache(o) \/ IntoCache(o, Value(ReadsFrom(o)))

GetBoundingbox(o) ==
    /\ type = "boundingbox" /\ Idle(o)
    /\ FromCache(o) \/ IntoCache(o, Value(ReadsFrom(o)))

(* TfEntitydata::getData returns a null pointer and keeps nothing. *)
GetTransforms(o) ==
    /\ type = "tf" /\ Idle(o)
    /\ \/ FromCache(o)
       \/ ReadsFrom(o) \in Data /\ IntoCache(o, ReadsFrom(o))
       \/ /\ object[o].cache = None /\ ReadsFrom(o) \notin Data
          /\ Gets(o, "hollow")
          /\ UNCHANGED object

(* AssetEntitydata::getData, LASEntitydata::getReader: the header is read, *)
(* the stream stays open.  What has no header throws, or, of assets, has   *)
(* no elements.                                                            *)
OpenReader(o) ==
    /\ ReadsFrom(o) \in Data
    /\ object' = [object EXCEPT ![o].reader =
                    [file |-> work, header |-> ReadsFrom(o), used |-> FALSE]]
    /\ GetsNothing
    /\ UNCHANGED <<type, files, mine>>

GetAsset(o) ==
    /\ type = "asset" /\ Idle(o)
    /\ \/ FromCache(o)
       \/ object[o].cache = None /\ object[o].reader = None /\ OpenReader(o)

GetReader(o) == type = "las" /\ Idle(o) /\ OpenReader(o)

(* The client reads what follows the header, which may be in the buffer of *)
(* the stream.                                                             *)
FromStream(r) ==
    {r.header} \union (IF content[r.file] = r.header THEN {} ELSE {"torn"})

(* PlyFile::read, which goes to the end of the stream for good *)
ReadAsset(o) ==
    /\ type = "asset" /\ Idle(o) /\ object[o].reader # None
    /\ \E v \in IF object[o].reader.used THEN {"hollow"} ELSE FromStream(object[o].reader) :
          Gets(o, v)
    /\ object' = [object EXCEPT ![o].reader.used = TRUE]

(* LASEntitydataReader::ReadNextPoint to the end *)
ReadPoints(o) ==
    /\ type = "las" /\ Idle(o) /\ object[o].reader # None
    /\ \E v \in FromStream(object[o].reader) : Gets(o, v)
    /\ UNCHANGED object

-----------------------------------------------------------------------------
(* Writing.  The data is new, or it is what the object keeps, which its    *)
(* client has changed in place.                                            *)

MayWrite(o) == Idle(o) /\ object[o].writes
Kept(o, v) == [object[o] EXCEPT !.cache = IF @ \in Data \union {"hollow"} THEN v ELSE @]
Sets(o, v, inPlace) ==
    Truncated(o, v, IF inPlace THEN Kept(o, v) ELSE object[o])
InPlace(o, inPlace) == inPlace => object[o].cache # None

(* PointcloudEntitydata::setData keeps the data. *)
SetPointcloudNotKept(o, v) ==                      \* mutant: the old data is kept
    type = "pointcloud2" /\ MayWrite(o) /\ Truncated(o, v, object[o])

SetPointcloud(o, v) ==
    /\ type = "pointcloud2" /\ MayWrite(o)
    /\ Truncated(o, v, [object[o] EXCEPT !.cache = v])

(* If it may only read, it fails and keeps the data all the same. *)
SetPointcloudReadOnly(o, v) ==
    /\ type = "pointcloud2" /\ Idle(o) /\ ~object[o].writes
    /\ object' = [object EXCEPT ![o].cache = v]
    /\ UNCHANGED <<type, files, mine>>

SetFloatGrid(o, v, inPlace) ==
    type = "openvdb" /\ MayWrite(o) /\ InPlace(o, inPlace) /\ Sets(o, v, inPlace)

SetPosePath(o, v, inPlace) ==
    type = "pose_path" /\ MayWrite(o) /\ InPlace(o, inPlace) /\ Sets(o, v, inPlace)

SetPrimitive(o, v, inPlace) ==
    type = "primitive" /\ MayWrite(o) /\ InPlace(o, inPlace) /\ Sets(o, v, inPlace)

(* The file is cut already when the process ends. *)
EndsWriting(o) ==
    /\ \E f \in WorkFile :
          /\ work' = f
          /\ content' = [content EXCEPT ![f] = "cut"]
    /\ sets' = sets + 1
    /\ object' = [object EXCEPT ![o] = Closed]
    /\ mine' = [p \in Object |-> None]
    /\ UNCHANGED <<type, entry, stored, hashed>>

(* writeTfToStream takes the transforms out of the list it is given.  From *)
(* a list it was given before it gets a null pointer, which it follows.    *)
SetTransforms(o, v, inPlace) ==
    /\ type = "tf" /\ MayWrite(o) /\ InPlace(o, inPlace)
    /\ inPlace => object[o].cache # "hollow"
    /\ Truncated(o, v, IF inPlace THEN [object[o] EXCEPT !.cache = "hollow"] ELSE object[o])

SetTransformsFails(o) ==
    /\ type = "tf" /\ MayWrite(o) /\ object[o].cache = "hollow"
    /\ EndsWriting(o)

(* BoundingboxEntitydata::setData writes what the object keeps, whatever   *)
(* it is given; if that is a null pointer, the file is cut already.        *)
SetBoundingbox(o, v, inPlace) ==
    /\ type = "boundingbox" /\ MayWrite(o) /\ object[o].cache # None
    /\ IF inPlace THEN Truncated(o, v, Kept(o, v))
       ELSE Truncated(o, object[o].cache, object[o])

SetBoundingboxFails(o) ==
    /\ type = "boundingbox" /\ MayWrite(o) /\ object[o].cache = None
    /\ EndsWriting(o)

(* AssetEntitydata::setData keeps the data, LASEntitydataWriter nothing. *)
SetAsset(o, v) ==
    /\ type = "asset" /\ MayWrite(o)
    /\ Truncated(o, v, [object[o] EXCEPT !.cache = v, !.reader = None])

GetWriter(o, v) == type = "las" /\ MayWrite(o) /\ Truncated(o, v, object[o])

-----------------------------------------------------------------------------
(* The entity and its objects.                                             *)

Init ==
    /\ type \in Type
    /\ entry = "transient"
    /\ work = None
    /\ content = [f \in File |-> None]
    /\ stored = {}
    /\ sets = 0
    /\ hashed = None
    /\ object = [o \in Object |-> Closed]
    /\ got = [by |-> None, value |-> None]
    /\ mine = [o \in Object |-> None]
    /\ seen = [o \in Object |-> {}]

OpenAgain(o) ==                                    \* mutant: with what was read before
    /\ ~IsOpen(o) /\ entry = "transient"
    /\ \E v \in Data \union {None} :
          object' = [object EXCEPT ![o] = [NewObject("workspace", TRUE) EXCEPT !.cache = v]]
    /\ UNCHANGED <<type, files, mine>>

(* getEntitydataForReadWrite: only of a transient entity *)
OpenForReadWrite(o) ==
    /\ ~IsOpen(o) /\ entry = "transient"
    /\ object' = [object EXCEPT ![o] = NewObject("workspace", TRUE)]
    /\ UNCHANGED <<type, files, mine>>

(* getEntitydataReadOnly: of a committed entity, its message is opened. *)
OpenReadOnly(o) ==
    /\ ~IsOpen(o) /\ entry # "gone"
    /\ object' = [object EXCEPT ![o] =
                    NewObject(IF entry = "transient" THEN "workspace" ELSE "store", FALSE)]
    /\ UNCHANGED <<type, files, mine>>

(* The object goes, in the middle of a write if its process ends.  To      *)
(* write through an object that may only read ends the process, too.       *)
Close(o) ==
    /\ IsOpen(o)
    /\ object' = [object EXCEPT ![o] = Closed]
    /\ mine' = [mine EXCEPT ![o] = None]
    /\ UNCHANGED <<type, files>>

NobodyKnows == mine' = [o \in Object |-> None]

(* storeEntity and edit_entity: the data, if there is any, stays. *)
StoreEntity ==
    /\ entry # "transient"
    /\ entry' = "transient"
    /\ UNCHANGED <<type, work, content, stored, sets, hashed, object, mine>>

(* deleteEntity *)
DeleteEntity ==
    /\ entry # "gone"
    /\ entry' = "gone"
    /\ work' = None
    /\ NobodyKnows
    /\ UNCHANGED <<type, content, stored, sets, hashed, object>>

(* commit: the data is read for its hash, and the file is then moved to    *)
(* the place of that name, if it is still there.                           *)
HashData ==
    /\ entry = "transient" /\ work # None /\ hashed = None
    /\ hashed' = content[work]
    /\ UNCHANGED <<type, entry, work, content, stored, sets, object, mine>>

MoveDataLinked ==                                  \* mutant: the file stays there, too
    /\ hashed # None /\ work # None
    /\ stored' = {s \in stored : s.hash # hashed}
                   \union {[hash |-> hashed, file |-> work,
                            quiet |-> Writers(work) = {} /\ content[work] = hashed]}
    /\ hashed' = None
    /\ entry' = "stored"
    /\ NobodyKnows
    /\ UNCHANGED <<type, work, content, sets, object>>

MoveData ==
    /\ hashed # None /\ work # None
    /\ stored' = {s \in stored : s.hash # hashed}
                   \union {[hash |-> hashed, file |-> work,
                            quiet |-> Writers(work) = {} /\ content[work] = hashed]}
    /\ hashed' = None
    /\ work' = None
    /\ entry' = "stored"
    /\ NobodyKnows
    /\ UNCHANGED <<type, content, sets, object>>

MoveFails ==
    /\ hashed # None /\ work = None
    /\ hashed' = None
    /\ UNCHANGED <<type, entry, work, content, stored, sets, object, mine>>

(* commit, of an entity without data *)
CommitWithoutData ==
    /\ entry = "transient" /\ work = None /\ hashed = None
    /\ entry' = "stored"
    /\ UNCHANGED <<type, work, content, stored, sets, hashed, object, mine>>

Get(o) ==
    \/ GetPointcloud(o) \/ GetFloatGrid(o) \/ GetPosePath(o) \/ GetPrimitive(o)
    \/ GetBoundingbox(o) \/ GetTransforms(o) \/ GetAsset(o) \/ GetReader(o)
    \/ ReadAsset(o) \/ ReadPoints(o)

Set(o) ==
    \/ FinishSet(o) \/ SetBoundingboxFails(o) \/ SetTransformsFails(o)
    \/ \E v \in Data :
          \/ SetPointcloud(o, v) \/ SetPointcloudReadOnly(o, v)
          \/ SetAsset(o, v) \/ GetWriter(o, v)
          \/ \E inPlace \in BOOLEAN :
                \/ SetFloatGrid(o, v, inPlace) \/ SetPosePath(o, v, inPlace)
                \/ SetPrimitive(o, v, inPlace) \/ SetTransforms(o, v, inPlace)
                \/ SetBoundingbox(o, v, inPlace)

Open(o) == OpenForReadWrite(o) \/ OpenReadOnly(o) \/ Close(o)

Keep ==
    \/ StoreEntity \/ DeleteEntity
    \/ HashData \/ MoveData \/ MoveFails \/ CommitWithoutData

Step ==
    \/ \E o \in Object : Get(o)
    \/ GetsNothing /\ (Keep \/ \E o \in Object : Set(o) \/ Open(o))

(* What there is to read while an object is open, and what its client set. *)
Sees(o) ==
    LET found == Readable(o)'
                   \union (IF IsOpen(o) /\ object'[o] # object[o] /\ got'.by = None
                           THEN {object'[o].cache} \cap Data ELSE {})
                   \union (IF Writing(o)' THEN {object'[o].writer.value} ELSE {})
    IN  {IF c \in Data THEN c ELSE "hollow" : c \in found}

Next ==
    /\ Step
    /\ seen' = [o \in Object |-> IF IsOpen(o)' THEN seen[o] \union Sees(o) ELSE {}]

Spec == Init /\ [][Next]_vars

-----------------------------------------------------------------------------
(* Properties.                                                             *)

(* What getData gives was there to read, or was set, since the object was  *)
(* opened.  It is hollow only if there was something that can't be read,   *)
(* if an asset was read before or a list of transforms was written back;   *)
(* it is torn only if the data changed meanwhile.                          *)
Regular ==
    LET o == got.by
    IN  o # None =>
          CASE got.value = "hollow" ->
                   \/ "hollow" \in seen[o]
                   \/ type = "tf"
                   \/ type = "asset" /\ object[o].reader # None
            [] got.value = "torn" -> Cardinality(seen[o]) > 1
            [] OTHER -> got.value \in seen[o]

(* An object whose data was written to the end, and that nobody has        *)
(* changed since, gives back what it wrote, if it doesn't keep what it has *)
(* read before.                                                            *)
ReadYourWrites == got.by # None => mine[got.by] \in {None, got.value}

(* Data that a commit has stored while nobody wrote it stays what its hash *)
(* says, however long clients keep their objects of it.                    *)
StoreStays == \A s \in stored : s.quiet => content[s.file] = s.hash

=============================================================================
