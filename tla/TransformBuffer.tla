--------------------------- MODULE TransformBuffer ---------------------------
(***************************************************************************)
(* The buffer of transforms between frames (layertypes_collection/tf/src/  *)
(* tf2): TimeCache and StaticCache hold the transforms of a frame to its   *)
(* parent, BufferCore looks up transforms along the tree of frames.        *)
(*                                                                         *)
(* A stamp is a number of nanoseconds; 0 asks for what is latest.  A pose  *)
(* is a word over letters and their inverses, of which neighbours cancel;  *)
(* a letter is a pose that was measured, or one between two poses at their *)
(* stamps.                                                                 *)
(***************************************************************************)
EXTENDS Naturals, Sequences, SequencesExt, FiniteSetsExt

CONSTANTS
  Frame,      \* names of frames
  CacheTime,  \* max_storage_time_ of the caches
  MaxDepth    \* MAX_GRAPH_DEPTH

ASSUME BufferAssumption == CacheTime \in Nat /\ MaxDepth \in Nat \ {0}
ASSUME FrameAssumption == "nothing" \notin Frame

-----------------------------------------------------------------------------
(* Poses.                                                                  *)

Letter(id, from, to, time) ==
    [id |-> id, from |-> from, to |-> to, time |-> time, inverse |-> FALSE]

Identity == <<>>
Pose(id) == <<Letter(id, <<>>, <<>>, 0)>>
Between(from, to, time) == <<Letter(0, from, to, time)>>

IsBetween(p) == Len(p) = 1 /\ p[1].id = 0 /\ ~p[1].inverse

Opposite(x) == [x EXCEPT !.inverse = ~@]

Cancelled(w) ==
    LET Put(done, x) == IF done # <<>> /\ Last(done) = Opposite(x) THEN Front(done)
                        ELSE Append(done, x)
    IN  FoldLeft(Put, <<>>, w)

(* First q, then p. *)
Compose(p, q) == Cancelled(p \o q)
InverseOf(p) == [i \in 1..Len(p) |-> Opposite(p[Len(p) + 1 - i])]

-----------------------------------------------------------------------------
(* The caches of a frame.  A list is sorted, the latest entry first.       *)

Nothing == [is |-> "nothing"]
NoCache == [is |-> "nothing", list |-> <<>>]

Entry(stamp, parent, pose) == [is |-> "entry", stamp |-> stamp, parent |-> parent, pose |-> pose]

(* TimeCache::findClosest: none, one or two entries, the older one first *)
FindClosest(list, t) ==
    LET n == Len(list)
    IN  IF list = <<>> THEN <<>>
        ELSE IF t = 0 \/ t = list[1].stamp THEN <<list[1]>>
        ELSE IF t = list[n].stamp THEN <<list[n]>>
        ELSE IF t > list[1].stamp \/ t < list[n].stamp THEN <<>>
        ELSE LET i == Min({j \in 1..n : list[j].stamp <= t})
             IN  <<list[i], list[i - 1]>>

(* TimeCache::interpolate.  What lies between two poses, and between one of *)
(* them and another pose between them, is the same.                         *)
Interpolate(one, two, t) ==
    LET from == IF IsBetween(one.pose) THEN one.pose[1].from ELSE <<one.stamp, one.pose>>
        to == IF IsBetween(two.pose) THEN two.pose[1].to ELSE <<two.stamp, two.pose>>
        older == <<one.stamp, one.pose>>
        newer == <<two.stamp, two.pose>>
        OneLine == /\ IsBetween(one.pose) => one.pose[1].to \in {newer, to}
                   /\ IsBetween(two.pose) => two.pose[1].from \in {older, from}
    IN  IF one.stamp = two.stamp THEN two
        ELSE IF t = one.stamp THEN one
        ELSE [one EXCEPT !.pose = IF OneLine THEN Between(from, to, t) ELSE Between(older, newer, t)]

(* getData of both caches *)
Closest(found, t) ==
    CASE Len(found) = 0 -> Nothing
      [] Len(found) = 1 -> found[1]
      [] OTHER -> IF found[1].parent = found[2].parent
                  THEN Interpolate(found[1], found[2], t) ELSE found[1]

GetData(cache, t) ==
    IF cache.is = "static" THEN cache.list[1] ELSE Closest(FindClosest(cache.list, t), t)

(* getParent of both caches *)
GetParent(cache, t) ==
    IF cache.is = "static" THEN cache.list[1].parent
    ELSE LET found == FindClosest(cache.list, t)
         IN  IF found = <<>> THEN "nothing" ELSE found[1].parent

(* insertData and pruneList: behind what is later, before what has the     *)
(* same stamp; what is much older than the latest is not taken or dropped. *)
PlaceFor(stamp, list) ==
    Min({i \in 1..Len(list) : list[i].stamp <= stamp} \union {Len(list) + 1})
LastRecent(list) == Max({i \in 1..Len(list) : list[i].stamp + CacheTime >= list[1].stamp})

InsertInFront(cache, e) ==                         \* mutant: not sorted
    IF cache.is = "static" THEN [cache EXCEPT !.list = <<e>>]
    ELSE [cache EXCEPT !.list = <<e>> \o @]

InsertData(cache, e) ==
    LET list == cache.list
        all == InsertAt(list, PlaceFor(e.stamp, list), e)
    IN  IF cache.is = "static" THEN [cache EXCEPT !.list = <<e>>]
        ELSE IF list # <<>> /\ list[1].stamp > e.stamp + CacheTime THEN cache
        ELSE [cache EXCEPT !.list = SubSeq(all, 1, LastRecent(all))]

(* getLatestTimeAndParent of both caches *)
LatestTime(cache) == IF cache.is = "static" \/ cache.list = <<>> THEN 0 ELSE cache.list[1].stamp
LatestParent(cache) == IF cache.list = <<>> THEN "nothing" ELSE cache.list[1].parent

-----------------------------------------------------------------------------
(* BufferCore.  A buffer is the cache of each frame; frames without one    *)
(* are known as parents only, or not at all.                               *)

EmptyBuffer == [cache |-> [f \in Frame |-> NoCache], known |-> {}]

(* setTransform, with allocateFrame: the first transform of a frame says   *)
(* whether it is static.                                                   *)
SetTransform(b, parent, child, stamp, pose, static) ==
    LET old == b.cache[child]
        cache == IF old # NoCache THEN old
                 ELSE [is |-> IF static THEN "static" ELSE "times", list |-> <<>>]
    IN  IF parent = child THEN b
        ELSE [cache |-> [b.cache EXCEPT ![child] =
                           InsertData(cache, Entry(stamp, parent, pose))],
              known |-> b.known \union {parent, child}]

(* The frames from f upwards, by a function that gives the parents.  A     *)
(* chain that is longer than MaxDepth is a loop.                           *)
Upwards(f, parent) ==
    LET chain[n \in 0..MaxDepth + 1] ==
            IF n = 0 THEN <<f>>
            ELSE LET before == chain[n - 1]
                     next == parent[Last(before)]
                 IN  IF Len(before) < n \/ next = "nothing" THEN before
                     ELSE Append(before, next)
    IN  chain[MaxDepth + 1]

Min0(times) == IF times = {} THEN 0 ELSE Min(times)

Place(f, chain) == Min({i \in 1..Len(chain) : chain[i] = f})
On(f, chain) == \E i \in 1..Len(chain) : chain[i] = f

(* The frames below the first one above two frames. *)
FramesOnOneSide(top, up, down) ==                  \* mutant: the other side is forgotten
    {down[i] : i \in 1..(Place(top, down) - 1)}

FramesBelow(top, up, down) ==
    {up[i] : i \in 1..(Place(top, up) - 1)} \union {down[i] : i \in 1..(Place(top, down) - 1)}

(* getLatestCommonTime: the least of the latest stamps between two frames  *)
(* and the first one above both; stamps of 0, as static transforms have    *)
(* them, don't count.                                                      *)
CommonTime(b, up, down) ==
    LET common == {i \in 1..Len(down) : On(down[i], up)}
        times(top) == {LatestTime(b.cache[f]) : f \in FramesBelow(top, up, down)} \ {0}
    IN  IF common = {} THEN [ok |-> FALSE, time |-> 0]
        ELSE [ok |-> TRUE, time |-> Min0(times(down[Min(common)]))]

LatestCommonTime(b, target, source) ==
    LET parent == [f \in DOMAIN b.cache |-> LatestParent(b.cache[f])]
    IN  IF target \notin b.known \/ source \notin b.known THEN [ok |-> FALSE, time |-> 0]
        ELSE IF target = source THEN [ok |-> TRUE, time |-> LatestTime(b.cache[source])]
        ELSE CommonTime(b, Upwards(source, parent), Upwards(target, parent))

(* What a walk gathers of a frame: its parent, or nothing where there is   *)
(* no parent or, if the pose is wanted too, no transform.                  *)
ParentIn(cache, time, posesToo) ==
    LET ParentOf(data) == IF data = Nothing THEN "nothing" ELSE data.parent
    IN  IF cache = NoCache THEN "nothing"
        ELSE IF posesToo THEN ParentOf(GetData(cache, time))
        ELSE GetParent(cache, time)

(* walkToTopParent: up from the source until there is no parent or the     *)
(* target is met, then up from the target until that frame or the source   *)
(* is met.  Gathering a parent may fail where the other one would not.     *)
WalkOf(ending, up, down, time) == [ending |-> ending, up |-> up, down |-> down, time |-> time]
NoWalk == WalkOf("none", <<>>, <<>>, 0)

WalkAlong(target, source, up, down, time) ==
    LET top == Last(up)
    IN  IF On(target, up) /\ Place(target, up) < Len(up)
        THEN WalkOf("target above", SubSeq(up, 1, Place(target, up) - 1), <<>>, time)
        ELSE IF Len(up) > MaxDepth + 1 THEN NoWalk
        ELSE IF On(source, down) /\ source # top
                  /\ (On(top, down) => Place(source, down) < Place(top, down))
             THEN WalkOf("source above", <<>>, SubSeq(down, 1, Place(source, down) - 1), time)
        ELSE IF On(top, down)
             THEN WalkOf("full path", Front(up), SubSeq(down, 1, Place(top, down) - 1), time)
        ELSE NoWalk

WalkAt(b, common, target, source, posesToo) ==
    LET parent == [f \in DOMAIN b.cache |-> ParentIn(b.cache[f], common.time, posesToo)]
    IN  IF ~common.ok THEN NoWalk
        ELSE WalkAlong(target, source, Upwards(source, parent), Upwards(target, parent),
                       common.time)

Walk(b, time, target, source, posesToo) ==
    IF source = target THEN WalkOf("identity", <<>>, <<>>, time)
    ELSE WalkAt(b, IF time = 0 THEN LatestCommonTime(b, target, source)
                   ELSE [ok |-> TRUE, time |-> time], target, source, posesToo)

(* TransformAccum: the pose of the first frame of a chain in the frame     *)
(* above the last one.                                                     *)
Accumulate(b, time, chain) ==
    LET Accum(done, f) == Compose(GetData(b.cache[f], time).pose, done)
    IN  FoldLeft(Accum, Identity, chain)

NoTransform == [ok |-> FALSE, time |-> 0, pose |-> Identity]

FinalizeBackwards(b, walk) ==                    \* mutant: the wrong way round
    Compose(Accumulate(b, walk.time, walk.up), InverseOf(Accumulate(b, walk.time, walk.down)))

Finalize(b, walk) ==
    Compose(InverseOf(Accumulate(b, walk.time, walk.down)), Accumulate(b, walk.time, walk.up))

(* lookupTransform: the pose of the source in the target, or an exception. *)
(* A frame exists in itself even if nobody knows it.                       *)
LookupAlong(b, walk) ==
    IF walk.ending = "none" THEN NoTransform
    ELSE [ok |-> TRUE, time |-> walk.time, pose |-> Finalize(b, walk)]

LookupTransform(b, target, source, time) ==
    IF target = source
    THEN [ok |-> TRUE, pose |-> Identity,
          time |-> IF time = 0 THEN LatestTime(b.cache[target]) ELSE time]
    ELSE IF target \notin b.known \/ source \notin b.known THEN NoTransform
    ELSE LookupAlong(b, Walk(b, time, target, source, TRUE))

(* lookupTransform through a fixed frame, at two times *)
Through(first, second) ==
    IF first.ok /\ second.ok
    THEN [ok |-> TRUE, time |-> second.time, pose |-> Compose(second.pose, first.pose)]
    ELSE NoTransform

LookupThrough(b, target, targetTime, source, sourceTime, fixed) ==
    IF {target, source, fixed} \subseteq b.known
    THEN Through(LookupTransform(b, fixed, source, sourceTime),
                 LookupTransform(b, target, fixed, targetTime))
    ELSE NoTransform

(* canTransform, which looks for parents only *)
CanTransform(b, target, source, time) ==
    \/ target = source
    \/ /\ target \in b.known /\ source \in b.known
       /\ Walk(b, time, target, source, FALSE).ending # "none"

=============================================================================
