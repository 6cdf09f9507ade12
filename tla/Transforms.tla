------------------------------ MODULE Transforms ------------------------------
(***************************************************************************)
(* Transforms stored in a workspace (layertypes_collection/tf): one entity *)
(* with a list for each pair of frames.  load_tfs and load_bags gather     *)
(* transforms and add them to the lists, reg_local adds what it computes   *)
(* or combines it with what is stored, and a BufferCore is built of all    *)
(* lists.                                                                  *)
(***************************************************************************)
EXTENDS TransformBuffer

CONSTANTS
  Lists,      \* the lists, as pairs of frames <<parent, child>>, in the order of the search
  Stamps,     \* stamps of transforms that are loaded
  Clouds,     \* stamps of clouds
  MaxLoad,    \* bound: transforms that are loaded at once
  MaxInputs,  \* bound: input clouds
  MaxJobs     \* bound: operators run one after the other

Pair == ToSet(Lists)

ASSUME ListsAssumption == Lists \in Seq(Frame \X Frame)
ASSUME StampsAssumption == Stamps \union Clouds \subseteq Nat \ {0, 1}
ASSUME JobsAssumption == MaxLoad \in Nat /\ MaxInputs \in Nat /\ MaxJobs \in Nat

VARIABLES
  stored,  \* [Pair -> the data file of the entity]
  stamp,   \* [Pair -> the stamp of the entity, 0 if there is none]
  jobs,    \* operators that ran
  job      \* the last one

vars == <<stored, stamp, jobs, job>>

-----------------------------------------------------------------------------
(* TransformStampedList and its data file.                                 *)

Missing == [is |-> "missing", static |-> FALSE, transforms |-> <<>>]
Empty == [is |-> "empty", static |-> FALSE, transforms |-> <<>>]

NewList(static) == [is |-> "list", static |-> static, transforms |-> <<>>]

(* readTfFromStream.  A file that is missing can't be parsed, and a new    *)
(* list is made; an empty file is a list without frames.                   *)
ListOf(file, static) == IF file.is = "missing" THEN NewList(static) ELSE file

(* add_TransformStamped refuses what doesn't fit.  Nobody looks at what it *)
(* returns.                                                                *)
AddTransform(list, x, static) ==
    IF list.is = "list" /\ list.static = static
    THEN [list EXCEPT !.transforms = Append(@, x)] ELSE list

(* delete_TransformStamped, from start to end *)
DeleteUpTo(list, start, end) ==                    \* mutant: the end stays
    LET Keep(kept, x) == IF x.stamp >= start /\ x.stamp < end THEN kept ELSE Append(kept, x)
    IN  [list EXCEPT !.transforms = FoldLeft(Keep, <<>>, @)]

DeleteTransforms(list, start, end) ==
    LET Keep(kept, x) == IF x.stamp >= start /\ x.stamp <= end THEN kept ELSE Append(kept, x)
    IN  [list EXCEPT !.transforms = FoldLeft(Keep, <<>>, @)]

(* writeTfToStream writes nothing if the list is empty, not even frames,   *)
(* to a file that was truncated before.                                    *)
FileOf(list) == IF list.transforms = <<>> THEN Empty ELSE list

(* BufferCore's constructor *)
PutList(b, pair, list) ==
    LET Put(c, x) == SetTransform(c, pair[1], pair[2], x.stamp, x.pose, list.static)
    IN  FoldLeft(Put, b, list.transforms)

BufferOf(lists) ==
    LET PutNext(b, pair) == PutList(b, pair, lists[pair])
    IN  FoldLeft(PutNext, EmptyBuffer, Lists)

-----------------------------------------------------------------------------
(* load_tfs, and load_bags with transforms.                                *)

(* TransformStampedListGatherer::add_transform, for all that is loaded: the *)
(* first transform of a pair says whether its list is static.               *)
Gather(loaded) ==
    LET Add(lists, x) ==
            LET old == lists[x.pair]
                list == IF old.is = "missing" THEN NewList(x.static) ELSE old
            IN  [lists EXCEPT ![x.pair] =
                    AddTransform(list, [stamp |-> x.stamp, pose |-> x.pose], x.static)]
    IN  FoldLeft(Add, [p \in Pair |-> Missing], loaded)

(* store_entities: what was gathered is added to what is stored, and the   *)
(* entity gets the earliest stamp of what was gathered.                    *)
StoreAnew(gathered) ==                             \* mutant: the stored list is not read
    /\ stored' = [p \in Pair |-> IF gathered[p].is = "missing" THEN stored[p] ELSE gathered[p]]
    /\ stamp' = [p \in Pair |-> IF gathered[p].is = "missing" THEN stamp[p]
                                ELSE Min({x.stamp : x \in ToSet(gathered[p].transforms)})]

Added(list, xs, static) ==
    LET Add(l, x) == AddTransform(l, x, static)
    IN  FoldLeft(Add, list, xs)

StoreEntities(gathered) ==
    LET AddAll(p) == Added(ListOf(stored[p], gathered[p].static), gathered[p].transforms,
                           gathered[p].static)
        new == {p \in Pair : gathered[p].is # "missing"}
    IN  /\ stored' = [p \in Pair |-> IF p \in new THEN FileOf(AddAll(p)) ELSE stored[p]]
        /\ stamp' = [p \in Pair |-> IF p \in new
                                    THEN Min({x.stamp : x \in ToSet(gathered[p].transforms)})
                                    ELSE stamp[p]]

NoJob == [op |-> "none", pair |-> <<>>, inputs |-> <<>>, static |-> FALSE,
          before |-> [p \in Pair |-> Missing]]

(* Poses are new letters. *)
NewPose(i) == Pose(10 * (jobs + 1) + i)

LoadTfs(loaded) ==
    /\ jobs < MaxJobs
    /\ StoreEntities(Gather(loaded))
    /\ jobs' = jobs + 1
    /\ job' = [NoJob EXCEPT !.op = "load", !.before = stored]

(* What is loaded at once may be static in part. *)
Loaded ==
    UNION {{[i \in 1..n |-> [pair |-> at[i][1], stamp |-> at[i][2], static |-> at[i][3]]] :
              at \in [1..n -> Pair \X Stamps \X BOOLEAN]} : n \in 1..MaxLoad}

WithPoses(loaded) ==
    [i \in DOMAIN loaded |-> [pair |-> loaded[i].pair, stamp |-> loaded[i].stamp,
                              static |-> loaded[i].static, pose |-> NewPose(i)]]

-----------------------------------------------------------------------------
(* reg_local.                                                              *)

(* mapit_add_tf, on a file *)
AddTf(file, x, static) == FileOf(AddTransform(ListOf(file, static), x, static))

(* mapit_remove_tfs: nothing to do without an entity or data *)
RemoveTfs(file, start, end) ==
    IF file.is = "missing" THEN file ELSE FileOf(DeleteTransforms(file, start, end))

AddAllTfs(file, xs, static) ==
    LET Add(f, x) == AddTf(f, x, static)
    IN  FoldLeft(Add, file, xs)

(* The input clouds, by their stamps; a static transform is computed from  *)
(* one cloud.                                                              *)
Inputs(static) == UNION {[1..n -> Clouds] : n \in 1..(IF static THEN 1 ELSE MaxInputs)}

Registers(op, pair, inputs, static) ==
    /\ jobs < MaxJobs
    /\ jobs' = jobs + 1
    /\ job' = [op |-> op, pair |-> pair, inputs |-> inputs, static |-> static, before |-> stored]

(* tf-add: each transform is stored when it is computed, so those before a *)
(* cloud for which the algorithm doesn't converge are there.               *)
RegisterAndAdd(pair, inputs, static) ==
    /\ Registers("add", pair, inputs, static)
    /\ \E n \in 1..Len(inputs) :
          /\ stored' = [stored EXCEPT ![pair] =
                           AddAllTfs(@, [i \in 1..n |-> [stamp |-> inputs[i], pose |-> NewPose(i)]],
                                     static)]
          /\ stamp' = [stamp EXCEPT ![pair] = inputs[n]]

(* What was there just before and just after the input clouds. *)
NothingOutside(b, pair, earliest, latest) == <<>>  \* mutant: not looked up

JustOutside(b, pair, earliest, latest) ==
    LET Kept(t, old) == IF old.ok THEN <<[stamp |-> t, pose |-> old.pose]>> ELSE <<>>
        At(t) == Kept(t, LookupTransform(b, pair[1], pair[2], t))
    IN  At(earliest - 1) \o At(latest + 1)

(* The old transforms at the input clouds with what was computed.  Where   *)
(* there is none, the identity stands for it.                              *)
Combined(b, pair, inputs) ==
    [i \in DOMAIN inputs |->
        [stamp |-> inputs[i],
         pose |-> Compose(LookupTransform(b, pair[1], pair[2], inputs[i]).pose, NewPose(i))]]

(* tf-combine: the transforms from the first cloud to the last one are     *)
(* removed, and the new ones are added.                                    *)
CombinedAll(b, pair, inputs, earliest, latest) ==
    Combined(b, pair, inputs) \o JustOutside(b, pair, earliest, latest)

PutInstead(xs, pair, earliest, latest, static) ==
    /\ stored' = [stored EXCEPT ![pair] = AddAllTfs(RemoveTfs(@, earliest, latest), xs, static)]
    /\ stamp' = [stamp EXCEPT ![pair] = Last(xs).stamp]

RegisterAndCombine(pair, inputs, static) ==
    /\ Registers("combine", pair, inputs, static)
    /\ LET earliest == Min(ToSet(inputs))
           latest == Max(ToSet(inputs))
       IN  PutInstead(CombinedAll(BufferOf(stored), pair, inputs, earliest, latest),
                      pair, earliest, latest, static)

-----------------------------------------------------------------------------
DeleteList(pair) ==
    /\ jobs < MaxJobs
    /\ stamp[pair] # 0
    /\ stored' = [stored EXCEPT ![pair] = Missing]
    /\ stamp' = [stamp EXCEPT ![pair] = 0]
    /\ jobs' = jobs + 1
    /\ job' = [NoJob EXCEPT !.op = "delete", !.before = stored]

Init ==
    /\ stored = [p \in Pair |-> Missing]
    /\ stamp = [p \in Pair |-> 0]
    /\ jobs = 0
    /\ job = NoJob

Next ==
    \/ \E loaded \in Loaded : LoadTfs(WithPoses(loaded))
    \/ \E pair \in Pair, static \in BOOLEAN : \E inputs \in Inputs(static) :
          RegisterAndAdd(pair, inputs, static) \/ RegisterAndCombine(pair, inputs, static)
    \/ \E pair \in Pair : DeleteList(pair)

Spec == Init /\ [][Next]_vars

-----------------------------------------------------------------------------
(* Properties.                                                             *)

Buffer == BufferOf(stored)
OldBuffer == BufferOf(job.before)

(* Times to ask for, among them those just before and after a stamp. *)
Times == UNION {{t - 1, t, t + 1} : t \in Stamps \union Clouds}

(* All that can be looked up, and what is between the frames of a list. *)
LookedUp(b) ==
    [a \in Frame, c \in Frame, t \in Times \union {0} |-> LookupTransform(b, a, c, t)]
OfPair(b, pair) == [t \in Times |-> LookupTransform(b, pair[1], pair[2], t)]

(* Lists whose child has no other parent: a frame has one. *)
Alone(pair) == \A p \in Pair : p[2] = pair[2] /\ stored[p].transforms # <<>> => p = pair

(* No two transforms of a list have the same stamp. *)
OneEach(list) ==
    \A i, j \in DOMAIN list.transforms :
        list.transforms[i].stamp = list.transforms[j].stamp => i = j

(* Nothing in a list is so much later that the cache drops what is at t. *)
InTime(pair, t) == \A x \in ToSet(stored[pair].transforms) : x.stamp <= t + CacheTime

(* What is stored can be looked up: the buffer gives, at the stamp of a    *)
(* stored transform, that transform, whatever order the list is in, if it  *)
(* is the only one with that stamp and not too old for the cache.  A       *)
(* transform of a frame to itself is ignored.                              *)
FoundIn(b) ==
    \A pair \in Pair : Alone(pair) /\ ~stored[pair].static /\ pair[1] # pair[2] =>
        LET xs == ToSet(stored[pair].transforms)
        IN  \A x \in xs : InTime(pair, x.stamp) /\ (\A y \in xs : y.stamp = x.stamp => y = x) =>
                LookupTransform(b, pair[1], pair[2], x.stamp).pose = x.pose

StoredIsFound == FoundIn(Buffer)

(* The frames are one world: transforms from a to b and from b to c at a   *)
(* time give the one from a to c, which is then there too; and there is a  *)
(* transform exactly if canTransform says so, also of what is latest.      *)
Agree(through, direct) == through.ok => direct.ok /\ direct.pose = through.pose

CoherentIn(b, look) ==
    \A a, c \in Frame, t \in Times \union {0} :
        /\ a # c => (CanTransform(b, a, c, t) <=> look[a, c, t].ok)
        /\ t # 0 => \A via \in b.known \ {a, c} :
              Agree(LookupThrough(b, a, t, c, t, via), look[a, c, t])

Coherent == CoherentIn(Buffer, LookedUp(Buffer))

(* Who asks for the latest transform gets one exactly if there is one at   *)
(* any time, and it is that of the latest such time, or a static one that  *)
(* is there always, if no frame has two parents.                           *)
LatestIn(look) ==
    \A a, c \in Frame :
        LET latest == look[a, c, 0]
            found == {t \in Times : look[a, c, t].ok}
        IN  a # c =>
              /\ latest.ok <=> found # {}
              /\ latest.ok /\ latest.time = 0 => found = Times
              /\ latest.ok /\ latest.time # 0 =>
                    /\ latest.time = Max(found)
                    /\ look[a, c, latest.time].pose = latest.pose

LatestIsLatest == (\A p \in Pair : Alone(p)) => LatestIn(LookedUp(Buffer))

(* tf-combine, "Before and after the time of the pointclouds from input    *)
(* there will be no change" (reg_local/src/main.cpp:71): where there was a *)
(* transform outside the time of the clouds, the same one is there, if     *)
(* the lists are not static and had one transform at each stamp.           *)
KeptOutside(old, new) ==
    \A t \in Times : t < Min(ToSet(job.inputs)) \/ t > Max(ToSet(job.inputs)) =>
        (old[t].ok => new[t] = old[t])

CombineKeepsOthers ==
    job.op = "combine" /\ Alone(job.pair)
      /\ ~job.static /\ ~job.before[job.pair].static /\ OneEach(job.before[job.pair]) =>
        KeptOutside(OfPair(OldBuffer, job.pair), OfPair(Buffer, job.pair))

(* tf-combine: at each cloud there is the old transform with what was      *)
(* computed, if the cache holds it, in the order of reg_local.cpp:379, the *)
(* old one first.  The description of the operator names the other order:  *)
(* "the new transforms * old transforms" (reg_local/src/main.cpp:77).      *)
Computed(i) == Pose(10 * jobs + i)

CombinedIn(old, new) ==
    \A i \in DOMAIN job.inputs : InTime(job.pair, job.inputs[i]) =>
        new[job.inputs[i]].pose = Compose(old[job.inputs[i]].pose, Computed(i))

OneStampEach == \A i, j \in DOMAIN job.inputs : job.inputs[i] = job.inputs[j] => i = j

Combines ==
    job.op = "combine" /\ ~job.static /\ Alone(job.pair) /\ OneStampEach
      /\ job.pair[1] # job.pair[2] =>
        CombinedIn(OfPair(OldBuffer, job.pair), OfPair(Buffer, job.pair))

(* It does, if what is stored is not static either and the clouds don't    *)
(* cover all of it.                                                        *)
LeavesSome ==
    LET old == job.before[job.pair]
    IN  \/ old.is = "missing"
        \/ /\ old.is = "list" /\ ~old.static
           /\ \E x \in ToSet(old.transforms) :
                 x.stamp < Min(ToSet(job.inputs)) \/ x.stamp > Max(ToSet(job.inputs))

CombinesInside == job.op = "combine" /\ LeavesSome => Combines

(* Loading and tf-add lose nothing that is stored. *)
AddingKeeps ==
    [][job'.op \in {"load", "add"} =>
         \A p \in Pair : ToSet(stored[p].transforms) \subseteq ToSet(stored'[p].transforms)]_vars

=============================================================================
