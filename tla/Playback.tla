------------------------------ MODULE Playback ------------------------------
(***************************************************************************)
(* The player for ROS (tools/stream_to_ros).  main loads the entities of a *)
(* workspace, gives each to the publisher of its topic, and plays them     *)
(* back at their stamps or publishes them all at once:                     *)
(*   PublishToROS        the entities of a topic, and a timer              *)
(*   PublishPointClouds  publishes a cloud when it is due                  *)
(*   PublishTFs          takes the transforms of a list when it is due, and *)
(*                       publishes them with a timer of its own            *)
(*   PublishClock        simulated time, from a thread of its own          *)
(* All timers run in one thread, in any order.  Other clients may delete   *)
(* entities meanwhile.                                                     *)
(***************************************************************************)
EXTENDS Naturals, FiniteSets, Sequences, SequencesExt, FiniteSetsExt

CONSTANTS
  Entities,  \* what the workspace may hold, see EntityAssumption
  MaxGiven,  \* bound: entities that are played
  MaxTime,   \* bound: time
  MaxGone    \* bound: entities that others delete

(* An entity is a cloud, a list of transforms or something else.  It has   *)
(* the name the user gave for it or its tree, and a stamp; a list has the  *)
(* times of its transforms, which needn't begin at the stamp.              *)
ASSUME EntityAssumption ==
    \A e \in Entities :
        /\ e.type \in {"cloud", "tf", "other"}
        /\ e.stamp \in 1..MaxTime
        /\ e.times \subseteq 1..MaxTime
        /\ e.static \in BOOLEAN
        /\ e.prefix \notin {"/tf", "/tf_static"}
ASSUME BoundAssumption == {MaxGiven, MaxTime, MaxGone} \subseteq Nat

TfTopics == {"/tf", "/tf_static"}

(* get_publisher_name *)
TopicOf(e) == IF e.type # "tf" THEN e.prefix ELSE IF e.static THEN "/tf_static" ELSE "/tf"

Topic == {TopicOf(e) : e \in Entities}

VARIABLES
  given,      \* the entities that were loaded, in the order of the search
  present,    \* the entities that are still in the workspace
  mode,       \* "real time", "simulated time" or "at once"
  status,     \* "loaded", "playing", "error" or "ended"
  now,        \* ros::Time::now() without the offset, 0 before it is known
  manager,    \* [Topic -> its publisher]
  lists,      \* [Topic -> the timer and lists of PublishTFs]
  published   \* [Topic -> what was published there]

vars == <<given, present, mode, status, now, manager, lists, published>>

-----------------------------------------------------------------------------
(* Preparations.                                                           *)

(* A publisher of no entities *)
NoManager == [type |-> "none", entities |-> {}, next |-> <<>>, on |-> FALSE]

(* PublishToROS::add_entity: of two with the same stamp the first one      *)
(* counts.  The first entity of a topic says what its publisher is for.    *)
AddLast(m, e) ==                                   \* mutant: the last one counts
    [m EXCEPT !.type = IF @ = "none" THEN e.type ELSE @,
              !.entities = {old \in @ : old.stamp # e.stamp} \union {e}]

AddEntity(m, e) ==
    [m EXCEPT !.type = IF @ = "none" THEN e.type ELSE @,
              !.entities = IF \E old \in @ : old.stamp = e.stamp THEN @ ELSE @ \union {e}]

(* The publishers of what is given. *)
Managers ==
    LET Add(ms, e) == [ms EXCEPT ![TopicOf(e)] = AddEntity(@, e)]
    IN  FoldLeft(Add, [t \in Topic |-> NoManager], given)

(* get_stamp_of_first_data, of all *)
First == Min({e.stamp : e \in ToSet(given)})

ByStamp(entities) == SetToSortSeq(entities, LAMBDA d, e : d.stamp < e.stamp)
Ascending(times) == SetToSortSeq(times, LAMBDA s, t : s < t)

NoLists == [on |-> FALSE, todo |-> <<>>]

Init ==
    /\ given \in SeqOf(Entities, MaxGiven)
    /\ IsInjective(given)
    /\ present = ToSet(given)
    /\ mode \in {"real time", "simulated time", "at once"}
    /\ status = "loaded"
    /\ now = 0
    /\ manager = [t \in Topic |-> NoManager]
    /\ lists = [t \in Topic |-> NoLists]
    /\ published = [t \in Topic |-> <<>>]

(* The first entity that cannot be prepared: the name of a topic of        *)
(* transforms is read from their data, a null pointer if they are gone;    *)
(* the first entity of a topic must have a type that is supported.         *)
Troubles ==
    {i \in DOMAIN given :
        \/ given[i].type = "tf" /\ given[i] \notin present
        \/ given[i].type = "other" /\ \A j \in 1..(i - 1) : TopicOf(given[j]) # TopicOf(given[i])}

(* start_publishing_in_playback_mode_and_clock *)
StartPlayback ==
    LET ms == Managers
    IN  /\ status = "loaded" /\ mode # "at once"
        /\ given # <<>> /\ Troubles = {}
        /\ status' = "playing"
        /\ manager' = [t \in Topic |->
                         [ms[t] EXCEPT !.next = ByStamp(ms[t].entities),
                                       !.on = ms[t].entities # {}]]
        /\ now' = IF mode = "real time" THEN First ELSE 0
        /\ UNCHANGED <<given, present, mode, lists, published>>

(* "/use_sim_time" is not set. *)
StartWithoutSimTime ==
    /\ status = "loaded" /\ mode = "simulated time"
    /\ given # <<>> /\ Troubles = {}
    /\ status' = "error"
    /\ UNCHANGED <<given, present, mode, now, manager, lists, published>>

(* There is nothing to play, or something cannot be prepared. *)
StartFails ==
    /\ status = "loaded" /\ mode # "at once"
    /\ given = <<>> \/ Troubles # {}
    /\ status' = IF given # <<>> /\ given[Min(Troubles)].type = "other" THEN "error" ELSE "ended"
    /\ UNCHANGED <<given, present, mode, now, manager, lists, published>>

-----------------------------------------------------------------------------
(* Publishing.                                                             *)

Item(e, time) == [of |-> e, time |-> time]

(* PublishPointClouds::publish_entity and PublishTFs::publish_entity, one  *)
(* after the other.  What is gone is a null pointer; what is of another    *)
(* type than its topic is passed over.                                     *)
Breaks(e) == e \notin present

Clouds(type, es) == IF type # "cloud" THEN <<>> ELSE
    [i \in DOMAIN SelectSeq(es, LAMBDA e : e.type = "cloud") |->
        LET e == SelectSeq(es, LAMBDA d : d.type = "cloud")[i] IN Item(e, e.stamp)]

NewLists(type, es) == IF type # "tf" THEN <<>> ELSE
    [i \in DOMAIN es |-> [of |-> es[i], times |-> Ascending(es[i].times)]]

(* Up to the first that breaks. *)
Sound(es) ==
    LET broken == {i \in DOMAIN es : Breaks(es[i])}
    IN  IF broken = {} THEN es ELSE SubSeq(es, 1, Min(broken) - 1)

PublishEntities(t, type, es) ==
    LET sound == Sound(es)
        new == NewLists(type, sound)
    IN  /\ published' = [published EXCEPT ![t] = @ \o Clouds(type, sound)]
        /\ lists' = IF new = <<>> THEN lists
                    ELSE [lists EXCEPT ![t] = [on |-> TRUE, todo |-> @.todo \o new]]
        /\ status' = IF sound = es THEN status ELSE "ended"

(* PublishToROS::timer_callback: what is due, or the end of the timer. *)
TimerCallbackEndsAtOnce(t) ==                      \* mutant: the end is not looked at again
    LET m == manager[t]
        due == SelectSeq(m.next, LAMBDA e : e.stamp <= now)
    IN  /\ status = "playing"
        /\ m.on
        /\ PublishEntities(t, m.type, due)
        /\ manager' = [manager EXCEPT ![t].on = due # <<>>,
                                      ![t].next = SubSeq(@, Len(due) + 1, Len(@))]
        /\ UNCHANGED <<given, present, mode, now>>

TimerCallback(t) ==
    LET m == manager[t]
        due == SelectSeq(m.next, LAMBDA e : e.stamp <= now)
    IN  /\ status = "playing"
        /\ m.on
        /\ IF m.next = <<>>
           THEN /\ manager' = [manager EXCEPT ![t].on = FALSE]
                /\ UNCHANGED <<status, lists, published>>
           ELSE /\ PublishEntities(t, m.type, due)
                /\ manager' = [manager EXCEPT ![t].next = SubSeq(@, Len(due) + 1, Len(@))]
        /\ UNCHANGED <<given, present, mode, now>>

(* PublishTFs::tf_timer_callback: list after list, what is due.  At a list *)
(* that has ended the timer ends, for the lists after it and for those     *)
(* before it.  A list that never had transforms is an iterator to nowhere. *)
Due(list) == SelectSeq(list.times, LAMBDA s : s <= now)

TfTimerCallback(t) ==
    LET todo == lists[t].todo
        over == {i \in DOMAIN todo : todo[i].times = <<>>}
        n == IF over = {} THEN Len(todo) ELSE Min(over) - 1
        Items(i) == LET due == Due(todo[i]) IN [j \in DOMAIN due |-> Item(todo[i].of, due[j])]
    IN  /\ status = "playing" /\ mode # "at once"
        /\ lists[t].on
        /\ published' = [published EXCEPT ![t] = @ \o FlattenSeq([i \in 1..n |-> Items(i)])]
        /\ lists' = [lists EXCEPT
                       ![t].on = over = {},
                       ![t].todo = [i \in DOMAIN todo |->
                           IF i > n THEN todo[i]
                           ELSE [todo[i] EXCEPT !.times =
                                    SubSeq(@, Len(Due(todo[i])) + 1, Len(@))]]]
        /\ status' = IF over # {} /\ todo[Min(over)].of.times = {} THEN "ended" ELSE status
        /\ UNCHANGED <<given, present, mode, now, manager>>

-----------------------------------------------------------------------------
(* start_publishing_all_entities_at_once, one entity after the other.      *)
(* Transforms have a timer and a topic of their own each, and an offset    *)
(* nobody has set: they are all due at once or never.                      *)

AtOnce(es) ==
    LET bad == {i \in DOMAIN es : es[i].type = "other" \/ Breaks(es[i])}
        done == SubSeq(es, 1, IF bad = {} THEN Len(es) ELSE Min(bad) - 1)
        timers == IF bad = {} THEN {e \in ToSet(done) : e.type = "tf"} ELSE {}
        Whole(e) == IF e.type = "cloud" THEN <<Item(e, e.stamp)>>
                    ELSE LET ts == Ascending(e.times) IN [j \in DOMAIN ts |-> Item(e, ts[j])]
    IN  \E early \in SUBSET timers :
          LET out == [i \in DOMAIN done |-> IF done[i] \in early \/ done[i].type = "cloud"
                                            THEN Whole(done[i]) ELSE <<>>]
          IN  /\ published' = [t \in Topic |->
                                 SelectSeq(FlattenSeq(out), LAMBDA x : TopicOf(x.of) = t)]
              /\ status' = IF bad # {} /\ es[Min(bad)].type = "other" THEN "error"
                           ELSE IF bad # {} \/ \E e \in timers : e.times = {} THEN "ended"
                           ELSE "playing"

StartAtOnce ==
    /\ status = "loaded" /\ mode = "at once"
    /\ AtOnce(given)
    /\ UNCHANGED <<given, present, mode, now, manager, lists>>

-----------------------------------------------------------------------------
(* Time passes.  PublishClock tells it, from the stamp of the first data   *)
(* on.                                                                     *)
Tick ==
    /\ status = "playing" /\ mode # "at once"
    /\ now < MaxTime
    /\ now' = IF now = 0 THEN First ELSE now + 1
    /\ UNCHANGED <<given, present, mode, status, manager, lists, published>>

(* Another client deletes an entity. *)
Delete(e) ==
    /\ e \in present
    /\ status \in {"loaded", "playing"}
    /\ Cardinality(ToSet(given) \ present) < MaxGone
    /\ present' = present \ {e}
    /\ UNCHANGED <<given, mode, status, now, manager, lists, published>>

-----------------------------------------------------------------------------
Next ==
    \/ StartPlayback \/ StartWithoutSimTime \/ StartFails \/ StartAtOnce
    \/ \E t \in Topic : TimerCallback(t) \/ TfTimerCallback(t)
    \/ Tick
    \/ \E e \in Entities : Delete(e)

Spec == Init /\ [][Next]_vars

(* Timers fire and time passes. *)
Fairness ==
    /\ WF_vars(Tick)
    /\ \A t \in Topic : WF_vars(TimerCallback(t)) /\ WF_vars(TfTimerCallback(t))

FairSpec == Spec /\ Fairness

-----------------------------------------------------------------------------
(* Properties.                                                             *)

(* The entities of a topic that are of its type, but not those that come   *)
(* later than one with the same stamp.                                     *)
Same(d, e) == TopicOf(d) = TopicOf(e) /\ d.stamp = e.stamp
Counts(e) ==
    LET i == IndexFirstSubSeq(<<e>>, given)
    IN  ~\E j \in 1..(i - 1) : Same(given[j], e)

OfTopic(t) == {e \in ToSet(given) : TopicOf(e) = t /\ Counts(e) /\ e.type \in {"cloud", "tf"}}

(* What is played back on a topic is what was given for it, in the order   *)
(* of the stamps and nothing twice: of the clouds of a topic an initial    *)
(* part was published, and of each list of transforms an initial part;     *)
(* timers fire late and in any order, and lists end at different times.    *)
NoGaps ==
    mode # "at once" =>
    \A t \in Topic :
        LET clouds == ByStamp({e \in OfTopic(t) : e.type = "cloud"})
            Times(e) == [i \in DOMAIN SelectSeq(published[t], LAMBDA x : x.of = e) |->
                           SelectSeq(published[t], LAMBDA x : x.of = e)[i].time]
        IN  IF t \in TfTopics
            THEN \A e \in ToSet(given) : TopicOf(e) = t =>
                    IF Counts(e) THEN IsPrefix(Times(e), Ascending(e.times)) ELSE Times(e) = <<>>
            ELSE manager[t].type # "none" =>
                    IsPrefix([i \in DOMAIN published[t] |-> published[t][i].of], clouds)

(* Everything that is played back is played to its end, while the player   *)
(* runs: the clouds of each topic that has no earlier entity of another    *)
(* type, and the transforms of a topic that has one list only.             *)
Alone(e) == \A d \in ToSet(given) : TopicOf(d) = TopicOf(e) => d = e
FirstOfTopic(e) ==
    \A i \in DOMAIN given :
        TopicOf(given[i]) = TopicOf(e) =>
            \E j \in 1..i : TopicOf(given[j]) = TopicOf(e) /\ given[j].type = "cloud"

Played(e) ==
    {x.time : x \in {y \in ToSet(published[TopicOf(e)]) : y.of = e}}
      = IF e.type = "cloud" THEN {e.stamp} ELSE e.times

PlaysOut ==
    \A e \in {d \in Entities : d.type # "other"} :
        LET Expected == \/ e.type = "cloud" /\ Counts(e) /\ FirstOfTopic(e)
                        \/ e.type = "tf" /\ Alone(e)
        IN  (status = "playing" /\ mode # "at once" /\ e \in ToSet(given) /\ Expected)
              ~> (status = "ended" \/ Played(e))

=============================================================================
