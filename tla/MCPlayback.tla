----------------------------- MODULE MCPlayback -----------------------------
(* Instances of Playback for TLC: clouds of one topic, where there may    *)
(* also be something else, two lists that end at different times, and two *)
(* of another topic, one of which has no transforms.                       *)
EXTENDS Playback

Cloud(name, prefix, stamp) ==
    [name |-> name, prefix |-> prefix, stamp |-> stamp, type |-> "cloud", static |-> FALSE,
     times |-> {}]
List(name, stamp, static, times) ==
    [name |-> name, prefix |-> "lists", stamp |-> stamp, type |-> "tf", static |-> static,
     times |-> times]

MCEntities ==
    {Cloud("scan1", "scans", 1), Cloud("again", "scans", 1), Cloud("scan2", "scans", 3),
     List("odom", 1, FALSE, {1, 3}), List("base", 2, FALSE, {1}), List("fixed", 1, TRUE, {}),
     List("mount", 2, TRUE, {2}),
     [name |-> "mesh", prefix |-> "scans", stamp |-> 2, type |-> "other", static |-> FALSE,
      times |-> {}]}

=============================================================================
