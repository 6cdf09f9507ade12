-------------------------- MODULE OperatorsProofs --------------------------
(***************************************************************************)
(* Proofs about Operators for every set of paths and any number of         *)
(* meddling steps of others.                                               *)
(*                                                                         *)
(* A run interprets the program of its operator, so the file has two       *)
(* halves.  The first looks at the programs without running them: Rules    *)
(* say what each instruction is preceded and followed by (nothing is used  *)
(* that was not looked up, nothing fails after a change, what is written   *)
(* was opened for writing); one lemma per operator goes through its        *)
(* instructions.  The second half has, for each property, an invariant     *)
(* that says what the instructions before the next one have led to, and    *)
(* one lemma per action that uses the rule for the instruction that runs:  *)
(*   RunInv      types, what is held and what is open                      *)
(*   EndInv      what was found and stored is there when nobody meddles    *)
(*   AtomInv     nothing has changed, or what is left can't fail           *)
(*   SuccessInv  what was opened, read and written is of the type made     *)
(***************************************************************************)
EXTENDS Operators, TLAPS

-----------------------------------------------------------------------------
(* The programs, looked at without running them.                           *)

Place == {"source", "target"}

Shaped(x) ==
    \/ x.do = "fail" /\ x.how \in {"error", "throws"}
    \/ x.do = "find" /\ x.at \in Place
    \/ x.do = "type" /\ x.type \in Type
    \/ /\ x.do = "store" /\ x.at = "target" /\ x.type \in Type \union {"held"}
       /\ x.checked \in BOOLEAN /\ x.known \in BOOLEAN
    \/ /\ x.do = "open" /\ x.at \in Place /\ x.type \in Type \union {"any"}
       /\ x.looks \in BOOLEAN /\ x.writes \in BOOLEAN /\ x.null \in {"error", "throws"}
    \/ x.do \in {"read", "write"} /\ x.at \in Place
    \/ x.do = "bytes"
    \/ x.do = "delete" /\ x.at = "target"

(* An instruction before the i-th one opens what lies at w.                *)
Opens(P, i, w) == \E j \in 1..(i - 1) : P[j].do = "open" /\ P[j].at = w

(* Nothing is used that was not looked up before.                          *)
Sane(op, P) ==
    /\ Len(P) \in Nat /\ DOMAIN P = 1..Len(P)
    /\ \A i \in 1..Len(P) :
          /\ Shaped(P[i])
          /\ P[i].do = "store" /\ P[i].type = "held"
               => \E j \in 1..(i - 1) : P[j].do \in {"find", "store"}
          /\ P[i].do \in {"read", "write"} => Opens(P, i, P[i].at)
          /\ P[i].do = "bytes" => Opens(P, i, "source") /\ Opens(P, i, "target") /\ op = "copy"
          /\ P[i].do = "delete" => Len(P) = 1 /\ op = "delete"
          /\ P[i].do = "write" /\ P[i].at = "source" => op \in InPlace

Filters == {"radius", "statistical", "uniform", "approximate"}

(* What can't end the process, or only when something is missing.          *)
Ending(op, P) ==
    \A i \in 1..Len(P) :
       /\ op \in Filters =>
             /\ P[i].do = "fail" => P[i].how = "error"
             /\ P[i].do = "open" => P[i].null = "error" /\ P[i].type = "cloud"
       /\ op = "copy" =>
             /\ P[i].do \notin {"fail", "read"}
             /\ P[i].do = "open" /\ P[i].writes =>
                   P[i].at = "target" /\ \E j \in 1..(i - 1) : P[j].do = "store" /\ P[j].checked /\ P[j].known
             /\ P[i].do = "open" /\ ~P[i].writes =>
                   \E j \in 1..(i - 1) : P[j].do = "find" /\ P[j].at = P[i].at
       /\ op = "addRandomTf" =>
             /\ P[i].do = "fail" => P[i].how = "error"
             /\ P[i].do = "open" => /\ P[i].at = "target" /\ P[i].type = "tf"
                                    /\ \E j \in 1..(i - 1) : P[j].do = "store" /\ P[j].checked

(* The type of what an operator makes.                                     *)
Makes(op) ==
    CASE op \in {"loadLas", "loadCsv"} -> "las"
      [] op = "loadPrimitive" -> "primitive"
      [] op = "loadPath" -> "path"
      [] op \in {"loadAsset", "gridToMesh"} -> "mesh"
      [] op \in {"cloudToGrid", "smooth"} -> "grid"
      [] op = "addRandomTf" -> "tf"
      [] OTHER -> "cloud"

(* Instructions that never lead to an error.                               *)
Firm(x) ==
    /\ x.do \notin {"find", "type"}
    /\ x.do = "fail" => x.how = "throws"
    /\ x.do = "store" => ~x.checked
    /\ x.do = "open" => x.null = "throws" /\ ~x.looks

FirmFrom(P, i) == \A k \in i..Len(P) : Firm(P[k])

(* Something may have changed before the i-th instruction.                 *)
Late(P, i) == \E j \in 1..(i - 1) : P[j].do = "store"

(* After a change nothing fails but what finds the change undone.          *)
Careful(op, P) ==
    op \notin Hasty \union {"copy"} =>
    \A i \in 1..Len(P) :
       /\ P[i].do = "store" => \/ P[i].type = Makes(op)
                               \/ P[i].type = "held" /\ FirmFrom(P, i + 1)
       /\ P[i].do \in {"write", "delete"} => FirmFrom(P, i + 1)
       /\ Late(P, i) =>
             /\ P[i].do # "find"
             /\ P[i].do = "fail" => P[i].how = "throws"
             /\ P[i].do = "type" => P[i].type = Makes(op)
             /\ P[i].do = "store" => ~P[i].checked
             /\ P[i].do = "open" => P[i].at = "target" /\ P[i].type = Makes(op)

NoData == {"copy", "delete", "edit", "grid", "surface"}

Out(op) == IF op \in InPlace THEN "source" ELSE "target"

(* The data is written once, after it was opened for writing.              *)
Writing(op, P) ==
    op \notin NoData =>
    /\ \E i \in 1..Len(P) : P[i].do = "write"
    /\ \A i \in 1..Len(P) :
          /\ P[i].do = "write" =>
                /\ P[i].at = Out(op)
                /\ \E j \in 1..(i - 1) : P[j].do = "open" /\ P[j].writes /\ P[j].at = Out(op)
                /\ \A k \in (i + 1)..Len(P) : P[k].do = "store"
          /\ P[i].do = "open" /\ P[i].at = Out(op) => P[i].type = Makes(op)
          /\ P[i].do = "open" /\ ~P[i].looks => op = "loadBags"
          /\ P[i].do = "store" => P[i].type = Makes(op) \/ op = "loadBags"

(* Where get_or_create_entity and edit_entity look the target up.          *)
Look(op) == IF op = "loadBags" THEN 3 ELSE 1

(* What is read, stored and looked up, and when.                           *)
Using(op, P) ==
    \A i \in 1..Len(P) :
       /\ op \notin NoData =>
             /\ P[i].do = "read" => op \notin TargetOnly /\ (P[i].at = "source" \/ op = "addRandomTf")
             /\ P[i].do = "open" /\ P[i].at = "source" => ~Late(P, i)
             /\ P[i].do = "store" /\ P[i].known /\ op \in OnTrees => \E j \in 1..(i - 1) : P[j].do = "write"
       /\ op \in NoData =>
             /\ P[i].do # "write"
             /\ P[i].do = "store" => op \in {"copy", "edit"}
       /\ op \in {"loadBags", "edit"} =>
             /\ i < Look(op) => P[i].do = "fail"
             /\ i = Look(op) => \/ P[i].do = "find" /\ P[i].at = "target"
                                \/ P[i].do = "store" /\ ~P[i].known
             /\ i > Look(op) => P[i].do # "find" /\ (P[i].do = "store" => P[i].type = "held")
             /\ op = "loadBags" /\ i = 4 => P[i].do = "type" /\ P[i].type = "cloud"

Rules(op) ==
    LET P == Program[op]
    IN  Sane(op, P) /\ Ending(op, P) /\ Careful(op, P) /\ Writing(op, P) /\ Using(op, P)

USE DEF MayFail, MayThrow, Find, Store, Storing, StoreMissing, IsOfType, Opening, Open, OpenBlindly,
        OpenAs, OpenReadOnly, ReadBlindly, Read, Write, CopyBytes, Delete

LEMMA CopyRules == Rules("copy")
<1> DEFINE P == Program["copy"]
<1>1. /\ Len(P) = 5 /\ DOMAIN P = 1..5 /\ P[1] = Find("source")
      /\ P[2] = Store("target", "held", TRUE) /\ P[3] = ReadBlindly("source", "any")
      /\ P[4] = OpenBlindly("target", "any") /\ P[5] = CopyBytes
  BY DEF Program, Copy
<1> HIDE DEF P
<1>2. \A i \in 1..5 : Shaped(P[i])
  <2>1. /\ Shaped(P[1]) /\ Shaped(P[2]) /\ Shaped(P[3]) /\ Shaped(P[4]) /\ Shaped(P[5])
    BY <1>1 DEF Shaped, Place, Type
  <2> QED BY <2>1
<1>3. Sane("copy", P) /\ Ending("copy", P)
  BY <1>1, <1>2 DEF Sane, Opens, InPlace, Ending, Filters
<1>4. Careful("copy", P) /\ Writing("copy", P)
  BY <1>1 DEF Careful, Hasty, Makes, Late, FirmFrom, Firm, Writing, NoData, Out, InPlace
<1>5. Using("copy", P)
  BY <1>1 DEF Using, NoData, TargetOnly, OnTrees, Late, Look
<1> QED BY <1>3, <1>4, <1>5 DEF Rules, P

LEMMA DeleteRules == Rules("delete")
<1> DEFINE P == Program["delete"]
<1>1. /\ Len(P) = 1 /\ DOMAIN P = 1..1 /\ P[1] = Delete("target")
  BY DEF Program, DeleteEntity
<1> HIDE DEF P
<1>2. \A i \in 1..1 : Shaped(P[i])
  <2>1. /\ Shaped(P[1])
    BY <1>1 DEF Shaped, Place, Type
  <2> QED BY <2>1
<1>3. Sane("delete", P) /\ Ending("delete", P)
  BY <1>1, <1>2 DEF Sane, Opens, InPlace, Ending, Filters
<1>4. Careful("delete", P) /\ Writing("delete", P)
  BY <1>1 DEF Careful, Hasty, Makes, Late, FirmFrom, Firm, Writing, NoData, Out, InPlace
<1>5. Using("delete", P)
  BY <1>1 DEF Using, NoData, TargetOnly, OnTrees, Late, Look
<1> QED BY <1>3, <1>4, <1>5 DEF Rules, P

LEMMA EditRules == Rules("edit")
<1> DEFINE P == Program["edit"]
<1>1. /\ Len(P) = 2 /\ DOMAIN P = 1..2 /\ P[1] = Find("target")
      /\ P[2] = Store("target", "held", FALSE)
  BY DEF Program, EditEntity
<1> HIDE DEF P
<1>2. \A i \in 1..2 : Shaped(P[i])
  <2>1. /\ Shaped(P[1]) /\ Shaped(P[2])
    BY <1>1 DEF Shaped, Place, Type
  <2> QED BY <2>1
<1>3. Sane("edit", P) /\ Ending("edit", P)
  BY <1>1, <1>2 DEF Sane, Opens, InPlace, Ending, Filters
<1>4. Careful("edit", P) /\ Writing("edit", P)
  BY <1>1 DEF Careful, Hasty, Makes, Late, FirmFrom, Firm, Writing, NoData, Out, InPlace
<1>5. Using("edit", P)
  BY <1>1 DEF Using, NoData, TargetOnly, OnTrees, Late, Look
<1> QED BY <1>3, <1>4, <1>5 DEF Rules, P

LEMMA LoadPointcloudRules == Rules("loadPointcloud")
<1> DEFINE P == Program["loadPointcloud"]
<1>1. /\ Len(P) = 4 /\ DOMAIN P = 1..4 /\ P[1] = MayFail
      /\ P[2] = Store("target", "cloud", FALSE) /\ P[3] = Open("target", "cloud")
      /\ P[4] = Write("target")
  BY DEF Program, LoadPointcloud
<1> HIDE DEF P
<1>2. \A i \in 1..4 : Shaped(P[i])
  <2>1. /\ Shaped(P[1]) /\ Shaped(P[2]) /\ Shaped(P[3]) /\ Shaped(P[4])
    BY <1>1 DEF Shaped, Place, Type
  <2> QED BY <2>1
<1>3. Sane("loadPointcloud", P) /\ Ending("loadPointcloud", P)
  BY <1>1, <1>2 DEF Sane, Opens, InPlace, Ending, Filters
<1>4. Careful("loadPointcloud", P) /\ Writing("loadPointcloud", P)
  BY <1>1 DEF Careful, Hasty, Makes, Late, FirmFrom, Firm, Writing, NoData, Out, InPlace
<1>5. Using("loadPointcloud", P)
  BY <1>1 DEF Using, NoData, TargetOnly, OnTrees, Late, Look
<1> QED BY <1>3, <1>4, <1>5 DEF Rules, P

LEMMA LoadLasRules == Rules("loadLas")
<1> DEFINE P == Program["loadLas"]
<1>1. /\ Len(P) = 5 /\ DOMAIN P = 1..5 /\ P[1] = MayFail
      /\ P[2] = Store("target", "las", FALSE) /\ P[3] = MayThrow
      /\ P[4] = Open("target", "las") /\ P[5] = Write("target")
  BY DEF Program, LoadLas
<1> HIDE DEF P
<1>2. \A i \in 1..5 : Shaped(P[i])
  <2>1. /\ Shaped(P[1]) /\ Shaped(P[2]) /\ Shaped(P[3]) /\ Shaped(P[4]) /\ Shaped(P[5])
    BY <1>1 DEF Shaped, Place, Type
  <2> QED BY <2>1
<1>3. Sane("loadLas", P) /\ Ending("loadLas", P)
  BY <1>1, <1>2 DEF Sane, Opens, InPlace, Ending, Filters
<1>4. Careful("loadLas", P) /\ Writing("loadLas", P)
  BY <1>1 DEF Careful, Hasty, Makes, Late, FirmFrom, Firm, Writing, NoData, Out, InPlace
<1>5. Using("loadLas", P)
  BY <1>1 DEF Using, NoData, TargetOnly, OnTrees, Late, Look
<1> QED BY <1>3, <1>4, <1>5 DEF Rules, P

LEMMA LoadCsvRules == Rules("loadCsv")
<1> DEFINE P == Program["loadCsv"]
<1>1. /\ Len(P) = 5 /\ DOMAIN P = 1..5 /\ P[1] = MayFail
      /\ P[2] = Store("target", "las", FALSE) /\ P[3] = Open("target", "las")
      /\ P[4] = MayThrow /\ P[5] = Write("target")
  BY DEF Program, LoadLasFromCsv, ReadCsv
<1> HIDE DEF P
<1>2. \A i \in 1..5 : Shaped(P[i])
  <2>1. /\ Shaped(P[1]) /\ Shaped(P[2]) /\ Shaped(P[3]) /\ Shaped(P[4]) /\ Shaped(P[5])
    BY <1>1 DEF Shaped, Place, Type
  <2> QED BY <2>1
<1>3. Sane("loadCsv", P) /\ Ending("loadCsv", P)
  BY <1>1, <1>2 DEF Sane, Opens, InPlace, Ending, Filters
<1>4. Careful("loadCsv", P) /\ Writing("loadCsv", P)
  BY <1>1 DEF Careful, Hasty, Makes, Late, FirmFrom, Firm, Writing, NoData, Out, InPlace
<1>5. Using("loadCsv", P)
  BY <1>1 DEF Using, NoData, TargetOnly, OnTrees, Late, Look
<1> QED BY <1>3, <1>4, <1>5 DEF Rules, P

LEMMA LoadAssetRules == Rules("loadAsset")
<1> DEFINE P == Program["loadAsset"]
<1>1. /\ Len(P) = 6 /\ DOMAIN P = 1..6 /\ P[1] = MayFail
      /\ P[2] = Store("target", "mesh", FALSE) /\ P[3] = Open("target", "mesh")
      /\ P[4] = MayFail /\ P[5] = MayThrow /\ P[6] = Write("target")
  BY DEF Program, LoadAsset
<1> HIDE DEF P
<1>2. \A i \in 1..6 : Shaped(P[i])
  <2>1. /\ Shaped(P[1]) /\ Shaped(P[2]) /\ Shaped(P[3]) /\ Shaped(P[4]) /\ Shaped(P[5])
        /\ Shaped(P[6])
    BY <1>1 DEF Shaped, Place, Type
  <2> QED BY <2>1
<1>3. Sane("loadAsset", P) /\ Ending("loadAsset", P)
  BY <1>1, <1>2 DEF Sane, Opens, InPlace, Ending, Filters
<1>4. Careful("loadAsset", P) /\ Writing("loadAsset", P)
  BY <1>1 DEF Careful, Hasty, Makes, Late, FirmFrom, Firm, Writing, NoData, Out, InPlace
<1>5. Using("loadAsset", P)
  BY <1>1 DEF Using, NoData, TargetOnly, OnTrees, Late, Look
<1> QED BY <1>3, <1>4, <1>5 DEF Rules, P

LEMMA LoadPrimitiveRules == Rules("loadPrimitive")
<1> DEFINE P == Program["loadPrimitive"]
<1>1. /\ Len(P) = 4 /\ DOMAIN P = 1..4 /\ P[1] = MayFail
      /\ P[2] = Store("target", "primitive", FALSE) /\ P[3] = Open("target", "primitive")
      /\ P[4] = Write("target")
  BY DEF Program, LoadPrimitive
<1> HIDE DEF P
<1>2. \A i \in 1..4 : Shaped(P[i])
  <2>1. /\ Shaped(P[1]) /\ Shaped(P[2]) /\ Shaped(P[3]) /\ Shaped(P[4])
    BY <1>1 DEF Shaped, Place, Type
  <2> QED BY <2>1
<1>3. Sane("loadPrimitive", P) /\ Ending("loadPrimitive", P)
  BY <1>1, <1>2 DEF Sane, Opens, InPlace, Ending, Filters
<1>4. Careful("loadPrimitive", P) /\ Writing("loadPrimitive", P)
  BY <1>1 DEF Careful, Hasty, Makes, Late, FirmFrom, Firm, Writing, NoData, Out, InPlace
<1>5. Using("loadPrimitive", P)
  BY <1>1 DEF Using, NoData, TargetOnly, OnTrees, Late, Look
<1> QED BY <1>3, <1>4, <1>5 DEF Rules, P

LEMMA LoadPathRules == Rules("loadPath")
<1> DEFINE P == Program["loadPath"]
<1>1. /\ Len(P) = 5 /\ DOMAIN P = 1..5 /\ P[1] = MayFail
      /\ P[2] = Store("target", "path", FALSE) /\ P[3] = Open("target", "path")
      /\ P[4] = MayFail /\ P[5] = Write("target")
  BY DEF Program, LoadPath
<1> HIDE DEF P
<1>2. \A i \in 1..5 : Shaped(P[i])
  <2>1. /\ Shaped(P[1]) /\ Shaped(P[2]) /\ Shaped(P[3]) /\ Shaped(P[4]) /\ Shaped(P[5])
    BY <1>1 DEF Shaped, Place, Type
  <2> QED BY <2>1
<1>3. Sane("loadPath", P) /\ Ending("loadPath", P)
  BY <1>1, <1>2 DEF Sane, Opens, InPlace, Ending, Filters
<1>4. Careful("loadPath", P) /\ Writing("loadPath", P)
  BY <1>1 DEF Careful, Hasty, Makes, Late, FirmFrom, Firm, Writing, NoData, Out, InPlace
<1>5. Using("loadPath", P)
  BY <1>1 DEF Using, NoData, TargetOnly, OnTrees, Late, Look
<1> QED BY <1>3, <1>4, <1>5 DEF Rules, P

LEMMA LoadBagsRules == Rules("loadBags")
<1> DEFINE P == Program["loadBags"]
<1>1. /\ Len(P) = 7 /\ DOMAIN P = 1..7 /\ P[1] = MayThrow /\ P[2] = MayFail
      /\ P[3] = StoreMissing("target", "cloud", FALSE)
      /\ P[4] = IsOfType("cloud") /\ P[5] = Store("target", "held", FALSE)
      /\ P[6] = OpenAs("target", "cloud") /\ P[7] = Write("target")
  <2> DEFINE x == MayThrow
             y == MayFail
             a == StoreMissing("target", "cloud", FALSE)
             b == IsOfType("cloud")
             c == Store("target", "held", FALSE)
             d == OpenAs("target", "cloud")
             e == Write("target")
  <2>1. P = <<x, y>> \o <<a, b>> \o <<c, d, e>>
    BY DEF Program, LoadBags, GetOrCreate
  <2> HIDE DEF P, x, y, a, b, c, d, e
  <2>2. /\ Len(P) = 7 /\ DOMAIN P = 1..7 /\ P[1] = x /\ P[2] = y
        /\ P[3] = a /\ P[4] = b /\ P[5] = c /\ P[6] = d /\ P[7] = e
    BY <2>1
  <2> QED BY <2>2 DEF x, y, a, b, c, d, e
<1> HIDE DEF P
<1>2. \A i \in 1..7 : Shaped(P[i])
  <2>1. /\ Shaped(P[1]) /\ Shaped(P[2]) /\ Shaped(P[3]) /\ Shaped(P[4]) /\ Shaped(P[5])
        /\ Shaped(P[6]) /\ Shaped(P[7])
    BY <1>1 DEF Shaped, Place, Type
  <2> QED BY <2>1
<1>3. Sane("loadBags", P) /\ Ending("loadBags", P)
  BY <1>1, <1>2 DEF Sane, Opens, InPlace, Ending, Filters
<1>4. Careful("loadBags", P) /\ Writing("loadBags", P)
  BY <1>1 DEF Careful, Hasty, Makes, Late, FirmFrom, Firm, Writing, NoData, Out, InPlace
<1>5. Using("loadBags", P)
  BY <1>1 DEF Using, NoData, TargetOnly, OnTrees, Late, Look
<1> QED BY <1>3, <1>4, <1>5 DEF Rules, P

LEMMA VoxelgridRules == Rules("voxelgrid")
<1> DEFINE P == Program["voxelgrid"]
<1>1. /\ Len(P) = 4 /\ DOMAIN P = 1..4 /\ P[1] = Open("source", "cloud")
      /\ P[2] = Read("source") /\ P[3] = MayThrow /\ P[4] = Write("source")
  BY DEF Program, Voxelgrid
<1> HIDE DEF P
<1>2. \A i \in 1..4 : Shaped(P[i])
  <2>1. /\ Shaped(P[1]) /\ Shaped(P[2]) /\ Shaped(P[3]) /\ Shaped(P[4])
    BY <1>1 DEF Shaped, Place, Type
  <2> QED BY <2>1
<1>3. Sane("voxelgrid", P) /\ Ending("voxelgrid", P)
  BY <1>1, <1>2 DEF Sane, Opens, InPlace, Ending, Filters
<1>4. Careful("voxelgrid", P) /\ Writing("voxelgrid", P)
  BY <1>1 DEF Careful, Hasty, Makes, Late, FirmFrom, Firm, Writing, NoData, Out, InPlace
<1>5. Using("voxelgrid", P)
  BY <1>1 DEF Using, NoData, TargetOnly, OnTrees, Late, Look
<1> QED BY <1>3, <1>4, <1>5 DEF Rules, P

LEMMA GridRules == Rules("grid")
<1> DEFINE P == Program["grid"]
<1>1. /\ Len(P) = 3 /\ DOMAIN P = 1..3 /\ P[1] = Open("source", "cloud")
      /\ P[2] = Read("source") /\ P[3] = MayThrow
  BY DEF Program, Grid
<1> HIDE DEF P
<1>2. \A i \in 1..3 : Shaped(P[i])
  <2>1. /\ Shaped(P[1]) /\ Shaped(P[2]) /\ Shaped(P[3])
    BY <1>1 DEF Shaped, Place, Type
  <2> QED BY <2>1
<1>3. Sane("grid", P) /\ Ending("grid", P)
  BY <1>1, <1>2 DEF Sane, Opens, InPlace, Ending, Filters
<1>4. Careful("grid", P) /\ Writing("grid", P)
  BY <1>1 DEF Careful, Hasty, Makes, Late, FirmFrom, Firm, Writing, NoData, Out, InPlace
<1>5. Using("grid", P)
  BY <1>1 DEF Using, NoData, TargetOnly, OnTrees, Late, Look
<1> QED BY <1>3, <1>4, <1>5 DEF Rules, P

LEMMA NormalsRules == Rules("normals")
<1> DEFINE P == Program["normals"]
<1>1. /\ Len(P) = 5 /\ DOMAIN P = 1..5 /\ P[1] = MayFail
      /\ P[2] = Open("source", "cloud") /\ P[3] = Read("source") /\ P[4] = MayThrow
      /\ P[5] = Write("source")
  BY DEF Program, NormalEstimation
<1> HIDE DEF P
<1>2. \A i \in 1..5 : Shaped(P[i])
  <2>1. /\ Shaped(P[1]) /\ Shaped(P[2]) /\ Shaped(P[3]) /\ Shaped(P[4]) /\ Shaped(P[5])
    BY <1>1 DEF Shaped, Place, Type
  <2> QED BY <2>1
<1>3. Sane("normals", P) /\ Ending("normals", P)
  BY <1>1, <1>2 DEF Sane, Opens, InPlace, Ending, Filters
<1>4. Careful("normals", P) /\ Writing("normals", P)
  BY <1>1 DEF Careful, Hasty, Makes, Late, FirmFrom, Firm, Writing, NoData, Out, InPlace
<1>5. Using("normals", P)
  BY <1>1 DEF Using, NoData, TargetOnly, OnTrees, Late, Look
<1> QED BY <1>3, <1>4, <1>5 DEF Rules, P

LEMMA ScaleRules == Rules("scale")
<1> DEFINE P == Program["scale"]
<1>1. /\ Len(P) = 5 /\ DOMAIN P = 1..5 /\ P[1] = Find("source")
      /\ P[2] = OpenBlindly("source", "cloud")
      /\ P[3] = Read("source") /\ P[4] = MayFail /\ P[5] = Write("source")
  BY DEF Program, ScalePointcloud
<1> HIDE DEF P
<1>2. \A i \in 1..5 : Shaped(P[i])
  <2>1. /\ Shaped(P[1]) /\ Shaped(P[2]) /\ Shaped(P[3]) /\ Shaped(P[4]) /\ Shaped(P[5])
    BY <1>1 DEF Shaped, Place, Type
  <2> QED BY <2>1
<1>3. Sane("scale", P) /\ Ending("scale", P)
  BY <1>1, <1>2 DEF Sane, Opens, InPlace, Ending, Filters
<1>4. Careful("scale", P) /\ Writing("scale", P)
  BY <1>1 DEF Careful, Hasty, Makes, Late, FirmFrom, Firm, Writing, NoData, Out, InPlace
<1>5. Using("scale", P)
  BY <1>1 DEF Using, NoData, TargetOnly, OnTrees, Late, Look
<1> QED BY <1>3, <1>4, <1>5 DEF Rules, P

LEMMA MlsRules == Rules("mls")
<1> DEFINE P == Program["mls"]
<1>1. /\ Len(P) = 5 /\ DOMAIN P = 1..5 /\ P[1] = Open("source", "cloud")
      /\ P[2] = Read("source") /\ P[3] = MayFail /\ P[4] = MayThrow
      /\ P[5] = Write("source")
  BY DEF Program, MovingLeastSquares
<1> HIDE DEF P
<1>2. \A i \in 1..5 : Shaped(P[i])
  <2>1. /\ Shaped(P[1]) /\ Shaped(P[2]) /\ Shaped(P[3]) /\ Shaped(P[4]) /\ Shaped(P[5])
    BY <1>1 DEF Shaped, Place, Type
  <2> QED BY <2>1
<1>3. Sane("mls", P) /\ Ending("mls", P)
  BY <1>1, <1>2 DEF Sane, Opens, InPlace, Ending, Filters
<1>4. Careful("mls", P) /\ Writing("mls", P)
  BY <1>1 DEF Careful, Hasty, Makes, Late, FirmFrom, Firm, Writing, NoData, Out, InPlace
<1>5. Using("mls", P)
  BY <1>1 DEF Using, NoData, TargetOnly, OnTrees, Late, Look
<1> QED BY <1>3, <1>4, <1>5 DEF Rules, P

LEMMA CentroidRules == Rules("centroid")
<1> DEFINE P == Program["centroid"]
<1>1. /\ Len(P) = 4 /\ DOMAIN P = 1..4 /\ P[1] = Open("source", "cloud")
      /\ P[2] = Read("source") /\ P[3] = MayFail /\ P[4] = Write("source")
  BY DEF Program, CentroidToOrigin, FieldsFit
<1> HIDE DEF P
<1>2. \A i \in 1..4 : Shaped(P[i])
  <2>1. /\ Shaped(P[1]) /\ Shaped(P[2]) /\ Shaped(P[3]) /\ Shaped(P[4])
    BY <1>1 DEF Shaped, Place, Type
  <2> QED BY <2>1
<1>3. Sane("centroid", P) /\ Ending("centroid", P)
  BY <1>1, <1>2 DEF Sane, Opens, InPlace, Ending, Filters
<1>4. Careful("centroid", P) /\ Writing("centroid", P)
  BY <1>1 DEF Careful, Hasty, Makes, Late, FirmFrom, Firm, Writing, NoData, Out, InPlace
<1>5. Using("centroid", P)
  BY <1>1 DEF Using, NoData, TargetOnly, OnTrees, Late, Look
<1> QED BY <1>3, <1>4, <1>5 DEF Rules, P

LEMMA RadiusRules == Rules("radius")
<1> DEFINE P == Program["radius"]
<1>1. /\ Len(P) = 7 /\ DOMAIN P = 1..7 /\ P[1] = MayFail
      /\ P[2] = Open("source", "cloud") /\ P[3] = Read("source") /\ P[4] = MayFail
      /\ P[5] = StoreMissing("target", "cloud", TRUE) /\ P[6] = Open("target", "cloud")
      /\ P[7] = Write("target")
  BY DEF Program, FilterRadius, Filter
<1> HIDE DEF P
<1>2. \A i \in 1..7 : Shaped(P[i])
  <2>1. /\ Shaped(P[1]) /\ Shaped(P[2]) /\ Shaped(P[3]) /\ Shaped(P[4]) /\ Shaped(P[5])
        /\ Shaped(P[6]) /\ Shaped(P[7])
    BY <1>1 DEF Shaped, Place, Type
  <2> QED BY <2>1
<1>3. Sane("radius", P) /\ Ending("radius", P)
  BY <1>1, <1>2 DEF Sane, Opens, InPlace, Ending, Filters
<1>4. Careful("radius", P) /\ Writing("radius", P)
  <2>1. Careful("radius", P)
    BY <1>1 DEF Careful, Hasty, Makes, Late, FirmFrom, Firm, InPlace
  <2>2. Writing("radius", P)
    BY <1>1 DEF Writing, NoData, Makes, Out, InPlace
  <2> QED BY <2>1, <2>2
<1>5. Using("radius", P)
  BY <1>1 DEF Using, NoData, TargetOnly, OnTrees, Late, Look
<1> QED BY <1>3, <1>4, <1>5 DEF Rules, P

LEMMA StatisticalRules == Rules("statistical")
<1> DEFINE P == Program["statistical"]
<1>1. /\ Len(P) = 7 /\ DOMAIN P = 1..7 /\ P[1] = MayFail
      /\ P[2] = Open("source", "cloud") /\ P[3] = Read("source") /\ P[4] = MayFail
      /\ P[5] = StoreMissing("target", "cloud", TRUE) /\ P[6] = Open("target", "cloud")
      /\ P[7] = Write("target")
  BY DEF Program, FilterStatistical, Filter
<1> HIDE DEF P
<1>2. \A i \in 1..7 : Shaped(P[i])
  <2>1. /\ Shaped(P[1]) /\ Shaped(P[2]) /\ Shaped(P[3]) /\ Shaped(P[4]) /\ Shaped(P[5])
        /\ Shaped(P[6]) /\ Shaped(P[7])
    BY <1>1 DEF Shaped, Place, Type
  <2> QED BY <2>1
<1>3. Sane("statistical", P) /\ Ending("statistical", P)
  BY <1>1, <1>2 DEF Sane, Opens, InPlace, Ending, Filters
<1>4. Careful("statistical", P) /\ Writing("statistical", P)
  <2>1. Careful("statistical", P)
    BY <1>1 DEF Careful, Hasty, Makes, Late, FirmFrom, Firm, InPlace
  <2>2. Writing("statistical", P)
    BY <1>1 DEF Writing, NoData, Makes, Out, InPlace
  <2> QED BY <2>1, <2>2
<1>5. Using("statistical", P)
  BY <1>1 DEF Using, NoData, TargetOnly, OnTrees, Late, Look
<1> QED BY <1>3, <1>4, <1>5 DEF Rules, P

LEMMA UniformRules == Rules("uniform")
<1> DEFINE P == Program["uniform"]
<1>1. /\ Len(P) = 7 /\ DOMAIN P = 1..7 /\ P[1] = MayFail
      /\ P[2] = Open("source", "cloud") /\ P[3] = Read("source") /\ P[4] = MayFail
      /\ P[5] = StoreMissing("target", "cloud", TRUE) /\ P[6] = Open("target", "cloud")
      /\ P[7] = Write("target")
  BY DEF Program, FilterUniform, Filter
<1> HIDE DEF P
<1>2. \A i \in 1..7 : Shaped(P[i])
  <2>1. /\ Shaped(P[1]) /\ Shaped(P[2]) /\ Shaped(P[3]) /\ Shaped(P[4]) /\ Shaped(P[5])
        /\ Shaped(P[6]) /\ Shaped(P[7])
    BY <1>1 DEF Shaped, Place, Type
  <2> QED BY <2>1
<1>3. Sane("uniform", P) /\ Ending("uniform", P)
  BY <1>1, <1>2 DEF Sane, Opens, InPlace, Ending, Filters
<1>4. Careful("uniform", P) /\ Writing("uniform", P)
  <2>1. Careful("uniform", P)
    BY <1>1 DEF Careful, Hasty, Makes, Late, FirmFrom, Firm, InPlace
  <2>2. Writing("uniform", P)
    BY <1>1 DEF Writing, NoData, Makes, Out, InPlace
  <2> QED BY <2>1, <2>2
<1>5. Using("uniform", P)
  BY <1>1 DEF Using, NoData, TargetOnly, OnTrees, Late, Look
<1> QED BY <1>3, <1>4, <1>5 DEF Rules, P

LEMMA ApproximateRules == Rules("approximate")
<1> DEFINE P == Program["approximate"]
<1>1. /\ Len(P) = 7 /\ DOMAIN P = 1..7 /\ P[1] = MayFail
      /\ P[2] = Open("source", "cloud") /\ P[3] = Read("source") /\ P[4] = MayFail
      /\ P[5] = StoreMissing("target", "cloud", TRUE) /\ P[6] = Open("target", "cloud")
      /\ P[7] = Write("target")
  BY DEF Program, FilterApproximate, Filter
<1> HIDE DEF P
<1>2. \A i \in 1..7 : Shaped(P[i])
  <2>1. /\ Shaped(P[1]) /\ Shaped(P[2]) /\ Shaped(P[3]) /\ Shaped(P[4]) /\ Shaped(P[5])
        /\ Shaped(P[6]) /\ Shaped(P[7])
    BY <1>1 DEF Shaped, Place, Type
  <2> QED BY <2>1
<1>3. Sane("approximate", P) /\ Ending("approximate", P)
  BY <1>1, <1>2 DEF Sane, Opens, InPlace, Ending, Filters
<1>4. Careful("approximate", P) /\ Writing("approximate", P)
  <2>1. Careful("approximate", P)
    BY <1>1 DEF Careful, Hasty, Makes, Late, FirmFrom, Firm, InPlace
  <2>2. Writing("approximate", P)
    BY <1>1 DEF Writing, NoData, Makes, Out, InPlace
  <2> QED BY <2>1, <2>2
<1>5. Using("approximate", P)
  BY <1>1 DEF Using, NoData, TargetOnly, OnTrees, Late, Look
<1> QED BY <1>3, <1>4, <1>5 DEF Rules, P

LEMMA SurfaceRules == Rules("surface")
<1> DEFINE P == Program["surface"]
<1>1. /\ Len(P) = 1 /\ DOMAIN P = 1..1 /\ P[1] = MayFail
  BY DEF Program, SurfaceMovingLeastSquares
<1> HIDE DEF P
<1>2. \A i \in 1..1 : Shaped(P[i])
  <2>1. /\ Shaped(P[1])
    BY <1>1 DEF Shaped, Place, Type
  <2> QED BY <2>1
<1>3. Sane("surface", P) /\ Ending("surface", P)
  BY <1>1, <1>2 DEF Sane, Opens, InPlace, Ending, Filters
<1>4. Careful("surface", P) /\ Writing("surface", P)
  BY <1>1 DEF Careful, Hasty, Makes, Late, FirmFrom, Firm, Writing, NoData, Out, InPlace
<1>5. Using("surface", P)
  BY <1>1 DEF Using, NoData, TargetOnly, OnTrees, Late, Look
<1> QED BY <1>3, <1>4, <1>5 DEF Rules, P

LEMMA LasToCloudRules == Rules("lasToCloud")
<1> DEFINE P == Program["lasToCloud"]
<1>1. /\ Len(P) = 6 /\ DOMAIN P = 1..6 /\ P[1] = MayFail
      /\ P[2] = OpenReadOnly("source", "las") /\ P[3] = Read("source")
      /\ P[4] = Store("target", "cloud", FALSE) /\ P[5] = Open("target", "cloud")
      /\ P[6] = Write("target")
  BY DEF Program, LasToCloud
<1> HIDE DEF P
<1>2. \A i \in 1..6 : Shaped(P[i])
  <2>1. /\ Shaped(P[1]) /\ Shaped(P[2]) /\ Shaped(P[3]) /\ Shaped(P[4]) /\ Shaped(P[5])
        /\ Shaped(P[6])
    BY <1>1 DEF Shaped, Place, Type
  <2> QED BY <2>1
<1>3. Sane("lasToCloud", P) /\ Ending("lasToCloud", P)
  BY <1>1, <1>2 DEF Sane, Opens, InPlace, Ending, Filters
<1>4. Careful("lasToCloud", P) /\ Writing("lasToCloud", P)
  BY <1>1 DEF Careful, Hasty, Makes, Late, FirmFrom, Firm, Writing, NoData, Out, InPlace
<1>5. Using("lasToCloud", P)
  BY <1>1 DEF Using, NoData, TargetOnly, OnTrees, Late, Look
<1> QED BY <1>3, <1>4, <1>5 DEF Rules, P

LEMMA CloudToGridRules == Rules("cloudToGrid")
<1> DEFINE P == Program["cloudToGrid"]
<1>1. /\ Len(P) = 7 /\ DOMAIN P = 1..7 /\ P[1] = MayFail
      /\ P[2] = OpenReadOnly("source", "cloud") /\ P[3] = Read("source")
      /\ P[4] = Store("target", "grid", TRUE) /\ P[5] = MayThrow
      /\ P[6] = Open("target", "grid") /\ P[7] = Write("target")
  BY DEF Program, CloudToGrid
<1> HIDE DEF P
<1>2. \A i \in 1..7 : Shaped(P[i])
  <2>1. /\ Shaped(P[1]) /\ Shaped(P[2]) /\ Shaped(P[3]) /\ Shaped(P[4]) /\ Shaped(P[5])
        /\ Shaped(P[6]) /\ Shaped(P[7])
    BY <1>1 DEF Shaped, Place, Type
  <2> QED BY <2>1
<1>3. Sane("cloudToGrid", P) /\ Ending("cloudToGrid", P)
  BY <1>1, <1>2 DEF Sane, Opens, InPlace, Ending, Filters
<1>4. Careful("cloudToGrid", P) /\ Writing("cloudToGrid", P)
  <2>1. Careful("cloudToGrid", P)
    BY <1>1 DEF Careful, Hasty, Makes, Late, FirmFrom, Firm, InPlace
  <2>2. Writing("cloudToGrid", P)
    BY <1>1 DEF Writing, NoData, Makes, Out, InPlace
  <2> QED BY <2>1, <2>2
<1>5. Using("cloudToGrid", P)
  BY <1>1 DEF Using, NoData, TargetOnly, OnTrees, Late, Look
<1> QED BY <1>3, <1>4, <1>5 DEF Rules, P

LEMMA GridToMeshRules == Rules("gridToMesh")
<1> DEFINE P == Program["gridToMesh"]
<1>1. /\ Len(P) = 8 /\ DOMAIN P = 1..8 /\ P[1] = MayFail
      /\ P[2] = OpenReadOnly("source", "grid") /\ P[3] = Read("source")
      /\ P[4] = Store("target", "mesh", TRUE) /\ P[5] = MayThrow /\ P[6] = MayFail
      /\ P[7] = Open("target", "mesh") /\ P[8] = Write("target")
  <2>1. P = <<MayFail, OpenReadOnly("source", "grid"), Read("source"),
              Store("target", "mesh", TRUE), MayThrow, MayFail>>
              \o <<Open("target", "mesh")>> \o <<Write("target")>>
    BY DEF Program, GridToMesh, GridSurface, WriteMesh
  <2> HIDE DEF P, MayFail, OpenReadOnly, Read, Store, MayThrow, Open, Write
  <2> QED BY <2>1
<1> HIDE DEF P
<1>2. \A i \in 1..8 : Shaped(P[i])
  <2>1. /\ Shaped(P[1]) /\ Shaped(P[2]) /\ Shaped(P[3]) /\ Shaped(P[4]) /\ Shaped(P[5])
        /\ Shaped(P[6]) /\ Shaped(P[7]) /\ Shaped(P[8])
    BY <1>1 DEF Shaped, Place, Type
  <2> QED BY <2>1
<1>3. Sane("gridToMesh", P) /\ Ending("gridToMesh", P)
  BY <1>1, <1>2 DEF Sane, Opens, InPlace, Ending, Filters
<1>4. Careful("gridToMesh", P) /\ Writing("gridToMesh", P)
  BY <1>1 DEF Careful, Hasty, Makes, Late, FirmFrom, Firm, Writing, NoData, Out, InPlace
<1>5. Using("gridToMesh", P)
  BY <1>1 DEF Using, NoData, TargetOnly, OnTrees, Late, Look
<1> QED BY <1>3, <1>4, <1>5 DEF Rules, P

LEMMA SmoothRules == Rules("smooth")
<1> DEFINE P == Program["smooth"]
<1>1. /\ Len(P) = 8 /\ DOMAIN P = 1..8 /\ P[1] = MayFail
      /\ P[2] = OpenReadOnly("source", "grid") /\ P[3] = Read("source")
      /\ P[4] = StoreMissing("target", "grid", TRUE)
      /\ P[5] = OpenReadOnly("target", "grid") /\ P[6] = MayThrow
      /\ P[7] = Open("target", "grid") /\ P[8] = Write("target")
  BY DEF Program, SmoothGrid
<1> HIDE DEF P
<1>2. \A i \in 1..8 : Shaped(P[i])
  <2>1. /\ Shaped(P[1]) /\ Shaped(P[2]) /\ Shaped(P[3]) /\ Shaped(P[4]) /\ Shaped(P[5])
        /\ Shaped(P[6]) /\ Shaped(P[7]) /\ Shaped(P[8])
    BY <1>1 DEF Shaped, Place, Type
  <2> QED BY <2>1
<1>3. Sane("smooth", P) /\ Ending("smooth", P)
  BY <1>1, <1>2 DEF Sane, Opens, InPlace, Ending, Filters
<1>4. Careful("smooth", P) /\ Writing("smooth", P)
  <2>1. Careful("smooth", P)
    BY <1>1 DEF Careful, Hasty, Makes, Late, FirmFrom, Firm, InPlace
  <2>2. Writing("smooth", P)
    BY <1>1 DEF Writing, NoData, Makes, Out, InPlace
  <2> QED BY <2>1, <2>2
<1>5. Using("smooth", P)
  BY <1>1 DEF Using, NoData, TargetOnly, OnTrees, Late, Look
<1> QED BY <1>3, <1>4, <1>5 DEF Rules, P

LEMMA AddRandomTfRules == Rules("addRandomTf")
<1> DEFINE P == Program["addRandomTf"]
<1>1. /\ Len(P) = 8 /\ DOMAIN P = 1..8 /\ P[1] = MayFail /\ P[2] = Find("source")
      /\ P[3] = MayFail /\ P[4] = StoreMissing("target", "tf", TRUE)
      /\ P[5] = OpenBlindly("target", "tf") /\ P[6] = Read("target")
      /\ P[7] = Write("target") /\ P[8] = Store("target", "tf", FALSE)
  BY DEF Program, AddRandomTf
<1> HIDE DEF P
<1>2. \A i \in 1..8 : Shaped(P[i])
  <2>1. /\ Shaped(P[1]) /\ Shaped(P[2]) /\ Shaped(P[3]) /\ Shaped(P[4]) /\ Shaped(P[5])
        /\ Shaped(P[6]) /\ Shaped(P[7]) /\ Shaped(P[8])
    BY <1>1 DEF Shaped, Place, Type
  <2> QED BY <2>1
<1>3. Sane("addRandomTf", P) /\ Ending("addRandomTf", P)
  BY <1>1, <1>2 DEF Sane, Opens, InPlace, Ending, Filters
<1>4. Careful("addRandomTf", P) /\ Writing("addRandomTf", P)
  <2>1. Careful("addRandomTf", P)
    BY <1>1 DEF Careful, Hasty, Makes, Late, FirmFrom, Firm, InPlace
  <2>2. Writing("addRandomTf", P)
    BY <1>1 DEF Writing, NoData, Makes, Out, InPlace
  <2> QED BY <2>1, <2>2
<1>5. Using("addRandomTf", P)
  BY <1>1 DEF Using, NoData, TargetOnly, OnTrees, Late, Look
<1> QED BY <1>3, <1>4, <1>5 DEF Rules, P

HIDE DEF MayFail, MayThrow, Find, Store, Storing, StoreMissing, IsOfType, Opening, Open, OpenBlindly,
         OpenAs, OpenReadOnly, ReadBlindly, Read, Write, CopyBytes, Delete

LEMMA AllRules == \A op \in Ops : Rules(op)
<1>1. \A op \in Operator : op \in {"copy", "delete", "edit", "loadPointcloud", "loadLas", "loadCsv", "loadAsset", "loadPrimitive", "loadPath", "loadBags", "voxelgrid", "grid", "normals", "scale", "mls", "centroid", "radius", "statistical", "uniform", "approximate", "surface", "lasToCloud", "cloudToGrid", "gridToMesh", "smooth", "addRandomTf"}
  BY DEF Operator, Program
<1> QED
  BY <1>1, OpsAssumption, CopyRules, DeleteRules, EditRules, LoadPointcloudRules, LoadLasRules, LoadCsvRules, LoadAssetRules, LoadPrimitiveRules, LoadPathRules, LoadBagsRules, VoxelgridRules, GridRules, NormalsRules, ScaleRules, MlsRules, CentroidRules, RadiusRules, StatisticalRules, UniformRules, ApproximateRules, SurfaceRules, LasToCloudRules, CloudToGridRules, GridToMeshRules, SmoothRules, AddRandomTfRules

-----------------------------------------------------------------------------
(* What the steps do to the run.                                           *)

RunType ==
    [op : Ops, tree : BOOLEAN, input : SUBSET Path, target : [Path -> Path],
     todo : SUBSET Path, at : Path, pc : Nat, held : Type \union {"none"},
     open : SUBSET [at : {"source", "target"}, type : Type, committed : BOOLEAN],
     sound : BOOLEAN, last : {"ok", "error"}, failed : BOOLEAN, after : BOOLEAN,
     status : {"running", "ok", "error", "ended"}]

(* What a run is asked for stays. *)
SameTask ==
    /\ run'.op = run.op /\ run'.tree = run.tree
    /\ run'.input = run.input /\ run'.target = run.target

(* One instruction is done and the next one follows. *)
Advances ==
    /\ SameTask
    /\ run'.pc = run.pc + 1 /\ run'.at = run.at /\ run'.todo = run.todo
    /\ run'.status = run.status /\ run'.last = run.last

LEMMA StepRun ==
    ASSUME run \in RunType, Step
    PROVE  /\ run' \in RunType /\ Advances
           /\ run'.held = run.held /\ run'.open = run.open /\ run'.sound = run.sound
BY DEF Step, RunType, Advances, SameTask

LEMMA HoldRun ==
    ASSUME run \in RunType, NEW t \in Type, run' = [run EXCEPT !.pc = @ + 1, !.held = t]
    PROVE  /\ run' \in RunType /\ Advances
           /\ run'.held = t /\ run'.open = run.open /\ run'.sound = run.sound
<1> DEFINE n == run.pc + 1
<1>0. run' = [run EXCEPT !.pc = n, !.held = t] /\ n \in Nat /\ t \in Type \union {"none"}
  BY DEF RunType, Place
<1> HIDE DEF n
<1>1. /\ run'.op = run.op /\ run'.tree = run.tree /\ run'.input = run.input
      /\ run'.target = run.target /\ run'.todo = run.todo /\ run'.at = run.at
      /\ run'.pc = n /\ run'.last = run.last /\ run'.status = run.status
  BY <1>0 DEF RunType
<1>2. run'.held = t /\ run'.open = run.open /\ run'.sound = run.sound
  BY <1>0 DEF RunType
<1>3. run' \in RunType
  BY <1>0 DEF RunType
<1> QED BY <1>1, <1>2, <1>3 DEF Advances, SameTask, n

LEMMA OpenRun ==
    ASSUME run \in RunType, NEW o \in SUBSET [at : Place, type : Type, committed : BOOLEAN],
           run' = [run EXCEPT !.pc = @ + 1, !.open = o]
    PROVE  /\ run' \in RunType /\ Advances
           /\ run'.held = run.held /\ run'.open = o /\ run'.sound = run.sound
<1> DEFINE n == run.pc + 1
<1>0. run' = [run EXCEPT !.pc = n, !.open = o] /\ n \in Nat /\ o \in SUBSET [at : {"source", "target"}, type : Type, committed : BOOLEAN]
  BY DEF RunType, Place
<1> HIDE DEF n
<1>1. /\ run'.op = run.op /\ run'.tree = run.tree /\ run'.input = run.input
      /\ run'.target = run.target /\ run'.todo = run.todo /\ run'.at = run.at
      /\ run'.pc = n /\ run'.last = run.last /\ run'.status = run.status
  BY <1>0 DEF RunType
<1>2. run'.held = run.held /\ run'.open = o /\ run'.sound = run.sound
  BY <1>0 DEF RunType
<1>3. run' \in RunType
  BY <1>0 DEF RunType
<1> QED BY <1>1, <1>2, <1>3 DEF Advances, SameTask, n

LEMMA ReadRun ==
    ASSUME run \in RunType, NEW s \in BOOLEAN, run' = [run EXCEPT !.pc = @ + 1, !.sound = s]
    PROVE  /\ run' \in RunType /\ Advances
           /\ run'.held = run.held /\ run'.open = run.open /\ run'.sound = s
<1> DEFINE n == run.pc + 1
<1>0. run' = [run EXCEPT !.pc = n, !.sound = s] /\ n \in Nat /\ s \in BOOLEAN
  BY DEF RunType, Place
<1> HIDE DEF n
<1>1. /\ run'.op = run.op /\ run'.tree = run.tree /\ run'.input = run.input
      /\ run'.target = run.target /\ run'.todo = run.todo /\ run'.at = run.at
      /\ run'.pc = n /\ run'.last = run.last /\ run'.status = run.status
  BY <1>0 DEF RunType
<1>2. run'.held = run.held /\ run'.open = run.open /\ run'.sound = s
  BY <1>0 DEF RunType
<1>3. run' \in RunType
  BY <1>0 DEF RunType
<1> QED BY <1>1, <1>2, <1>3 DEF Advances, SameTask, n

LEMMA WriteRun ==
    ASSUME run \in RunType, run' = [run EXCEPT !.pc = @ + 1, !.after = run.failed]
    PROVE  /\ run' \in RunType /\ Advances
           /\ run'.held = run.held /\ run'.open = run.open /\ run'.sound = run.sound
<1> DEFINE n == run.pc + 1
<1>0. run' = [run EXCEPT !.pc = n, !.after = run.failed] /\ n \in Nat /\ run.failed \in BOOLEAN
  BY DEF RunType, Place
<1> HIDE DEF n
<1>1. /\ run'.op = run.op /\ run'.tree = run.tree /\ run'.input = run.input
      /\ run'.target = run.target /\ run'.todo = run.todo /\ run'.at = run.at
      /\ run'.pc = n /\ run'.last = run.last /\ run'.status = run.status
  BY <1>0 DEF RunType
<1>2. run'.held = run.held /\ run'.open = run.open /\ run'.sound = run.sound
  BY <1>0 DEF RunType
<1>3. run' \in RunType
  BY <1>0 DEF RunType
<1> QED BY <1>1, <1>2, <1>3 DEF Advances, SameTask, n

(* The work on a path ends, with a status. *)
Finishes(status) ==
    /\ SameTask
    /\ run'.pc = 0 /\ run'.at = run.at /\ run'.todo = run.todo /\ run'.open = {}
    /\ IF run.tree \/ (status = "ok" /\ run.op \in OnLists)
       THEN run'.status = run.status /\ run'.last = status
       ELSE run'.status = status /\ run'.last = run.last

LEMMA DoneRun ==
    ASSUME run \in RunType, NEW status \in {"ok", "error"}, WorkDone(status)
    PROVE  run' \in RunType /\ Finishes(status)
<1>1. CASE run.tree \/ (status = "ok" /\ run.op \in OnLists)
  <2>1. run' = [run EXCEPT !.pc = 0, !.open = {}, !.last = status, !.failed = @ \/ status = "error"]
    BY <1>1 DEF WorkDone
  <2> QED BY <1>1, <2>1 DEF RunType, Finishes, SameTask
<1>2. CASE ~(run.tree \/ (status = "ok" /\ run.op \in OnLists))
  <2>1. run' = [run EXCEPT !.status = status, !.pc = 0, !.open = {}]
    BY <1>2 DEF WorkDone
  <2> QED BY <1>2, <2>1 DEF RunType, Finishes, SameTask
<1> QED BY <1>1, <1>2

(* The process ends. *)
Breaks ==
    /\ SameTask
    /\ run'.pc = 0 /\ run'.at = run.at /\ run'.todo = run.todo
    /\ run'.status = "ended" /\ run'.last = run.last

LEMMA EndRun ==
    ASSUME run \in RunType, Ends
    PROVE  run' \in RunType /\ Breaks
BY DEF Ends, RunType, Breaks, SameTask

LEMMA BeginRun ==
    ASSUME run \in RunType, NEW p \in Path, BeginWork(p)
    PROVE  /\ run' \in RunType /\ SameTask
           /\ run'.todo = run.todo \ {p} /\ run'.at = p /\ run'.sound = TRUE
           /\ run'.pc \in {0, 1} /\ (run'.pc = 0 => run.tree)
           /\ run'.status = "running" /\ run'.last = run.last
           /\ run'.held = run.held /\ run'.open = run.open
<1> DEFINE pc == IF run.tree /\ ~Transient(p) THEN 0 ELSE 1
<1>1. run' = [run EXCEPT !.todo = @ \ {p}, !.at = p, !.sound = TRUE, !.pc = pc] /\ run.status = "running"
  BY DEF BeginWork
<1>2. pc \in {0, 1} /\ (pc = 0 => run.tree)
  OBVIOUS
<1> HIDE DEF pc
<1>3. run.todo \ {p} \in SUBSET Path /\ pc \in Nat
  BY <1>2 DEF RunType
<1> DEFINE todo == run.todo \ {p}
<1>4. run' = [run EXCEPT !.todo = todo, !.at = p, !.sound = TRUE, !.pc = pc]
  BY <1>1
<1> HIDE DEF todo
<1>5. run' \in RunType
  BY <1>3, <1>4 DEF RunType, todo
<1>6. /\ run'.op = run.op /\ run'.tree = run.tree /\ run'.input = run.input
      /\ run'.target = run.target /\ run'.todo = todo /\ run'.at = p /\ run'.sound = TRUE
      /\ run'.pc = pc /\ run'.last = run.last /\ run'.status = run.status
      /\ run'.held = run.held /\ run'.open = run.open
  BY <1>4 DEF RunType
<1> QED BY <1>1, <1>2, <1>5, <1>6 DEF SameTask, todo

LEMMA EndsRun ==
    ASSUME run \in RunType, RunEnds
    PROVE  /\ run' \in RunType /\ SameTask
           /\ run'.pc = 0 /\ run'.at = run.at /\ run'.todo = run.todo /\ run'.last = run.last
           /\ run'.status = IF run.op = "copy" THEN "ok" ELSE IF run.op = "scale" THEN "error" ELSE run.last
<1> DEFINE s == IF run.op = "copy" THEN "ok" ELSE IF run.op = "scale" THEN "error" ELSE run.last
<1>1. run' = [run EXCEPT !.status = s] /\ run.pc = 0
  BY DEF RunEnds
<1>2. s \in {"ok", "error"}
  BY DEF RunType
<1> HIDE DEF s
<1>3. run' \in RunType /\ SameTask /\ run'.pc = 0 /\ run'.at = run.at /\ run'.todo = run.todo
        /\ run'.last = run.last /\ run'.status = s
  BY <1>1, <1>2 DEF RunType, SameTask
<1> QED BY <1>3 DEF s

-----------------------------------------------------------------------------
(* Type correctness: nothing is used that was not looked up before.        *)

Prog == Program[run.op]
Going == run.status = "running"

(* Where the run stands among its paths. *)
Working ==
    /\ run.at \in run.input /\ run.todo \subseteq run.input
    /\ run.op \notin OnTrees => ~run.tree
    /\ ~run.tree => run.last = "ok"
    /\ Going /\ run.pc = 0 => run.open = {}
    /\ Single /\ Going => /\ run.pc = 0 /\ run.todo = {} => run.op \in OnLists
                          /\ run.pc # 0 => run.todo = {}

(* What the instructions before the next one have looked up. *)
Held ==
    Going => \A j \in 1..(run.pc - 1) : Prog[j].do \in {"find", "store"} => run.held # "none"

Opened ==
    Going =>
    /\ \A j \in 1..(run.pc - 1) : Prog[j].do = "open" => \E h \in run.open : h.at = Prog[j].at
    /\ \A h \in run.open : \E j \in 1..(run.pc - 1) :
          Prog[j].do = "open" /\ Prog[j].at = h.at /\ Prog[j].type \in {"any", h.type}
    /\ \A h, g \in run.open : h.at = g.at => h = g

RunInv == TypeOK /\ Working /\ Held /\ Opened

LEMMA TypeOKIs ==
    TypeOK <=> /\ entity \in [Path -> Entity \union {None}]
               /\ data \in [Path -> Data \union {None}]
               /\ run \in RunType
               /\ run.pc <= Len(Prog) + 1
               /\ meddles \in 0..MaxMeddles
BY DEF TypeOK, RunType, Prog

(* The rules of the program that runs. *)
LEMMA RulesHold ==
    ASSUME run \in RunType
    PROVE  /\ Sane(run.op, Prog) /\ Ending(run.op, Prog)
           /\ Careful(run.op, Prog) /\ Writing(run.op, Prog) /\ Using(run.op, Prog)
           /\ Len(Prog) \in Nat /\ DOMAIN Prog = 1..Len(Prog) /\ run.op \in Ops /\ run.pc \in Nat
<1>1. run.op \in Ops /\ run.pc \in Nat
  BY DEF RunType
<1>2. Rules(run.op)
  BY <1>1, AllRules
<1> QED BY <1>1, <1>2 DEF Rules, Prog, Sane

LEMMA SameProg ==
    ASSUME SameTask
    PROVE  Prog' = Prog /\ Single' = Single
BY DEF SameTask, Prog, Single

(* The instruction that runs. *)
LEMMA Running ==
    ASSUME run \in RunType, NEW what, Runs(what)
    PROVE  /\ Going /\ run.pc \in 1..Len(Prog) /\ Instruction = Prog[run.pc]
           /\ Prog[run.pc].do = what /\ Shaped(Prog[run.pc])
<1>1. Going /\ run.pc \in DOMAIN Prog /\ Instruction = Prog[run.pc] /\ Instruction.do = what
  BY DEF Runs, Going, Prog, Instruction
<1>2. run.pc \in 1..Len(Prog)
  BY <1>1, RulesHold
<1>3. Shaped(Prog[run.pc])
  BY <1>2, RulesHold DEF Sane
<1> QED BY <1>1, <1>2, <1>3

LEMMA WorkingAdvances ==
    ASSUME RunInv, Advances, Going, run.pc # 0
    PROVE  Working'
<1>1. run.pc \in Nat
  BY TypeOKIs, RulesHold DEF RunInv
<1>2. run'.pc # 0
  BY <1>1 DEF Advances
<1> QED BY <1>2, SameProg DEF RunInv, Working, Advances, SameTask, Going

LEMMA HeldAdvances ==
    ASSUME RunInv, Advances, Going, run.pc # 0,
           \/ run'.held = run.held /\ Prog[run.pc].do \notin {"find", "store"}
           \/ run'.held # "none"
    PROVE  Held'
<1>1. run.pc \in Nat /\ run'.pc = run.pc + 1 /\ Prog' = Prog
  BY TypeOKIs, RulesHold, SameProg DEF RunInv, Advances
<1> SUFFICES ASSUME NEW j \in 1..run.pc, Prog[j].do \in {"find", "store"}
             PROVE  run'.held # "none"
  BY <1>1 DEF Held
<1>2. CASE j = run.pc
  BY <1>2
<1>3. CASE j # run.pc
  <2>1. j \in 1..(run.pc - 1)
    BY <1>1, <1>3
  <2>2. run.held # "none"
    BY <2>1 DEF RunInv, Held
  <2> QED BY <2>2
<1> QED BY <1>2, <1>3

LEMMA OpenedAdvances ==
    ASSUME RunInv, Advances, Going, run.pc # 0,
           \/ Prog[run.pc].do # "open" /\ run'.open = run.open
           \/ /\ Prog[run.pc].do = "open"
              /\ \E new : /\ new.at = Prog[run.pc].at /\ Prog[run.pc].type \in {"any", new.type}
                          /\ run'.open = {h \in run.open : h.at # Prog[run.pc].at} \union {new}
    PROVE  Opened'
<1>1. run.pc \in Nat /\ run'.pc = run.pc + 1 /\ Prog' = Prog
  BY TypeOKIs, RulesHold, SameProg DEF RunInv, Advances
<1>2. Opened /\ \A j \in 1..((run.pc + 1) - 1) : j = run.pc \/ j \in 1..(run.pc - 1)
  BY <1>1 DEF RunInv
<1>3. \A j \in 1..(run.pc - 1) : j \in 1..((run.pc + 1) - 1)
  BY <1>1
<1>4. CASE Prog[run.pc].do # "open" /\ run'.open = run.open
  BY <1>1, <1>2, <1>3, <1>4 DEF Opened
<1>5. CASE Prog[run.pc].do = "open"
  <2>1. PICK new : /\ new.at = Prog[run.pc].at /\ Prog[run.pc].type \in {"any", new.type}
                   /\ run'.open = {h \in run.open : h.at # Prog[run.pc].at} \union {new}
    BY <1>5
  <2>2. \A j \in 1..((run.pc + 1) - 1) : Prog[j].do = "open" => \E h \in run'.open : h.at = Prog[j].at
    BY <1>2, <2>1 DEF Opened
  <2>3. run.pc \in 1..((run.pc + 1) - 1)
    BY <1>1
  <2>4. \A h \in run'.open : \E j \in 1..((run.pc + 1) - 1) :
          Prog[j].do = "open" /\ Prog[j].at = h.at /\ Prog[j].type \in {"any", h.type}
    BY <1>2, <1>3, <1>5, <2>1, <2>3 DEF Opened
  <2>5. \A h, g \in run'.open : h.at = g.at => h = g
    BY <1>2, <2>1 DEF Opened
  <2> QED BY <1>1, <2>2, <2>4, <2>5 DEF Opened
<1> QED BY <1>4, <1>5

(* The next instruction. *)
LEMMA InvAdvances ==
    ASSUME RunInv, NEW what, Runs(what), Advances, run' \in RunType,
           entity' \in [Path -> Entity \union {None}], data' \in [Path -> Data \union {None}],
           meddles' = meddles,
           (run'.held = run.held /\ what \notin {"find", "store"}) \/ run'.held # "none",
           what # "open" => run'.open = run.open,
           what = "open" =>
              \E new : /\ new.at = Instruction.at /\ Instruction.type \in {"any", new.type}
                       /\ run'.open = {h \in run.open : h.at # Instruction.at} \union {new}
    PROVE  RunInv'
<1>1. /\ Going /\ run.pc \in 1..Len(Prog) /\ Prog[run.pc].do = what /\ Instruction = Prog[run.pc]
      /\ Len(Prog) \in Nat /\ run.pc # 0
  BY Running, RulesHold, TypeOKIs DEF RunInv
<1>2. run'.pc <= Len(Prog') + 1
  BY <1>1, SameProg DEF Advances
<1>3. TypeOK'
  BY <1>2, TypeOKIs DEF RunInv, TypeOK, RunType, Prog
<1> QED BY <1>1, <1>3, WorkingAdvances, HeldAdvances, OpenedAdvances DEF RunInv

LEMMA InvFinishes ==
    ASSUME RunInv, Going, NEW status \in {"ok", "error"}, WorkDone(status), 
           entity' \in [Path -> Entity \union {None}], data' \in [Path -> Data \union {None}],
           meddles' = meddles
    PROVE  RunInv' /\ Finishes(status)
<1>1. run' \in RunType /\ Finishes(status)
  BY TypeOKIs, DoneRun DEF RunInv
<1>2. TypeOK'
  BY <1>1, RulesHold, SameProg, TypeOKIs DEF RunInv, TypeOK, RunType, Prog, Finishes
<1>3. Working'
  <2>1. Working /\ Single' = Single /\ run'.op = run.op /\ run'.tree = run.tree /\ run'.open = {}
          /\ run'.at = run.at /\ run'.todo = run.todo /\ run'.input = run.input /\ run'.pc = 0
    BY <1>1, SameProg DEF RunInv, Finishes, SameTask
  <2>2. CASE run.tree \/ (status = "ok" /\ run.op \in OnLists)
    <3>1. run'.last = status /\ run'.status = run.status
      BY <1>1, <2>2 DEF Finishes
    <3> QED BY <2>1, <2>2, <3>1 DEF Working, Single
  <2>3. CASE ~(run.tree \/ (status = "ok" /\ run.op \in OnLists))
    <3>1. run'.last = run.last /\ run'.status = status
      BY <1>1, <2>3 DEF Finishes
    <3> QED BY <2>1, <2>3, <3>1 DEF Working, Going
  <2> QED BY <2>2, <2>3
<1>4. Held' /\ Opened'
  BY <1>1 DEF Held, Opened, Finishes
<1> QED BY <1>1, <1>2, <1>3, <1>4 DEF RunInv

LEMMA InvBreaks ==
    ASSUME RunInv, Going, Ends, 
           entity' \in [Path -> Entity \union {None}], data' \in [Path -> Data \union {None}],
           meddles' = meddles
    PROVE  RunInv' /\ Breaks
<1>1. run' \in RunType /\ Breaks
  BY TypeOKIs, EndRun DEF RunInv
<1>2. TypeOK'
  BY <1>1, RulesHold, SameProg, TypeOKIs DEF RunInv, TypeOK, RunType, Prog, Breaks
<1>3. Working'
  BY <1>1, SameProg DEF RunInv, Working, Breaks, SameTask, Going
<1>4. Held' /\ Opened'
  BY <1>1 DEF Held, Opened, Breaks, Going
<1> QED BY <1>1, <1>2, <1>3, <1>4 DEF RunInv

-----------------------------------------------------------------------------
(* What the instructions do.                                               *)

I == Prog[run.pc]

FailStatus == IF run.op = "copy" /\ ~run.tree THEN "ok" ELSE "error"

(* Nothing but the run changes. *)
Keeps == entity' = entity /\ data' = data /\ meddles' = meddles /\ first' = first

LooksUp(held, open, sound) ==
    Advances /\ run'.held = held /\ run'.open = open /\ run'.sound = sound

Instructs(what) ==
    /\ Going /\ run.pc \in 1..Len(Prog) /\ I.do = what /\ Shaped(I)
    /\ Instruction = I /\ Runs(what)

LEMMA AtPath ==
    ASSUME TypeOK
    PROVE  \A w : At(w) \in Path
BY PathAssumption DEF TypeOK, At, TargetOf

LEMMA EnvTypes ==
    ASSUME TypeOK
    PROVE  /\ entity \in [Path -> Entity \union {None}] /\ data \in [Path -> Data \union {None}]
           /\ run \in RunType /\ meddles \in 0..MaxMeddles
           /\ \A p \in Path : Exists(p) => entity[p] \in Entity /\ entity[p].type \in Type
                                           /\ entity[p].committed \in BOOLEAN
BY TypeOKIs DEF Exists, Entity

LEMMA InstructionRuns ==
    ASSUME RunInv, NEW what, Runs(what)
    PROVE  Instructs(what)
BY TypeOKIs, Running DEF RunInv, Instructs, I

LEMMA FailingFinishes ==
    ASSUME RunInv, Going, Fails, Keeps
    PROVE  RunInv' /\ Finishes(FailStatus)
<1>1. FailStatus \in {"ok", "error"} /\ WorkDone(FailStatus)
  BY DEF Fails, FailStatus
<1>2. entity' \in [Path -> Entity \union {None}] /\ data' \in [Path -> Data \union {None}] /\ meddles' = meddles
  BY TypeOKIs DEF RunInv, Keeps
<1> QED BY <1>1, <1>2, InvFinishes

LEMMA BreakingEnds ==
    ASSUME RunInv, Going, Ends, Keeps
    PROVE  RunInv' /\ Breaks
<1>1. entity' \in [Path -> Entity \union {None}] /\ data' \in [Path -> Data \union {None}] /\ meddles' = meddles
  BY TypeOKIs DEF RunInv, Keeps
<1> QED BY <1>1, InvBreaks

LEMMA StoppingDoes ==
    ASSUME RunInv, Going, NEW how \in {"error", "throws"}, Stops(how), Keeps
    PROVE  /\ RunInv'
           /\ \/ how = "error" /\ Finishes(FailStatus)
              \/ how = "throws" /\ Breaks
BY FailingFinishes, BreakingEnds DEF Stops

(* The next instruction, when nothing but the run changes. *)
LEMMA KeepingAdvances ==
    ASSUME RunInv, NEW what, Runs(what), Advances, run' \in RunType, Keeps,
           (run'.held = run.held /\ what \notin {"find", "store"}) \/ run'.held # "none",
           run'.open = run.open, what # "open"
    PROVE  RunInv'
<1>1. entity' \in [Path -> Entity \union {None}] /\ data' \in [Path -> Data \union {None}] /\ meddles' = meddles
  BY TypeOKIs DEF RunInv, Keeps
<1> QED BY <1>1, InvAdvances

LEMMA FailDoes ==
    ASSUME RunInv, DoFail
    PROVE  /\ RunInv' /\ Keeps /\ Instructs("fail")
           /\ \/ LooksUp(run.held, run.open, run.sound)
              \/ I.how = "error" /\ Finishes(FailStatus)
              \/ I.how = "throws" /\ Breaks
<1>1. Keeps /\ Instructs("fail") /\ (Step \/ Stops(I.how))
  BY InstructionRuns DEF DoFail, Keeps, Instructs
<1>2. I.how \in {"error", "throws"}
  BY <1>1 DEF Instructs, Shaped
<1>3. CASE Step
  <2>1. run \in RunType
    BY TypeOKIs DEF RunInv
  <2> QED BY <1>1, <1>3, <2>1, StepRun, KeepingAdvances DEF LooksUp, Instructs
<1>4. CASE Stops(I.how)
  BY <1>1, <1>2, <1>4, StoppingDoes DEF Instructs
<1> QED BY <1>1, <1>3, <1>4

LEMMA FindDoes ==
    ASSUME RunInv, DoFind
    PROVE  /\ RunInv' /\ Keeps /\ Instructs("find")
           /\ \/ /\ Exists(At(I.at))
                 /\ LooksUp(entity[At(I.at)].type, run.open, run.sound)
              \/ ~Exists(At(I.at)) /\ Finishes(FailStatus)
<1> DEFINE p == At(I.at)
           t == entity[p].type
<1>1. /\ Keeps /\ Instructs("find")
      /\ IF Exists(p) THEN run' = [run EXCEPT !.pc = @ + 1, !.held = t] ELSE Fails
  BY InstructionRuns DEF DoFind, Keeps, Instructs
<1>2. p \in Path /\ run \in RunType
  BY AtPath, TypeOKIs DEF RunInv
<1>3. Exists(p) => t \in Type
  BY <1>2, EnvTypes DEF RunInv
<1> HIDE DEF p, t
<1>4. CASE Exists(p)
  <2>1. t # "none"
    BY <1>3, <1>4 DEF Type
  <2> QED BY <1>1, <1>2, <1>3, <1>4, <2>1, HoldRun, KeepingAdvances DEF LooksUp, Instructs, p, t
<1>5. CASE ~Exists(p)
  BY <1>1, <1>5, FailingFinishes DEF Instructs, p
<1> QED BY <1>4, <1>5

LEMMA IsOfTypeDoes ==
    ASSUME RunInv, DoIsOfType
    PROVE  /\ RunInv' /\ Keeps /\ Instructs("type")
           /\ \/ run.held = I.type /\ LooksUp(run.held, run.open, run.sound)
              \/ run.held # I.type /\ Finishes(FailStatus)
<1>1. Keeps /\ Instructs("type") /\ IF run.held = I.type THEN Step ELSE Fails
  BY InstructionRuns DEF DoIsOfType, Keeps, Instructs
<1>2. run \in RunType
  BY TypeOKIs DEF RunInv
<1>3. CASE run.held = I.type
  BY <1>1, <1>2, <1>3, StepRun, KeepingAdvances DEF LooksUp, Instructs
<1>4. CASE run.held # I.type
  BY <1>1, <1>4, FailingFinishes DEF Instructs
<1> QED BY <1>3, <1>4

(* The type of the entity that is stored. *)
StoredType == IF I.type = "held" THEN run.held ELSE I.type

Puts(p, t) == entity' = [entity EXCEPT ![p] = [type |-> t, committed |-> FALSE]]

KeepsData == data' = data /\ meddles' = meddles /\ first' = first

LEMMA StoreDoes ==
    ASSUME RunInv, DoStore
    PROVE  /\ RunInv' /\ KeepsData /\ Instructs("store") /\ I.at = "target" /\ StoredType \in Type
           /\ \/ /\ ~I.known /\ Exists(At("target")) /\ entity' = entity
                 /\ LooksUp(entity[At("target")].type, run.open, run.sound)
              \/ /\ I.known \/ ~Exists(At("target"))
                 /\ Puts(At("target"), StoredType)
                 /\ LooksUp(StoredType, run.open, run.sound)
              \/ /\ I.known \/ ~Exists(At("target"))
                 /\ entity' = entity /\ ~I.checked
                 /\ LooksUp(StoredType, run.open, run.sound)
              \/ /\ I.known \/ ~Exists(At("target"))
                 /\ entity' = entity /\ I.checked
                 /\ Finishes(FailStatus)
<1> DEFINE p == At("target")
           t == StoredType
           Hold(x) == run' = [run EXCEPT !.pc = @ + 1, !.held = x]
<1>1. Instructs("store")
  BY InstructionRuns DEF DoStore
<1>2. I.at = "target" /\ I.type \in Type \union {"held"}
  BY <1>1 DEF Instructs, Shaped
<1>3. /\ KeepsData
      /\ \/ ~I.known /\ Exists(p) /\ Hold(entity[p].type) /\ entity' = entity
         \/ (I.known \/ ~Exists(p)) /\ Puts(p, t) /\ Hold(t)
         \/ (I.known \/ ~Exists(p)) /\ (IF I.checked THEN Fails ELSE Hold(t)) /\ entity' = entity
  BY <1>1, <1>2 DEF DoStore, Instructs, KeepsData, StoredType, Puts
<1>4. run.held \in Type \union {"none"} /\ run \in RunType
  BY TypeOKIs DEF RunInv, RunType
<1>5. t \in Type
  <2>1. CASE I.type = "held"
    <3>1. PICK j \in 1..(run.pc - 1) : Prog[j].do \in {"find", "store"}
      BY <1>1, <1>4, <2>1, RulesHold DEF Instructs, Sane, I
    <3>2. run.held # "none"
      BY <1>1, <3>1 DEF Instructs, RunInv, Held
    <3> QED BY <1>4, <2>1, <3>2 DEF StoredType
  <2>2. CASE I.type # "held"
    BY <1>2, <2>2 DEF StoredType
  <2> QED BY <2>1, <2>2
<1>6. p \in Path /\ \A x \in Type : x # "none"
  BY AtPath DEF RunInv, Type
<1>7. /\ entity \in [Path -> Entity \union {None}] /\ data \in [Path -> Data \union {None}]
      /\ Exists(p) => entity[p].type \in Type
  BY <1>6, EnvTypes DEF RunInv
<1>8. Puts(p, t) => entity' \in [Path -> Entity \union {None}]
  <2>1. [type |-> t, committed |-> FALSE] \in Entity
    BY <1>5 DEF Entity
  <2> QED BY <1>6, <1>7, <2>1 DEF Puts
<1> HIDE DEF p, t
<1>9. ASSUME NEW x \in Type, Hold(x), entity' \in [Path -> Entity \union {None}]
      PROVE  RunInv' /\ LooksUp(x, run.open, run.sound)
  <2>1. run' \in RunType /\ LooksUp(x, run.open, run.sound)
    BY <1>4, <1>9, HoldRun DEF LooksUp
  <2>2. data' \in [Path -> Data \union {None}] /\ meddles' = meddles
    BY <1>3, <1>7 DEF KeepsData
  <2>3. x # "none"
    BY <1>6
  <2> QED BY <1>1, <1>9, <2>1, <2>2, <2>3, InvAdvances DEF LooksUp, Instructs
<1>10. CASE ~I.known /\ Exists(p) /\ Hold(entity[p].type) /\ entity' = entity
  BY <1>1, <1>2, <1>3, <1>5, <1>7, <1>9, <1>10 DEF p, t
<1>11. CASE (I.known \/ ~Exists(p)) /\ Puts(p, t) /\ Hold(t)
  BY <1>1, <1>2, <1>3, <1>5, <1>8, <1>9, <1>11 DEF p, t
<1>12. CASE (I.known \/ ~Exists(p)) /\ ~I.checked /\ Hold(t) /\ entity' = entity
  BY <1>1, <1>2, <1>3, <1>5, <1>7, <1>9, <1>12 DEF p, t
<1>13. CASE (I.known \/ ~Exists(p)) /\ I.checked /\ Fails /\ entity' = entity
  <2>1. Keeps /\ Going
    BY <1>1, <1>3, <1>13 DEF KeepsData, Keeps, Instructs
  <2>2. RunInv' /\ Finishes(FailStatus)
    BY <2>1, <1>13, FailingFinishes
  <2> QED BY <1>1, <1>2, <1>3, <1>5, <1>13, <2>2 DEF p, t
<1> QED BY <1>3, <1>10, <1>11, <1>12, <1>13

(* Data that can be opened. *)
Openable == IF I.writes THEN Transient(At(I.at)) ELSE Exists(At(I.at))

OpenedType == IF I.type = "any" THEN entity[At(I.at)].type ELSE I.type

NewHandle == [at |-> I.at, type |-> OpenedType, committed |-> entity[At(I.at)].committed]

LEMMA OpenDoes ==
    ASSUME RunInv, DoOpen
    PROVE  /\ RunInv' /\ Keeps /\ Instructs("open") /\ I.at \in Place
           /\ \/ ~Openable /\ I.null = "error" /\ Finishes(FailStatus)
              \/ ~Openable /\ I.null = "throws" /\ Breaks
              \/ /\ Openable /\ I.looks /\ entity[At(I.at)].type # OpenedType
                 /\ Finishes(FailStatus)
              \/ /\ Openable /\ (I.looks => entity[At(I.at)].type = OpenedType)
                 /\ LooksUp(run.held, {h \in run.open : h.at # I.at} \union {NewHandle}, run.sound)
<1> DEFINE p == At(I.at)
           o == {h \in run.open : h.at # I.at} \union {NewHandle}
<1>1. Instructs("open")
  BY InstructionRuns DEF DoOpen
<1>2. /\ I.at \in Place /\ I.type \in Type \union {"any"} /\ I.null \in {"error", "throws"}
      /\ I.looks \in BOOLEAN /\ I.writes \in BOOLEAN
  BY <1>1 DEF Instructs, Shaped
<1>3. /\ Keeps
      /\ IF ~Openable THEN Stops(I.null)
         ELSE IF I.looks /\ entity[p].type # OpenedType THEN Fails
         ELSE run' = [run EXCEPT !.pc = @ + 1, !.open = o]
  <2>1. Keeps /\ Instruction = I
    BY <1>1 DEF DoOpen, Instructs, Keeps
  <2>2. IF ~Openable THEN Stops(I.null)
         ELSE IF I.looks /\ entity[p].type # OpenedType THEN Fails
         ELSE run' = [run EXCEPT !.pc = @ + 1, !.open = o]
    BY <2>1 DEF DoOpen, Openable, OpenedType, NewHandle
  <2> QED BY <2>1, <2>2
<1>4. CASE ~Openable
  BY <1>1, <1>2, <1>3, <1>4, StoppingDoes DEF Instructs
<1>5. CASE Openable /\ I.looks /\ entity[p].type # OpenedType
  BY <1>1, <1>2, <1>3, <1>5, FailingFinishes DEF Instructs
<1>6. CASE Openable /\ (I.looks => entity[p].type = OpenedType)
  <2>1. run' = [run EXCEPT !.pc = @ + 1, !.open = o]
    BY <1>2, <1>3, <1>6
  <2>2. p \in Path /\ run \in RunType
    BY AtPath, TypeOKIs DEF RunInv
  <2>3. entity[p].type \in Type /\ entity[p].committed \in BOOLEAN
    BY <1>6, <2>2, EnvTypes DEF RunInv, Openable, Transient
  <2>4. OpenedType \in Type /\ I.type \in {"any", OpenedType}
    BY <1>2, <2>3 DEF OpenedType
  <2>5. NewHandle \in [at : Place, type : Type, committed : BOOLEAN]
    BY <1>2, <2>3, <2>4 DEF NewHandle
  <2>6. o \in SUBSET [at : Place, type : Type, committed : BOOLEAN]
    BY <2>2, <2>5 DEF RunType, Place
  <2>7. NewHandle.at = I.at /\ I.type \in {"any", NewHandle.type}
    BY <2>4 DEF NewHandle
  <2>8. run' \in RunType /\ LooksUp(run.held, o, run.sound)
    BY <2>1, <2>2, <2>6, OpenRun DEF LooksUp
  <2>9. entity' \in [Path -> Entity \union {None}] /\ data' \in [Path -> Data \union {None}] /\ meddles' = meddles
    BY <1>3, TypeOKIs DEF RunInv, Keeps
  <2>10. run'.open = o /\ run'.held = run.held /\ Advances /\ Runs("open") /\ Instruction = I
    BY <1>1, <2>8 DEF LooksUp, Instructs
  <2>11. RunInv'
    BY <2>7, <2>8, <2>9, <2>10, InvAdvances
  <2> QED BY <1>1, <1>2, <1>3, <1>6, <2>8, <2>11
<1> QED BY <1>2, <1>4, <1>5, <1>6

(* What was opened can be got at. *)
LEMMA HandleIs ==
    ASSUME RunInv, NEW w, NEW what, Instructs(what), Opens(Prog, run.pc, w)
    PROVE  /\ Handle(w) \in run.open /\ Handle(w).at = w /\ Handle(w).type \in Type
           /\ Handle(w).committed \in BOOLEAN
           /\ \A h \in run.open : h.at = w => h = Handle(w)
<1>1. PICK j \in 1..(run.pc - 1) : Prog[j].do = "open" /\ Prog[j].at = w
  BY DEF Opens
<1>2. \E h \in run.open : h.at = w
  BY <1>1 DEF RunInv, Opened, Instructs
<1>3. Handle(w) \in run.open /\ Handle(w).at = w
  BY <1>2 DEF Handle
<1>4. run.open \in SUBSET [at : {"source", "target"}, type : Type, committed : BOOLEAN]
  BY TypeOKIs DEF RunInv, RunType
<1>5. \A h \in run.open : h.at = w => h = Handle(w)
  BY <1>3 DEF RunInv, Opened, Instructs
<1> QED BY <1>3, <1>4, <1>5

LEMMA ReadDoes ==
    ASSUME RunInv, DoRead
    PROVE  /\ RunInv' /\ Keeps /\ Instructs("read") /\ Opens(Prog, run.pc, I.at)
           /\ \/ /\ Readable(I.at)
                 /\ LooksUp(run.held, run.open, run.sound /\ data[At(I.at)].from # "nothing")
              \/ /\ ~Readable(I.at) /\ Handle(I.at).type \in {"las", "grid", "mesh"}
                 /\ Breaks
              \/ /\ ~Readable(I.at) /\ Handle(I.at).type \notin {"las", "grid", "mesh"}
                 /\ LooksUp(run.held, run.open, run.sound /\ Handle(I.at).type = "tf")
<1> DEFINE w == I.at
           s1 == run.sound /\ data[At(w)].from # "nothing"
           s2 == run.sound /\ Handle(w).type = "tf"
<1>1. Instructs("read") /\ Keeps
  BY InstructionRuns DEF DoRead, Keeps
<1>2. IF Readable(w) THEN run' = [run EXCEPT !.pc = @ + 1, !.sound = s1]
      ELSE IF Handle(w).type \in {"las", "grid", "mesh"} THEN Ends
      ELSE run' = [run EXCEPT !.pc = @ + 1, !.sound = s2]
  BY <1>1 DEF DoRead, Instructs
<1>3. run \in RunType /\ run.sound \in BOOLEAN
  BY TypeOKIs DEF RunInv, RunType
<1>4. s1 \in BOOLEAN /\ s2 \in BOOLEAN
  BY <1>3
<1>5. Opens(Prog, run.pc, w)
  BY <1>1, <1>3, RulesHold DEF Instructs, Sane, I
<1> HIDE DEF s1, s2
<1>6. ASSUME NEW s \in BOOLEAN, run' = [run EXCEPT !.pc = @ + 1, !.sound = s]
      PROVE  RunInv' /\ LooksUp(run.held, run.open, s)
  BY <1>1, <1>3, <1>6, ReadRun, KeepingAdvances DEF LooksUp, Instructs
<1>7. CASE Readable(w)
  BY <1>1, <1>2, <1>4, <1>5, <1>6, <1>7 DEF s1
<1>8. CASE ~Readable(w) /\ Handle(w).type \in {"las", "grid", "mesh"}
  BY <1>1, <1>2, <1>5, <1>8, BreakingEnds DEF Instructs
<1>9. CASE ~Readable(w) /\ Handle(w).type \notin {"las", "grid", "mesh"}
  BY <1>1, <1>2, <1>4, <1>5, <1>6, <1>9 DEF s2
<1> QED BY <1>7, <1>8, <1>9

KeepsEntity == entity' = entity /\ meddles' = meddles /\ first' = first

(* The next instruction, when data was written. *)
LEMMA WritingAdvances ==
    ASSUME RunInv, NEW what \in {"write", "bytes"}, Runs(what), KeepsEntity,
           run' = [run EXCEPT !.pc = @ + 1, !.after = run.failed],
           NEW p \in Path, NEW d \in Data, data' = [data EXCEPT ![p] = d]
    PROVE  RunInv' /\ LooksUp(run.held, run.open, run.sound)
<1>1. run \in RunType /\ entity \in [Path -> Entity \union {None}] /\ data \in [Path -> Data \union {None}]
  BY TypeOKIs DEF RunInv
<1>2. run' \in RunType /\ LooksUp(run.held, run.open, run.sound)
  BY <1>1, WriteRun DEF LooksUp
<1>3. entity' \in [Path -> Entity \union {None}] /\ data' \in [Path -> Data \union {None}] /\ meddles' = meddles
  BY <1>1 DEF KeepsEntity
<1> QED BY <1>2, <1>3, InvAdvances DEF LooksUp

LEMMA WriteDoes ==
    ASSUME RunInv, DoWrite
    PROVE  /\ RunInv' /\ KeepsEntity /\ Instructs("write") /\ Opens(Prog, run.pc, I.at)
           /\ data' = [data EXCEPT ![At(I.at)] = [type |-> Handle(I.at).type,
                                                  from |-> IF run.sound THEN "made" ELSE "nothing"]]
           /\ LooksUp(run.held, run.open, run.sound)
<1> DEFINE d == [type |-> Handle(I.at).type, from |-> IF run.sound THEN "made" ELSE "nothing"]
<1>1. /\ Instructs("write") /\ KeepsEntity /\ data' = [data EXCEPT ![At(I.at)] = d]
      /\ run' = [run EXCEPT !.pc = @ + 1, !.after = run.failed]
  BY InstructionRuns DEF DoWrite, KeepsEntity, Instructs
<1>2. Opens(Prog, run.pc, I.at)
  BY <1>1, TypeOKIs, RulesHold DEF RunInv, Instructs, Sane, I
<1>3. d \in Data
  BY <1>1, <1>2, HandleIs DEF Data
<1>4. At(I.at) \in Path
  BY AtPath DEF RunInv
<1> HIDE DEF d
<1>5. RunInv' /\ LooksUp(run.held, run.open, run.sound)
  BY <1>1, <1>3, <1>4, WritingAdvances DEF Instructs
<1> QED BY <1>1, <1>2, <1>5 DEF d

LEMMA CopyBytesDoes ==
    ASSUME RunInv, DoCopyBytes
    PROVE  /\ RunInv' /\ KeepsEntity /\ Instructs("bytes") /\ run.op = "copy"
           /\ \E d \in Data : data' = [data EXCEPT ![At("target")] = d]
           /\ LooksUp(run.held, run.open, run.sound)
<1> DEFINE from == At("source")
           to == At("target")
           empty == [type |-> Handle("target").type, from |-> "nothing"]
           copied == [data[from] EXCEPT !.from = IF @ = "nothing" THEN @ ELSE "made"]
           bytes == IF from = to \/ Handle("source").committed \/ data[from] = None THEN empty ELSE copied
<1>1. /\ Instructs("bytes") /\ KeepsEntity /\ data' = [data EXCEPT ![to] = bytes]
      /\ run' = [run EXCEPT !.pc = @ + 1, !.after = run.failed]
  BY InstructionRuns DEF DoCopyBytes, KeepsEntity
<1>2. Opens(Prog, run.pc, "target") /\ run.op = "copy"
  BY <1>1, TypeOKIs, RulesHold DEF RunInv, Instructs, Sane, I
<1>3. empty \in Data
  BY <1>1, <1>2, HandleIs DEF Data
<1>4. from \in Path /\ to \in Path
  BY AtPath DEF RunInv
<1>5. data[from] # None => copied \in Data
  <2>1. data[from] \in Data \union {None}
    BY <1>4, EnvTypes DEF RunInv
  <2> QED BY <2>1 DEF Data
<1>6. bytes \in Data
  BY <1>3, <1>5
<1> HIDE DEF bytes, to
<1>7. RunInv' /\ LooksUp(run.held, run.open, run.sound)
  BY <1>1, <1>4, <1>6, WritingAdvances DEF Instructs
<1> QED BY <1>1, <1>2, <1>6, <1>7 DEF to

LEMMA DeleteDoes ==
    ASSUME RunInv, DoDelete
    PROVE  /\ RunInv' /\ meddles' = meddles /\ first' = first
           /\ Instructs("delete") /\ I.at = "target" /\ run.op = "delete"
           /\ entity' = [entity EXCEPT ![At("target")] = None]
           /\ \/ data' = data /\ ~Exists(At("target"))
              \/ data' = [data EXCEPT ![At("target")] = None]
           /\ LooksUp(run.held, run.open, run.sound)
<1>1. Instructs("delete")
  BY InstructionRuns DEF DoDelete
<1>2. I.at = "target" /\ run.op = "delete"
  BY <1>1, TypeOKIs, RulesHold DEF Instructs, Shaped, RunInv, Sane, I
<1> DEFINE p == At("target")
<1>3. /\ meddles' = meddles /\ first' = first /\ entity' = [entity EXCEPT ![p] = None]
      /\ data' = IF Exists(p) THEN [data EXCEPT ![p] = None] ELSE data
      /\ Step
  BY <1>1, <1>2 DEF DoDelete, Instructs
<1>4. p \in Path /\ run \in RunType /\ entity \in [Path -> Entity \union {None}]
        /\ data \in [Path -> Data \union {None}]
  BY AtPath, TypeOKIs DEF RunInv
<1> HIDE DEF p
<1>5. entity' \in [Path -> Entity \union {None}] /\ data' \in [Path -> Data \union {None}]
  BY <1>3, <1>4
<1>6. run' \in RunType /\ LooksUp(run.held, run.open, run.sound)
  BY <1>3, <1>4, StepRun DEF LooksUp
<1>7. RunInv'
  BY <1>1, <1>3, <1>5, <1>6, InvAdvances DEF LooksUp, Instructs
<1> QED BY <1>1, <1>2, <1>3, <1>6, <1>7 DEF p

(* Between the instructions. *)
LEMMA BeginDoes ==
    ASSUME RunInv, NEW p \in Path, BeginWork(p)
    PROVE  /\ RunInv' /\ Keeps /\ SameTask /\ Going /\ run.pc = 0 /\ p \in run.todo
           /\ run'.todo = run.todo \ {p} /\ run'.at = p /\ run'.sound = TRUE
           /\ run'.pc \in {0, 1} /\ (run'.pc = 0 => run.tree)
           /\ run'.status = "running" /\ run'.last = run.last /\ run'.open = {}
<1>1. run \in RunType /\ Keeps /\ Going /\ run.pc = 0 /\ p \in run.todo
  BY TypeOKIs DEF RunInv, BeginWork, Keeps, Going
<1>2. /\ run' \in RunType /\ SameTask
      /\ run'.todo = run.todo \ {p} /\ run'.at = p /\ run'.sound = TRUE
      /\ run'.pc \in {0, 1} /\ (run'.pc = 0 => run.tree)
      /\ run'.status = "running" /\ run'.last = run.last
      /\ run'.held = run.held /\ run'.open = run.open
  BY <1>1, BeginRun
<1>3. run.open = {}
  BY <1>1 DEF RunInv, Working
<1>4. TypeOK'
  BY <1>1, <1>2, RulesHold, SameProg, TypeOKIs DEF RunInv, TypeOK, RunType, Prog, Keeps
<1>5. Working'
  <2>1. Working /\ Single' = Single
    BY <1>2, SameProg DEF RunInv
  <2>2. Single' => run'.todo = {}
    BY <1>1, <1>2, <2>1 DEF Working, Single
  <2>3. Single' => run'.pc # 0
    BY <1>2 DEF Single, SameTask
  <2> QED BY <1>1, <1>2, <1>3, <2>1, <2>2, <2>3 DEF Working, SameTask
<1>6. Held' /\ Opened'
  BY <1>2, <1>3 DEF Held, Opened
<1> QED BY <1>1, <1>2, <1>3, <1>4, <1>5, <1>6 DEF RunInv

LEMMA RunEndsDoes ==
    ASSUME RunInv, RunEnds
    PROVE  /\ RunInv' /\ Keeps /\ SameTask /\ Going /\ run.pc = 0 /\ run.todo = {}
           /\ run'.at = run.at /\ run'.todo = run.todo
           /\ run'.status = IF run.op = "copy" THEN "ok" ELSE IF run.op = "scale" THEN "error" ELSE run.last
<1>1. run \in RunType /\ Keeps /\ Going /\ run.pc = 0 /\ run.todo = {}
  BY TypeOKIs DEF RunInv, RunEnds, Keeps, Going
<1>2. /\ run' \in RunType /\ SameTask
      /\ run'.pc = 0 /\ run'.at = run.at /\ run'.todo = run.todo /\ run'.last = run.last
      /\ run'.status = IF run.op = "copy" THEN "ok" ELSE IF run.op = "scale" THEN "error" ELSE run.last
  BY <1>1, EndsRun
<1>3. run'.status # "running"
  BY <1>1, <1>2 DEF RunType
<1>4. TypeOK'
  BY <1>1, <1>2, RulesHold, SameProg, TypeOKIs DEF RunInv, TypeOK, RunType, Prog, Keeps
<1>5. Working' /\ Held' /\ Opened'
  BY <1>2, <1>3 DEF RunInv, Working, Held, Opened, Going, SameTask
<1> QED BY <1>1, <1>2, <1>4, <1>5 DEF RunInv

LEMMA WorkEndsDoes ==
    ASSUME RunInv, WorkEnds
    PROVE  RunInv' /\ Keeps /\ Going /\ run.pc = Len(Prog) + 1 /\ Finishes("ok")
<1>1. Going /\ run.pc = Len(Prog) + 1 /\ WorkDone("ok") /\ Keeps
  BY DEF WorkEnds, Going, Prog, Keeps
<1>2. entity' \in [Path -> Entity \union {None}] /\ data' \in [Path -> Data \union {None}] /\ meddles' = meddles
  BY <1>1, TypeOKIs DEF RunInv, Keeps
<1> QED BY <1>1, <1>2, InvFinishes

(* Others. *)
LEMMA MeddleDoes ==
    ASSUME RunInv, NEW p \in Path,
           MeddleDelete(p) \/ \E type \in Stored : MeddleStore(p, type)
    PROVE  /\ RunInv' /\ run' = run /\ first' = first /\ meddles' # 0 /\ Going
           /\ \/ entity' = [entity EXCEPT ![p] = None]
              \/ \E t \in Type : entity' = [entity EXCEPT ![p] = [type |-> t, committed |-> FALSE]]
<1>1. /\ entity \in [Path -> Entity \union {None}] /\ data \in [Path -> Data \union {None}]
      /\ meddles \in 0..MaxMeddles /\ MaxMeddles \in Nat /\ Stored \subseteq Type
  BY TypeOKIs, StoredAssumption, BoundAssumption DEF RunInv
<1>2. /\ run' = run /\ first' = first /\ meddles < MaxMeddles /\ meddles' = meddles + 1 /\ Going
      /\ \/ entity' = [entity EXCEPT ![p] = None] /\ data' = [data EXCEPT ![p] = None]
         \/ /\ \E t \in Type : entity' = [entity EXCEPT ![p] = [type |-> t, committed |-> FALSE]]
            /\ data' = data
  BY <1>1 DEF MeddleDelete, MeddleStore, Going
<1>3. \A t \in Type : [type |-> t, committed |-> FALSE] \in Entity
  BY DEF Entity
<1>4. entity' \in [Path -> Entity \union {None}] /\ data' \in [Path -> Data \union {None}]
  BY <1>1, <1>2, <1>3
<1>5. meddles' \in 0..MaxMeddles /\ meddles' # 0
  BY <1>1, <1>2
<1>6. TypeOK'
  BY <1>2, <1>4, <1>5 DEF RunInv, TypeOK
<1>7. Working' /\ Held' /\ Opened'
  BY <1>2 DEF RunInv, Working, Held, Opened, Going, Single, Prog
<1> QED BY <1>2, <1>5, <1>6, <1>7 DEF RunInv

LEMMA StutterDoes ==
    ASSUME RunInv, UNCHANGED vars
    PROVE  RunInv' /\ run' = run /\ Keeps
BY DEF vars, Keeps, RunInv, TypeOK, Working, Held, Opened, Going, Single, Prog, Exists

LEMMA InitIs ==
    ASSUME Init
    PROVE  /\ \E op \in Ops, input \in (SUBSET Path) \ {{}}, tree \in BOOLEAN, target \in [Path -> Path], at \in Path :
                 /\ Asked(op, tree, input, target) /\ at \in input
                 /\ run = Started(op, tree, input, target, at)
           /\ first = [entity |-> entity, data |-> data] /\ meddles = 0
<1>1. PICK op \in Ops, input \in (SUBSET Path) \ {{}}, tree \in BOOLEAN, target \in [Path -> Path] :
          /\ Asked(op, tree, input, target)
          /\ run = Started(op, tree, input, target, CHOOSE p \in input : TRUE)
  BY Zenon DEF Init
<1> DEFINE at == CHOOSE p \in input : TRUE
<1>2. at \in input
  <2>1. \E p \in input : TRUE
    OBVIOUS
  <2> QED BY <2>1, Zenon
<1>3. run = Started(op, tree, input, target, at)
  BY <1>1
<1> HIDE DEF at
<1>4. first = [entity |-> entity, data |-> data] /\ meddles = 0
  BY DEF Init
<1> QED BY <1>1, <1>2, <1>3, <1>4

LEMMA InitRunInv == Init => RunInv
<1> SUFFICES ASSUME Init PROVE RunInv
  OBVIOUS
<1>3. PICK op \in Ops, input \in (SUBSET Path) \ {{}}, tree \in BOOLEAN, target \in [Path -> Path], at \in Path :
          /\ Asked(op, tree, input, target) /\ at \in input
          /\ run = Started(op, tree, input, target, at)
  BY InitIs
<1>11. run \in RunType
  BY <1>3 DEF RunType, Started
<1>4. entity \in [Path -> Entity \union {None}]
  BY StoredAssumption DEF Init, Entity
<1>5. data \in [Path -> Data \union {None}]
  <2>1. PICK empty \in SUBSET Path :
          data = [p \in Path |-> IF entity[p] = None \/ p \in empty THEN None
                                 ELSE IF entity[p].committed THEN None
                                 ELSE [type |-> entity[p].type, from |-> "before"]]
    BY DEF Init
  <2>2. \A p \in Path : entity[p] # None => entity[p].type \in Type
    BY <1>4 DEF Entity
  <2> QED BY <2>1, <2>2 DEF Data
<1>6. meddles \in 0..MaxMeddles
  BY BoundAssumption DEF Init
<1>7. run.pc = 0 /\ run.pc <= Len(Prog) + 1
  BY <1>3, <1>11, RulesHold DEF Started
<1>8. TypeOK
  BY <1>11, <1>4, <1>5, <1>6, <1>7, TypeOKIs
<1>9. Working
  BY <1>3 DEF Working, Single, Asked, Started
<1>10. Held /\ Opened
  BY <1>3 DEF Held, Opened, Started
<1> QED BY <1>8, <1>9, <1>10 DEF RunInv

LEMMA NextRunInv == RunInv /\ [Next]_vars => RunInv'
BY FailDoes, FindDoes, IsOfTypeDoes, StoreDoes, OpenDoes, ReadDoes, WriteDoes, CopyBytesDoes, DeleteDoes,
   BeginDoes, RunEndsDoes, WorkEndsDoes, MeddleDoes, StutterDoes DEF Next, OperatorStep

(* Whatever operator runs, on whatever it finds, and whatever others do    *)
(* meanwhile: it stores entities of a type, and reads and writes only what *)
(* it has opened.                                                          *)
THEOREM TypeCorrect == Spec => []TypeOK
<1>1. Spec => []RunInv
  BY InitRunInv, NextRunInv, PTL DEF Spec
<1>2. RunInv => TypeOK
  BY DEF RunInv
<1> QED BY <1>1, <1>2, PTL

-----------------------------------------------------------------------------
(* How a run may end.                                                      *)

(* Nobody makes an entity that is only in the store. *)
Kept == \A p \in Path : Exists(p) /\ entity[p].committed => entity[p] = first.entity[p]

(* What source and target stand for. *)
Ats == [w \in Place |-> At(w)]

(* What was found, and what was stored with success, is there. *)
Has(x, e, at) ==
    /\ x.do = "find" => e[at[x.at]] # None
    /\ x.do = "store" /\ x.checked => e[at["target"]] # None
    /\ x.do = "store" /\ x.checked /\ x.known => e[at["target"]] # None /\ ~e[at["target"]].committed

There == Alone /\ Going => \A j \in 1..(run.pc - 1) : Has(Prog[j], entity, Ats)

EndInv == RunInv /\ Kept /\ There /\ EndsForAReason

(* Entities stay, or the target is stored. *)
Stores == entity' = entity \/ \E t : Puts(At("target"), t)

LEMMA StoresKeeps ==
    ASSUME RunInv, Stores
    PROVE  /\ \A p \in Path : Exists(p) => Exists(p)'
           /\ \A p \in Path : Transient(p) => Transient(p)'
           /\ \A p \in Path : Exists(p)' /\ entity'[p].committed => entity'[p] = entity[p] /\ Exists(p)
<1>1. entity \in [Path -> Entity \union {None}] /\ At("target") \in Path
  BY TypeOKIs, AtPath DEF RunInv
<1>2. CASE entity' = entity
  BY <1>2 DEF Exists, Transient
<1>3. ASSUME NEW t, Puts(At("target"), t)
      PROVE  /\ \A p \in Path : Exists(p) => Exists(p)'
             /\ \A p \in Path : Transient(p) => Transient(p)'
             /\ \A p \in Path : Exists(p)' /\ entity'[p].committed => entity'[p] = entity[p] /\ Exists(p)
  <2> DEFINE q == At("target")
             e == [type |-> t, committed |-> FALSE]
  <2>1. e # None /\ e.committed = FALSE
    BY DEF None
  <2>2. entity' = [entity EXCEPT ![q] = e]
    BY <1>3 DEF Puts
  <2> HIDE DEF q, e
  <2> QED BY <1>1, <2>1, <2>2 DEF Exists, Transient
<1> QED BY <1>2, <1>3 DEF Stores

LEMMA AtsStay ==
    ASSUME SameTask, run'.at = run.at
    PROVE  Ats' = Ats
BY DEF Ats, SameTask, At, TargetOf

LEMMA AtsAre ==
    ASSUME RunInv
    PROVE  Ats \in [Place -> Path] /\ \A w \in Place : Ats[w] = At(w)
BY AtPath DEF Ats, RunInv

LEMMA HasStays ==
    ASSUME RunInv, Stores, NEW x, Shaped(x), Has(x, entity, Ats)
    PROVE  Has(x, entity', Ats)
<1>1. /\ Ats["target"] \in Path
      /\ x.do = "find" => Ats[x.at] \in Path
  BY AtsAre DEF Shaped, Place
<1> QED BY <1>1, StoresKeeps DEF Has, Exists, Transient

LEMMA ThereAdvances ==
    ASSUME RunInv, There, NEW what, Instructs(what), Advances, Stores, meddles' = meddles,
           Alone => Has(I, entity', Ats)
    PROVE  There'
<1>1. /\ run.pc \in Nat /\ run'.pc = run.pc + 1 /\ Prog' = Prog /\ Going /\ I = Prog[run.pc]
      /\ Ats' = Ats /\ Len(Prog) \in Nat /\ run.pc \in 1..Len(Prog)
      /\ \A j \in 1..Len(Prog) : Shaped(Prog[j])
  BY TypeOKIs, RulesHold, SameProg, AtsStay DEF RunInv, Advances, Instructs, I, Sane
<1> SUFFICES ASSUME Alone, NEW j \in 1..run.pc
             PROVE  Has(Prog[j], entity', Ats)
  BY <1>1 DEF There, Alone
<1>2. CASE j = run.pc
  BY <1>1, <1>2
<1>3. CASE j # run.pc
  <2>1. j \in 1..(run.pc - 1) /\ j \in 1..Len(Prog)
    BY <1>1, <1>3
  <2>2. Has(Prog[j], entity, Ats) /\ Shaped(Prog[j])
    BY <1>1, <2>1 DEF There
  <2> QED BY <2>2, HasStays
<1> QED BY <1>2, <1>3

LEMMA ThereRests ==
    ASSUME RunInv, run'.pc = 0 \/ run'.pc = 1
    PROVE  There'
BY DEF There

LEMMA KeptStays ==
    ASSUME RunInv, Kept, Stores, first' = first
    PROVE  Kept'
BY StoresKeeps DEF Kept

LEMMA InitEndInv == Init => EndInv
<1> SUFFICES ASSUME Init PROVE EndInv
  OBVIOUS
<1>1. run.pc = 0 /\ run.status = "running" /\ first.entity = entity
  BY InitIs DEF Started
<1>2. There /\ Kept /\ EndsForAReason
  BY <1>1 DEF There, Kept, EndsForAReason
<1> QED BY <1>2, InitRunInv DEF EndInv

(* Only three things end the process. *)
LEMMA BreaksForAReason ==
    ASSUME EndInv, NEW what, Instructs(what), Breaks, Keeps,
           \/ what = "fail" /\ I.how = "throws"
           \/ what = "open" /\ ~Openable /\ I.null = "throws"
           \/ what = "read" /\ Opens(Prog, run.pc, I.at) /\ Handle(I.at).type \in {"las", "grid", "mesh"}
    PROVE  EndsForAReason'
<1>1. /\ run.op \in Ops /\ run.pc \in 1..Len(Prog) /\ I = Prog[run.pc] /\ Going /\ I.do = what
      /\ Ending(run.op, Prog) /\ Sane(run.op, Prog) /\ Shaped(I) /\ RunInv
  BY TypeOKIs, RulesHold DEF EndInv, RunInv, Instructs, I
<1>2. run'.op = run.op /\ first' = first /\ meddles' = meddles
  BY DEF Breaks, SameTask, Keeps
<1>3. ASSUME what = "read", Opens(Prog, run.pc, I.at)
      PROVE  \E j \in 1..(run.pc - 1) :
                Prog[j].do = "open" /\ Prog[j].type \in {"any", Handle(I.at).type}
  <2>1. Handle(I.at) \in run.open
    BY <1>1, <1>3, HandleIs
  <2> QED BY <1>1, <2>1 DEF RunInv, Opened
<1>4. \A j \in 1..(run.pc - 1) : j \in 1..Len(Prog)
  BY <1>1, RulesHold
<1>5. run.op \notin Filters
  BY <1>1, <1>3, <1>4 DEF Ending
<1>6. ASSUME Alone, what = "open", NEW j \in 1..(run.pc - 1)
      PROVE  Has(Prog[j], entity, Ats)
  BY <1>1, <1>6 DEF EndInv, There
<1>7. I.at \in Place => Ats[I.at] = At(I.at)
  BY <1>1, AtsAre
<1>8. Ats["target"] = At("target")
  BY <1>1, AtsAre DEF Place
<1>9. Alone => run.op # "copy"
  <2> SUFFICES ASSUME Alone, run.op = "copy" PROVE FALSE
    OBVIOUS
  <2>1. I.do \notin {"fail", "read"}
    BY <1>1 DEF Ending
  <2>2. what = "open" /\ ~Openable /\ I.at \in Place /\ I.writes \in BOOLEAN
    BY <1>1, <2>1 DEF Shaped
  <2>3. CASE I.writes
    <3>1. I.at = "target" /\ \E j \in 1..(run.pc - 1) : Prog[j].do = "store" /\ Prog[j].checked /\ Prog[j].known
      BY <1>1, <2>2, <2>3 DEF Ending
    <3>2. entity[At("target")] # None /\ ~entity[At("target")].committed
      BY <1>6, <1>8, <2>2, <3>1 DEF Has
    <3> QED BY <2>2, <2>3, <3>1, <3>2 DEF Openable, Transient, Exists
  <2>4. CASE ~I.writes
    <3>1. \E j \in 1..(run.pc - 1) : Prog[j].do = "find" /\ Prog[j].at = I.at
      BY <1>1, <2>2, <2>4 DEF Ending
    <3>2. entity[At(I.at)] # None
      BY <1>6, <1>7, <2>2, <3>1 DEF Has
    <3> QED BY <2>2, <2>4, <3>2 DEF Openable, Exists
  <2> QED BY <2>2, <2>3, <2>4
<1>10. ASSUME Alone, run.op = "addRandomTf"
       PROVE  first.entity[TfPath] # None /\ first.entity[TfPath].committed
  <2>1. what = "open" /\ ~Openable
    <3>1. what # "fail"
      BY <1>1, <1>10 DEF Ending
    <3>2. ASSUME what = "read"
          PROVE  FALSE
      <4>1. Opens(Prog, run.pc, I.at) /\ Handle(I.at).type \in {"las", "grid", "mesh"}
        BY <3>2
      <4>2. PICK j \in 1..(run.pc - 1) : Prog[j].do = "open" /\ Prog[j].type \in {"any", Handle(I.at).type}
        BY <1>3, <3>2, <4>1
      <4>3. Prog[j].type = "tf"
        BY <1>1, <1>4, <1>10, <4>2 DEF Ending
      <4> QED BY <4>1, <4>2, <4>3
    <3> QED BY <3>1, <3>2
  <2>2. I.at = "target" /\ \E j \in 1..(run.pc - 1) : Prog[j].do = "store" /\ Prog[j].checked
    BY <1>1, <1>10, <2>1 DEF Ending
  <2>3. At("target") = TfPath
    BY <1>10 DEF At, TargetOf, InPlace, TargetOnly
  <2>4. entity[TfPath] # None
    BY <1>6, <1>8, <1>10, <2>1, <2>2, <2>3 DEF Has
  <2>5. entity[TfPath].committed
    BY <2>1, <2>2, <2>3, <2>4 DEF Openable, Transient, Exists
  <2> QED BY <2>4, <2>5, PathAssumption DEF EndInv, Kept, Exists
<1> QED BY <1>2, <1>5, <1>9, <1>10 DEF EndsForAReason, Alone, Filters

LEMMA RunsOn ==
    ASSUME Going, \/ Advances
                  \/ \E status \in {"ok", "error"} : Finishes(status)
                  \/ run'.status \in {"running", "ok", "error"}
    PROVE  EndsForAReason'
BY DEF Going, Advances, Finishes, EndsForAReason

LEMMA FailStatusIs == FailStatus \in {"ok", "error"}
BY DEF FailStatus

LEMMA FinishedRests ==
    ASSUME RunInv, NEW status, Finishes(status)
    PROVE  There'
BY ThereRests DEF Finishes

LEMMA KeepsStores ==
    ASSUME Keeps \/ KeepsEntity \/ entity' = entity
    PROVE  Stores
BY DEF Keeps, KeepsEntity, Stores

LEMMA FailEnds == EndInv /\ DoFail => EndInv'
<1> SUFFICES ASSUME EndInv, DoFail PROVE EndInv'
  OBVIOUS
<1>1. /\ RunInv' /\ Keeps /\ Instructs("fail")
      /\ \/ LooksUp(run.held, run.open, run.sound)
         \/ I.how = "error" /\ Finishes(FailStatus)
         \/ I.how = "throws" /\ Breaks
  BY FailDoes DEF EndInv
<1>2. Going /\ Stores /\ meddles' = meddles /\ first' = first
  BY <1>1, KeepsStores DEF Instructs, Keeps
<1>3. Kept'
  BY <1>2, KeptStays DEF EndInv
<1>4. CASE LooksUp(run.held, run.open, run.sound)
  <2>1. Has(I, entity', Ats)
    BY <1>1 DEF Has, Instructs
  <2> QED BY <1>1, <1>2, <1>3, <1>4, <2>1, ThereAdvances, RunsOn DEF EndInv, LooksUp
<1>5. CASE Finishes(FailStatus)
  BY <1>1, <1>2, <1>3, <1>5, FailStatusIs, FinishedRests, RunsOn DEF EndInv
<1>6. CASE I.how = "throws" /\ Breaks
  BY <1>1, <1>3, <1>6, BreaksForAReason, ThereRests DEF EndInv, Breaks
<1> QED BY <1>1, <1>4, <1>5, <1>6

LEMMA FindEnds == EndInv /\ DoFind => EndInv'
<1> SUFFICES ASSUME EndInv, DoFind PROVE EndInv'
  OBVIOUS
<1>1. /\ RunInv' /\ Keeps /\ Instructs("find")
      /\ \/ Exists(At(I.at)) /\ LooksUp(entity[At(I.at)].type, run.open, run.sound)
         \/ Finishes(FailStatus)
  BY FindDoes DEF EndInv
<1>2. Going /\ Stores /\ meddles' = meddles /\ first' = first
  BY <1>1, KeepsStores DEF Instructs, Keeps
<1>3. Kept'
  BY <1>2, KeptStays DEF EndInv
<1>4. CASE Exists(At(I.at)) /\ LooksUp(entity[At(I.at)].type, run.open, run.sound)
  <2>1. I.do = "find" /\ I.at \in Place
    BY <1>1 DEF Instructs, Shaped
  <2>2. Ats[I.at] = At(I.at)
    BY <2>1, AtsAre DEF EndInv
  <2>3. Has(I, entity', Ats)
    BY <1>1, <1>4, <2>1, <2>2 DEF Has, Exists, Keeps
  <2> QED BY <1>1, <1>2, <1>3, <1>4, <2>3, ThereAdvances, RunsOn DEF EndInv, LooksUp
<1>5. CASE Finishes(FailStatus)
  BY <1>1, <1>2, <1>3, <1>5, FailStatusIs, FinishedRests, RunsOn DEF EndInv
<1> QED BY <1>1, <1>4, <1>5

LEMMA IsOfTypeEnds == EndInv /\ DoIsOfType => EndInv'
<1> SUFFICES ASSUME EndInv, DoIsOfType PROVE EndInv'
  OBVIOUS
<1>1. /\ RunInv' /\ Keeps /\ Instructs("type")
      /\ LooksUp(run.held, run.open, run.sound) \/ Finishes(FailStatus)
  BY IsOfTypeDoes DEF EndInv
<1>2. Going /\ Stores /\ meddles' = meddles /\ first' = first
  BY <1>1, KeepsStores DEF Instructs, Keeps
<1>3. Kept'
  BY <1>2, KeptStays DEF EndInv
<1>4. CASE LooksUp(run.held, run.open, run.sound)
  <2>1. Has(I, entity', Ats)
    BY <1>1 DEF Has, Instructs
  <2> QED BY <1>1, <1>2, <1>3, <1>4, <2>1, ThereAdvances, RunsOn DEF EndInv, LooksUp
<1>5. CASE Finishes(FailStatus)
  BY <1>1, <1>2, <1>3, <1>5, FailStatusIs, FinishedRests, RunsOn DEF EndInv
<1> QED BY <1>1, <1>4, <1>5

LEMMA StoreEnds == EndInv /\ DoStore => EndInv'
<1> SUFFICES ASSUME EndInv, DoStore PROVE EndInv'
  OBVIOUS
<1>1. /\ RunInv' /\ KeepsData /\ Instructs("store")
      /\ \/ /\ ~I.known /\ Exists(At("target")) /\ entity' = entity
            /\ LooksUp(entity[At("target")].type, run.open, run.sound)
         \/ /\ Puts(At("target"), StoredType)
            /\ LooksUp(StoredType, run.open, run.sound)
         \/ /\ entity' = entity /\ ~I.checked
            /\ LooksUp(StoredType, run.open, run.sound)
         \/ entity' = entity /\ Finishes(FailStatus)
  BY StoreDoes DEF EndInv
<1>2. Going /\ Stores /\ meddles' = meddles /\ first' = first /\ I.do = "store"
  BY <1>1 DEF Instructs, KeepsData, Stores
<1>3. Kept'
  BY <1>2, KeptStays DEF EndInv
<1>4. At("target") \in Path /\ Ats["target"] = At("target") /\ entity \in [Path -> Entity \union {None}]
  BY AtPath, AtsAre, EnvTypes DEF EndInv, RunInv, Place
<1>5. CASE ~I.known /\ Exists(At("target")) /\ entity' = entity /\ LooksUp(entity[At("target")].type, run.open, run.sound)
  <2>1. Has(I, entity', Ats)
    BY <1>2, <1>4, <1>5 DEF Has, Exists
  <2> QED BY <1>1, <1>2, <1>3, <1>5, <2>1, ThereAdvances, RunsOn DEF EndInv, LooksUp
<1>6. CASE Puts(At("target"), StoredType) /\ LooksUp(StoredType, run.open, run.sound)
  <2>1. entity'[At("target")] = [type |-> StoredType, committed |-> FALSE]
    BY <1>4, <1>6 DEF Puts
  <2>2. Has(I, entity', Ats)
    BY <1>2, <1>4, <2>1 DEF Has, None
  <2> QED BY <1>1, <1>2, <1>3, <1>6, <2>2, ThereAdvances, RunsOn DEF EndInv, LooksUp
<1>7. CASE entity' = entity /\ ~I.checked /\ LooksUp(StoredType, run.open, run.sound)
  <2>1. Has(I, entity', Ats)
    BY <1>2, <1>7 DEF Has
  <2> QED BY <1>1, <1>2, <1>3, <1>7, <2>1, ThereAdvances, RunsOn DEF EndInv, LooksUp
<1>8. CASE Finishes(FailStatus)
  BY <1>1, <1>2, <1>3, <1>8, FailStatusIs, FinishedRests, RunsOn DEF EndInv
<1> QED BY <1>1, <1>5, <1>6, <1>7, <1>8

LEMMA OpenEnds == EndInv /\ DoOpen => EndInv'
<1> SUFFICES ASSUME EndInv, DoOpen PROVE EndInv'
  OBVIOUS
<1>1. /\ RunInv' /\ Keeps /\ Instructs("open")
      /\ \/ Finishes(FailStatus)
         \/ ~Openable /\ I.null = "throws" /\ Breaks
         \/ LooksUp(run.held, {h \in run.open : h.at # I.at} \union {NewHandle}, run.sound)
  BY OpenDoes DEF EndInv
<1>2. Going /\ Stores /\ meddles' = meddles /\ first' = first
  BY <1>1, KeepsStores DEF Instructs, Keeps
<1>3. Kept'
  BY <1>2, KeptStays DEF EndInv
<1>4. CASE LooksUp(run.held, {h \in run.open : h.at # I.at} \union {NewHandle}, run.sound)
  <2>1. Has(I, entity', Ats)
    BY <1>1 DEF Has, Instructs
  <2> QED BY <1>1, <1>2, <1>3, <1>4, <2>1, ThereAdvances, RunsOn DEF EndInv, LooksUp
<1>5. CASE Finishes(FailStatus)
  BY <1>1, <1>2, <1>3, <1>5, FailStatusIs, FinishedRests, RunsOn DEF EndInv
<1>6. CASE ~Openable /\ I.null = "throws" /\ Breaks
  BY <1>1, <1>3, <1>6, BreaksForAReason, ThereRests DEF EndInv, Breaks
<1> QED BY <1>1, <1>4, <1>5, <1>6

LEMMA ReadEnds == EndInv /\ DoRead => EndInv'
<1> SUFFICES ASSUME EndInv, DoRead PROVE EndInv'
  OBVIOUS
<1>1. /\ RunInv' /\ Keeps /\ Instructs("read") /\ Opens(Prog, run.pc, I.at)
      /\ \/ \E sound : LooksUp(run.held, run.open, sound)
         \/ Handle(I.at).type \in {"las", "grid", "mesh"} /\ Breaks
  BY ReadDoes DEF EndInv
<1>2. Going /\ Stores /\ meddles' = meddles /\ first' = first
  BY <1>1, KeepsStores DEF Instructs, Keeps
<1>3. Kept'
  BY <1>2, KeptStays DEF EndInv
<1>4. CASE \E sound : LooksUp(run.held, run.open, sound)
  <2>1. Has(I, entity', Ats) /\ Advances
    BY <1>1, <1>4 DEF Has, Instructs, LooksUp
  <2> QED BY <1>1, <1>2, <1>3, <2>1, ThereAdvances, RunsOn DEF EndInv
<1>5. CASE Handle(I.at).type \in {"las", "grid", "mesh"} /\ Breaks
  BY <1>1, <1>3, <1>5, BreaksForAReason, ThereRests DEF EndInv, Breaks
<1> QED BY <1>1, <1>4, <1>5

LEMMA WriteEnds == EndInv /\ (DoWrite \/ DoCopyBytes) => EndInv'
<1> SUFFICES ASSUME EndInv, DoWrite \/ DoCopyBytes PROVE EndInv'
  OBVIOUS
<1>1. /\ RunInv' /\ KeepsEntity /\ (Instructs("write") \/ Instructs("bytes"))
      /\ LooksUp(run.held, run.open, run.sound)
  BY WriteDoes, CopyBytesDoes DEF EndInv
<1>2. Going /\ Stores /\ meddles' = meddles /\ first' = first
  BY <1>1, KeepsStores DEF Instructs, KeepsEntity
<1>3. Kept'
  BY <1>2, KeptStays DEF EndInv
<1>4. Has(I, entity', Ats) /\ Advances
  BY <1>1 DEF Has, Instructs, LooksUp
<1>5. There'
  BY <1>1, <1>2, <1>4, ThereAdvances DEF EndInv
<1> QED BY <1>1, <1>2, <1>3, <1>4, <1>5, RunsOn DEF EndInv

(* Deleting is all that the operator delete does. *)
LEMMA DeleteEnds == EndInv /\ DoDelete => EndInv'
<1> SUFFICES ASSUME EndInv, DoDelete PROVE EndInv'
  OBVIOUS
<1>1. /\ RunInv' /\ meddles' = meddles /\ first' = first /\ Instructs("delete") /\ Advances
      /\ entity' = [entity EXCEPT ![At("target")] = None]
  BY DeleteDoes DEF EndInv, LooksUp
<1>2. /\ At("target") \in Path /\ entity \in [Path -> Entity \union {None}] /\ Kept /\ Going
  BY <1>1, AtPath, TypeOKIs DEF EndInv, RunInv, Instructs
<1>3. Kept'
  BY <1>1, <1>2 DEF Kept, Exists
<1>4. There'
  <2>1. /\ Prog' = Prog /\ run'.pc = run.pc + 1 /\ run.pc = 1 /\ Prog[1].do = "delete"
    BY <1>1, TypeOKIs, RulesHold, SameProg DEF EndInv, RunInv, Advances, Instructs, Sane, I
  <2>2. \A e, at : Has(Prog[1], e, at)
    BY <2>1 DEF Has
  <2> QED BY <2>1, <2>2 DEF There
<1> QED BY <1>1, <1>2, <1>3, <1>4, RunsOn DEF EndInv

LEMMA BetweenEnds == EndInv /\ ((\E p \in Path : BeginWork(p)) \/ RunEnds \/ WorkEnds) => EndInv'
<1> SUFFICES ASSUME EndInv, (\E p \in Path : BeginWork(p)) \/ RunEnds \/ WorkEnds PROVE EndInv'
  OBVIOUS
<1>1. /\ RunInv' /\ Keeps /\ Going /\ run'.pc \in {0, 1}
      /\ run'.status \in {"running", "ok", "error"} \/ Finishes("ok")
  <2>1. ASSUME NEW p \in Path, BeginWork(p)
        PROVE  RunInv' /\ Keeps /\ Going /\ run'.pc \in {0, 1} /\ run'.status = "running"
    BY <2>1, BeginDoes DEF EndInv
  <2>2. ASSUME RunEnds
        PROVE  RunInv' /\ Keeps /\ Going /\ run'.pc = 0 /\ run'.status \in {"ok", "error"}
    <3>1. RunInv' /\ Keeps /\ Going /\ run.pc = 0 /\ run.last \in {"ok", "error"}
      BY <2>2, RunEndsDoes, TypeOKIs DEF EndInv, RunInv, RunType
    <3>2. run'.pc = 0 /\ run'.status \in {"ok", "error"}
      BY <2>2, <3>1, EndsRun, TypeOKIs DEF EndInv, RunInv
    <3> QED BY <3>1, <3>2
  <2>3. ASSUME WorkEnds
        PROVE  RunInv' /\ Keeps /\ Going /\ run'.pc = 0 /\ Finishes("ok")
    BY <2>3, WorkEndsDoes DEF EndInv, Finishes
  <2> QED BY <2>1, <2>2, <2>3
<1>2. Kept'
  BY <1>1, KeepsStores, KeptStays DEF EndInv, Keeps
<1>3. There'
  BY <1>1, ThereRests DEF EndInv
<1>4. EndsForAReason'
  BY <1>1, RunsOn
<1> QED BY <1>1, <1>2, <1>3, <1>4 DEF EndInv

LEMMA OthersEnd == EndInv /\ (\E p \in Path : MeddleDelete(p) \/ \E type \in Stored : MeddleStore(p, type)) => EndInv'
<1> SUFFICES ASSUME EndInv, NEW p \in Path, MeddleDelete(p) \/ \E type \in Stored : MeddleStore(p, type)
             PROVE  EndInv'
  OBVIOUS
<1>1. /\ RunInv' /\ run' = run /\ first' = first /\ meddles' # 0 /\ Going
      /\ \/ entity' = [entity EXCEPT ![p] = None]
         \/ \E t \in Type : entity' = [entity EXCEPT ![p] = [type |-> t, committed |-> FALSE]]
  BY MeddleDoes DEF EndInv
<1>2. Kept'
  <2>1. entity \in [Path -> Entity \union {None}] /\ Kept
    BY TypeOKIs DEF EndInv, RunInv
  <2>2. \A t \in Type : [type |-> t, committed |-> FALSE].committed = FALSE
    OBVIOUS
  <2>3. CASE entity' = [entity EXCEPT ![p] = None]
    BY <1>1, <2>1, <2>3 DEF Kept, Exists
  <2>4. ASSUME NEW t \in Type, entity' = [entity EXCEPT ![p] = [type |-> t, committed |-> FALSE]]
        PROVE  Kept'
    BY <1>1, <2>1, <2>4 DEF Kept, Exists
  <2> QED BY <1>1, <2>3, <2>4
<1>3. There' /\ EndsForAReason'
  BY <1>1 DEF There, EndsForAReason, Alone, Going
<1> QED BY <1>1, <1>2, <1>3 DEF EndInv

LEMMA NextEndInv == EndInv /\ [Next]_vars => EndInv'
<1>1. EndInv /\ UNCHANGED vars => EndInv'
  BY StutterDoes DEF EndInv, vars, Kept, There, EndsForAReason, Alone, Going, Prog, Ats, At, TargetOf, Exists
<1> QED
  BY <1>1, FailEnds, FindEnds, IsOfTypeEnds, StoreEnds, OpenEnds, ReadEnds, WriteEnds, DeleteEnds, BetweenEnds,
     OthersEnd DEF Next, OperatorStep

(* The process ends only where the code leaves a way for it: never in a    *)
(* filter, whatever others do; not in copy if it is alone; and in          *)
(* tf_add_random, alone, only over a committed list of transforms.         *)
THEOREM EndsHaveReasons == Spec => []EndsForAReason
<1>1. Spec => []EndInv
  BY InitEndInv, NextEndInv, PTL DEF Spec
<1>2. EndInv => EndsForAReason
  BY DEF EndInv
<1> QED BY <1>1, <1>2, PTL

-----------------------------------------------------------------------------
(* All or nothing.                                                         *)

Targets == {TargetOf(p) : p \in run.input}

OnlyTargets ==
    Alone => \A p \in Path \ Targets : entity[p] = first.entity[p] /\ data[p] = first.data[p]

Unchanged == entity = first.entity /\ data = first.data

(* The target is stored, with the type of what the operator makes. *)
Made == entity[At("target")] = [type |-> Makes(run.op), committed |-> FALSE]
        /\ run.held = Makes(run.op)

(* What is left to do can't fail any more, or nothing was done so far. *)
Settled ==
    \/ Unchanged
    \/ run.pc = 0 /\ run.todo = {}
    \/ run.pc # 0 /\ FirmFrom(Prog, run.pc)
    \/ Late(Prog, run.pc) /\ Made

Undone ==
    /\ Judged /\ run.op # "copy" => /\ Going => Settled
                                    /\ run.status = "error" => Unchanged
    /\ run.op = "copy" => run.status # "error"

AtomInv == RunInv /\ OnlyTargets /\ Undone

(* Nothing is changed but one of the targets. *)
OnlyAt(q) == \A p \in Path \ {q} : entity'[p] = entity[p] /\ data'[p] = data[p]

LEMMA OnlyTargetsStays ==
    ASSUME RunInv, OnlyTargets, SameTask, meddles' = meddles, first' = first,
           \/ Keeps
           \/ OnlyAt(At("target"))
           \/ run.op \in InPlace /\ OnlyAt(run.at)
    PROVE  OnlyTargets'
<1>1. Targets' = Targets
  BY DEF SameTask, Targets, TargetOf
<1>2. At("target") \in Targets /\ (run.op \in InPlace => run.at \in Targets)
  BY DEF RunInv, Working, Targets, At, TargetOf
<1> QED BY <1>1, <1>2 DEF OnlyTargets, OnlyAt, Keeps, Alone

LEMMA JudgedStays ==
    ASSUME SameTask, meddles' = meddles
    PROVE  Judged' = Judged
BY DEF Judged, SameTask, Alone, Single

LEMMA FirmAdvances ==
    ASSUME RunInv, NEW what, Instructs(what), FirmFrom(Prog, run.pc)
    PROVE  Firm(I) /\ FirmFrom(Prog, run.pc + 1)
<1>1. run.pc \in 1..Len(Prog) /\ Len(Prog) \in Nat
  BY TypeOKIs, RulesHold DEF Instructs, RunInv
<1> QED BY <1>1 DEF FirmFrom, I

LEMMA LateAdvances ==
    ASSUME RunInv, NEW what, Instructs(what), Late(Prog, run.pc) \/ I.do = "store"
    PROVE  Late(Prog, run.pc + 1)
<1>1. run.pc \in 1..Len(Prog) /\ Len(Prog) \in Nat
  BY TypeOKIs, RulesHold DEF Instructs, RunInv
<1>2. run.pc \in 1..((run.pc + 1) - 1) /\ \A j \in 1..(run.pc - 1) : j \in 1..((run.pc + 1) - 1)
  BY <1>1
<1> QED BY <1>2 DEF Late, I

(* After an instruction that changes nothing. *)
LEMMA PassUndone ==
    ASSUME AtomInv, NEW what, Instructs(what), Advances, Keeps, run'.held = run.held
    PROVE  Undone'
<1>1. /\ RunInv /\ Undone /\ Judged' = Judged /\ Prog' = Prog /\ run'.op = run.op
      /\ run'.pc = run.pc + 1 /\ run.pc \in Nat /\ run.pc # 0 /\ Going /\ run'.status = "running"
  BY JudgedStays, SameProg, TypeOKIs, RulesHold
     DEF AtomInv, RunInv, Advances, SameTask, Keeps, Instructs, Going
<1> SUFFICES ASSUME Judged, run.op # "copy" PROVE Settled'
  BY <1>1 DEF Undone
<1>2. CASE Unchanged
  BY <1>2 DEF Settled, Unchanged, Keeps
<1>3. CASE FirmFrom(Prog, run.pc)
  <2>1. FirmFrom(Prog', run'.pc)
    BY <1>1, <1>3, FirmAdvances
  <2> QED BY <1>1, <2>1 DEF Settled
<1>4. CASE Late(Prog, run.pc) /\ Made
  <2>1. Late(Prog', run'.pc)
    BY <1>1, <1>4, LateAdvances
  <2>2. Made'
    BY <1>1, <1>4 DEF Made, Keeps, Advances, SameTask, At, TargetOf
  <2> QED BY <2>1, <2>2 DEF Settled
<1> QED BY <1>1, <1>2, <1>3, <1>4 DEF Undone, Settled

(* When an instruction fails that may do so only while nothing has         *)
(* changed.                                                                *)
LEMMA FailUndone ==
    ASSUME AtomInv, NEW what, Instructs(what), Finishes(FailStatus), Keeps,
           ~Firm(I), Judged /\ run.op # "copy" => ~(Late(Prog, run.pc) /\ Made)
    PROVE  Undone'
<1>1. /\ RunInv /\ Undone /\ Judged' = Judged /\ run'.op = run.op /\ run.pc # 0 /\ Going
  BY JudgedStays, TypeOKIs, RulesHold DEF AtomInv, RunInv, Finishes, SameTask, Keeps, Instructs
<1>2. ASSUME Judged, run.op # "copy"
      PROVE  Unchanged
  BY <1>1, <1>2, FirmAdvances DEF Undone, Settled
<1>3. Judged => ~run.tree
  BY DEF Judged, Single
<1>4. Judged /\ run.op # "copy" => run'.status = "error"
  BY <1>3 DEF Finishes, FailStatus
<1>5. run.op = "copy" => run'.status # "error"
  BY <1>1 DEF Finishes, FailStatus, Undone, Going
<1> QED BY <1>1, <1>2, <1>4, <1>5 DEF Undone, Unchanged, Keeps, Going

(* When the process ends. *)
LEMMA BreakUndone ==
    ASSUME Breaks
    PROVE  Undone'
BY DEF Undone, Breaks, Going

LEMMA CarefulIs ==
    ASSUME AtomInv, NEW what, Instructs(what), Judged, run.op # "copy"
    PROVE  /\ I.do = "store" => \/ I.type = Makes(run.op)
                                \/ I.type = "held" /\ FirmFrom(Prog, run.pc + 1)
           /\ I.do \in {"write", "delete"} => FirmFrom(Prog, run.pc + 1)
           /\ Late(Prog, run.pc) =>
                 /\ I.do # "find"
                 /\ I.do = "fail" => I.how = "throws"
                 /\ I.do = "type" => I.type = Makes(run.op)
                 /\ I.do = "store" => ~I.checked
                 /\ I.do = "open" => I.at = "target" /\ I.type = Makes(run.op)
BY TypeOKIs, RulesHold DEF AtomInv, RunInv, Instructs, Careful, Judged, I

LEMMA AdvancesFrom == Advances => SameTask
BY DEF Advances

LEMMA FinishesFrom == \A s : Finishes(s) => SameTask
BY DEF Finishes

LEMMA FailAtomic == AtomInv /\ DoFail => AtomInv'
<1> SUFFICES ASSUME AtomInv, DoFail PROVE AtomInv'
  OBVIOUS
<1>1. /\ RunInv' /\ Keeps /\ Instructs("fail")
      /\ \/ LooksUp(run.held, run.open, run.sound)
         \/ I.how = "error" /\ Finishes(FailStatus)
         \/ I.how = "throws" /\ Breaks
  BY FailDoes DEF AtomInv
<1>2. SameTask
  BY <1>1 DEF LooksUp, Advances, Finishes, Breaks
<1>3. OnlyTargets'
  BY <1>1, <1>2, OnlyTargetsStays DEF AtomInv, Keeps
<1>4. CASE LooksUp(run.held, run.open, run.sound)
  BY <1>1, <1>4, PassUndone, <1>3 DEF LooksUp, AtomInv
<1>5. CASE I.how = "error" /\ Finishes(FailStatus)
  <2>1. ~Firm(I) /\ I.do = "fail"
    BY <1>1, <1>5 DEF Instructs, Firm
  <2>2. Judged /\ run.op # "copy" => ~Late(Prog, run.pc)
    BY <1>1, <1>5, <2>1, CarefulIs
  <2> QED BY <1>1, <1>3, <1>5, <2>1, <2>2, FailUndone DEF AtomInv
<1>6. CASE Breaks
  BY <1>1, <1>3, <1>6, BreakUndone DEF AtomInv
<1> QED BY <1>1, <1>4, <1>5, <1>6

LEMMA FindAtomic == AtomInv /\ DoFind => AtomInv'
<1> SUFFICES ASSUME AtomInv, DoFind PROVE AtomInv'
  OBVIOUS
<1>1. /\ RunInv' /\ Keeps /\ Instructs("find")
      /\ \/ LooksUp(entity[At(I.at)].type, run.open, run.sound)
         \/ Finishes(FailStatus)
  BY FindDoes DEF AtomInv
<1>2. SameTask /\ I.do = "find"
  BY <1>1 DEF LooksUp, Advances, Finishes, Instructs
<1>3. OnlyTargets'
  BY <1>1, <1>2, OnlyTargetsStays DEF AtomInv, Keeps
<1>4. ~Firm(I) /\ (Judged /\ run.op # "copy" => ~Late(Prog, run.pc))
  BY <1>1, <1>2, CarefulIs DEF Firm
<1>5. CASE LooksUp(entity[At(I.at)].type, run.open, run.sound)
  <2>1. /\ RunInv /\ Undone /\ Judged' = Judged /\ run'.op = run.op /\ run.pc # 0 /\ Going
        /\ run'.status = "running"
    BY <1>1, <1>2, <1>5, JudgedStays, TypeOKIs, RulesHold
       DEF AtomInv, RunInv, SameTask, Keeps, Instructs, LooksUp, Advances, Going
  <2>2. Judged /\ run.op # "copy" => Unchanged
    BY <1>1, <1>4, <2>1, FirmAdvances DEF Undone, Settled
  <2> QED BY <1>1, <1>3, <2>1, <2>2 DEF AtomInv, Undone, Settled, Unchanged, Keeps
<1>6. CASE Finishes(FailStatus)
  BY <1>1, <1>3, <1>4, <1>6, FailUndone DEF AtomInv
<1> QED BY <1>1, <1>5, <1>6

LEMMA IsOfTypeAtomic == AtomInv /\ DoIsOfType => AtomInv'
<1> SUFFICES ASSUME AtomInv, DoIsOfType PROVE AtomInv'
  OBVIOUS
<1>1. /\ RunInv' /\ Keeps /\ Instructs("type")
      /\ \/ LooksUp(run.held, run.open, run.sound)
         \/ run.held # I.type /\ Finishes(FailStatus)
  BY IsOfTypeDoes DEF AtomInv
<1>2. SameTask /\ I.do = "type"
  BY <1>1 DEF LooksUp, Advances, Finishes, Instructs
<1>3. OnlyTargets'
  BY <1>1, <1>2, OnlyTargetsStays DEF AtomInv, Keeps
<1>4. CASE LooksUp(run.held, run.open, run.sound)
  BY <1>1, <1>3, <1>4, PassUndone DEF AtomInv, LooksUp
<1>5. CASE run.held # I.type /\ Finishes(FailStatus)
  <2>1. ~Firm(I)
    BY <1>2 DEF Firm
  <2>2. Judged /\ run.op # "copy" => ~(Late(Prog, run.pc) /\ Made)
    BY <1>1, <1>2, <1>5, CarefulIs DEF Made
  <2> QED BY <1>1, <1>3, <1>5, <2>1, <2>2, FailUndone DEF AtomInv
<1> QED BY <1>1, <1>4, <1>5

LEMMA OpenAtomic == AtomInv /\ DoOpen => AtomInv'
<1> SUFFICES ASSUME AtomInv, DoOpen PROVE AtomInv'
  OBVIOUS
<1>1. /\ RunInv' /\ Keeps /\ Instructs("open") /\ I.at \in Place
      /\ \/ ~Openable /\ I.null = "error" /\ Finishes(FailStatus)
         \/ Breaks
         \/ I.looks /\ entity[At(I.at)].type # OpenedType /\ Finishes(FailStatus)
         \/ LooksUp(run.held, {h \in run.open : h.at # I.at} \union {NewHandle}, run.sound)
  BY OpenDoes DEF AtomInv
<1>2. SameTask /\ I.do = "open"
  BY <1>1 DEF LooksUp, Advances, Finishes, Breaks, Instructs
<1>3. OnlyTargets'
  BY <1>1, <1>2, OnlyTargetsStays DEF AtomInv, Keeps
<1>4. CASE LooksUp(run.held, {h \in run.open : h.at # I.at} \union {NewHandle}, run.sound)
  BY <1>1, <1>3, <1>4, PassUndone DEF AtomInv, LooksUp
<1>5. CASE ~Openable /\ I.null = "error" /\ Finishes(FailStatus)
  <2>1. ~Firm(I)
    BY <1>2, <1>5 DEF Firm
  <2>2. Judged /\ run.op # "copy" => ~(Late(Prog, run.pc) /\ Made)
    <3>1. Made => Transient(At("target")) /\ Exists(At("target"))
      BY DEF Made, Transient, Exists, None
    <3> QED BY <1>1, <1>2, <1>5, <3>1, CarefulIs DEF Openable
  <2> QED BY <1>1, <1>3, <1>5, <2>1, <2>2, FailUndone DEF AtomInv
<1>6. CASE I.looks /\ entity[At(I.at)].type # OpenedType /\ Finishes(FailStatus)
  <2>1. ~Firm(I)
    BY <1>2, <1>6 DEF Firm
  <2>2. Judged /\ run.op # "copy" => ~(Late(Prog, run.pc) /\ Made)
    BY <1>1, <1>2, <1>6, CarefulIs DEF OpenedType, Made
  <2> QED BY <1>1, <1>3, <1>6, <2>1, <2>2, FailUndone DEF AtomInv
<1>7. CASE Breaks
  BY <1>1, <1>3, <1>7, BreakUndone DEF AtomInv
<1> QED BY <1>1, <1>4, <1>5, <1>6, <1>7

LEMMA ReadAtomic == AtomInv /\ DoRead => AtomInv'
<1> SUFFICES ASSUME AtomInv, DoRead PROVE AtomInv'
  OBVIOUS
<1>1. /\ RunInv' /\ Keeps /\ Instructs("read")
      /\ (\E sound : LooksUp(run.held, run.open, sound)) \/ Breaks
  BY ReadDoes DEF AtomInv
<1>2. SameTask
  BY <1>1 DEF LooksUp, Advances, Breaks
<1>3. OnlyTargets'
  BY <1>1, <1>2, OnlyTargetsStays DEF AtomInv, Keeps
<1>4. ASSUME NEW sound, LooksUp(run.held, run.open, sound)
      PROVE  AtomInv'
  BY <1>1, <1>3, <1>4, PassUndone DEF AtomInv, LooksUp
<1>5. CASE Breaks
  BY <1>1, <1>3, <1>5, BreakUndone DEF AtomInv
<1> QED BY <1>1, <1>4, <1>5

(* After an instruction that changes something. *)
LEMMA ChangeUndone ==
    ASSUME AtomInv, NEW what, Instructs(what), Advances, meddles' = meddles, first' = first,
           Judged /\ run.op # "copy" => \/ FirmFrom(Prog, run.pc + 1)
                                        \/ Late(Prog, run.pc + 1) /\ Made'
                                        \/ Unchanged'
    PROVE  Undone'
<1>1. /\ Judged' = Judged /\ Prog' = Prog /\ run'.op = run.op /\ run'.pc = run.pc + 1
      /\ run.pc \in Nat /\ run'.status = "running"
  BY JudgedStays, SameProg, TypeOKIs, RulesHold
     DEF AtomInv, RunInv, Advances, SameTask, Instructs, Going
<1> QED BY <1>1 DEF Undone, Settled

LEMMA StoreAtomic == AtomInv /\ DoStore => AtomInv'
<1> SUFFICES ASSUME AtomInv, DoStore PROVE AtomInv'
  OBVIOUS
<1>1. /\ RunInv' /\ KeepsData /\ Instructs("store")
      /\ \/ /\ entity' = entity
            /\ LooksUp(entity[At("target")].type, run.open, run.sound)
         \/ /\ Puts(At("target"), StoredType)
            /\ LooksUp(StoredType, run.open, run.sound)
         \/ /\ entity' = entity
            /\ LooksUp(StoredType, run.open, run.sound)
         \/ entity' = entity /\ I.checked /\ Finishes(FailStatus)
  BY StoreDoes DEF AtomInv
<1>2. SameTask /\ I.do = "store" /\ meddles' = meddles /\ first' = first
  BY <1>1 DEF LooksUp, Advances, Finishes, Instructs, KeepsData
<1>3. /\ RunInv /\ Undone /\ At("target") \in Path /\ entity \in [Path -> Entity \union {None}]
      /\ run.pc # 0 /\ Going
  BY <1>1, AtPath, EnvTypes, RulesHold DEF AtomInv, RunInv, Instructs
<1>4. OnlyTargets'
  <2>1. CASE entity' = entity
    BY <1>1, <1>2, <2>1, OnlyTargetsStays DEF AtomInv, Keeps, KeepsData
  <2>2. CASE Puts(At("target"), StoredType)
    <3>1. OnlyAt(At("target"))
      BY <1>1, <1>3, <2>2 DEF OnlyAt, Puts, KeepsData
    <3> QED BY <1>2, <3>1, OnlyTargetsStays DEF AtomInv
  <2> QED BY <1>1, <2>1, <2>2
<1>5. /\ Late(Prog, run.pc + 1)
      /\ FirmFrom(Prog, run.pc) => Firm(I) /\ FirmFrom(Prog, run.pc + 1)
  BY <1>1, <1>2, LateAdvances, FirmAdvances DEF AtomInv
<1>6. ASSUME Judged, run.op # "copy"
      PROVE  Unchanged \/ FirmFrom(Prog, run.pc) \/ (Late(Prog, run.pc) /\ Made)
  BY <1>3, <1>6 DEF Undone, Settled
<1>8. CASE entity' = entity /\ LooksUp(entity[At("target")].type, run.open, run.sound)
  <2>1. ASSUME Judged, run.op # "copy"
        PROVE  \/ FirmFrom(Prog, run.pc + 1)
               \/ Late(Prog, run.pc + 1) /\ Made'
               \/ Unchanged'
    <3>1. CASE Unchanged
      BY <1>1, <1>2, <1>8, <3>1 DEF Unchanged, KeepsData
    <3>2. CASE FirmFrom(Prog, run.pc)
      BY <1>5, <3>2
    <3>3. CASE Made
      <4>1. Made'
        BY <1>8, <3>3 DEF Made, LooksUp, Advances, SameTask, At, TargetOf
      <4> QED BY <1>5, <4>1
    <3> QED BY <1>6, <2>1, <3>1, <3>2, <3>3
  <2>2. Undone'
    BY <1>1, <1>2, <1>8, <2>1, ChangeUndone DEF LooksUp
  <2> QED BY <1>1, <1>4, <2>2 DEF AtomInv
<1>9. CASE Puts(At("target"), StoredType) /\ LooksUp(StoredType, run.open, run.sound)
  <2>1. ASSUME Judged, run.op # "copy"
        PROVE  \/ FirmFrom(Prog, run.pc + 1)
               \/ Late(Prog, run.pc + 1) /\ Made'
    <3>1. CASE I.type = Makes(run.op) /\ I.type # "held"
      <4>1. entity'[At("target")] = [type |-> Makes(run.op), committed |-> FALSE] /\ run'.held = Makes(run.op)
        BY <1>3, <1>9, <3>1 DEF Puts, StoredType, LooksUp
      <4>2. run'.op = run.op /\ run'.at = run.at /\ run'.target = run.target
        BY <1>9 DEF LooksUp, Advances, SameTask
      <4>3. Made'
        BY <4>1, <4>2 DEF Made, At, TargetOf
      <4> QED BY <1>5, <4>3
    <3>2. CASE FirmFrom(Prog, run.pc + 1)
      BY <3>2
    <3>3. Makes(run.op) # "held"
      BY DEF Makes
    <3> QED BY <1>1, <1>2, <2>1, <3>1, <3>2, <3>3, CarefulIs
  <2>2. Undone'
    BY <1>1, <1>2, <1>9, <2>1, ChangeUndone DEF LooksUp
  <2> QED BY <1>1, <1>4, <2>2 DEF AtomInv
<1>10. CASE entity' = entity /\ LooksUp(StoredType, run.open, run.sound)
  <2>1. ASSUME Judged, run.op # "copy"
        PROVE  \/ FirmFrom(Prog, run.pc + 1)
               \/ Late(Prog, run.pc + 1) /\ Made'
               \/ Unchanged'
    <3>1. CASE Unchanged
      BY <1>1, <1>2, <1>10, <3>1 DEF Unchanged, KeepsData
    <3>2. CASE FirmFrom(Prog, run.pc)
      BY <1>5, <3>2
    <3>3. CASE Made
      <4>1. FirmFrom(Prog, run.pc + 1) \/ run'.held = Makes(run.op)
        BY <1>1, <1>2, <1>10, <2>1, <3>3, CarefulIs DEF LooksUp, StoredType, Made
      <4>2. run'.held = Makes(run.op) => Made'
        BY <1>10, <3>3 DEF Made, LooksUp, Advances, SameTask, At, TargetOf
      <4> QED BY <1>5, <4>1, <4>2
    <3> QED BY <1>6, <2>1, <3>1, <3>2, <3>3
  <2>2. Undone'
    BY <1>1, <1>2, <1>10, <2>1, ChangeUndone DEF LooksUp
  <2> QED BY <1>1, <1>4, <2>2 DEF AtomInv
<1>11. CASE entity' = entity /\ I.checked /\ Finishes(FailStatus)
  <2>1. ~Firm(I) /\ Keeps
    BY <1>1, <1>2, <1>11 DEF Firm, Keeps, KeepsData
  <2>2. Judged /\ run.op # "copy" => ~Late(Prog, run.pc)
    BY <1>1, <1>2, <1>11, CarefulIs
  <2> QED BY <1>1, <1>4, <1>11, <2>1, <2>2, FailUndone DEF AtomInv
<1> QED BY <1>1, <1>8, <1>9, <1>10, <1>11

LEMMA WriteAtomic == AtomInv /\ DoWrite => AtomInv'
<1> SUFFICES ASSUME AtomInv, DoWrite PROVE AtomInv'
  OBVIOUS
<1> DEFINE d == [type |-> Handle(I.at).type, from |-> IF run.sound THEN "made" ELSE "nothing"]
<1>1. /\ RunInv' /\ KeepsEntity /\ Instructs("write") /\ Advances
      /\ data' = [data EXCEPT ![At(I.at)] = d]
  BY WriteDoes DEF AtomInv, LooksUp
<1> HIDE DEF d
<1>2. /\ SameTask /\ I.do = "write" /\ meddles' = meddles /\ first' = first
      /\ data \in [Path -> Data \union {None}] /\ I.at \in Place
  BY <1>1, EnvTypes DEF AtomInv, RunInv, Advances, Instructs, KeepsEntity, Shaped
<1>3. I.at = "source" => run.op \in InPlace
  BY <1>1, <1>2, TypeOKIs, RulesHold DEF AtomInv, RunInv, Sane, Instructs, I
<1>4. OnlyAt(At(I.at))
  BY <1>1, <1>2 DEF OnlyAt, KeepsEntity
<1>5. OnlyTargets'
  <2>1. CASE I.at = "source"
    BY <1>2, <1>3, <1>4, <2>1, OnlyTargetsStays DEF AtomInv, At
  <2>2. CASE I.at = "target"
    BY <1>2, <1>4, <2>2, OnlyTargetsStays DEF AtomInv
  <2> QED BY <1>2, <2>1, <2>2 DEF Place
<1>6. Undone'
  BY <1>1, <1>2, CarefulIs, ChangeUndone
<1> QED BY <1>1, <1>5, <1>6 DEF AtomInv

LEMMA CopyBytesAtomic == AtomInv /\ DoCopyBytes => AtomInv'
<1> SUFFICES ASSUME AtomInv, DoCopyBytes PROVE AtomInv'
  OBVIOUS
<1>1. /\ RunInv' /\ KeepsEntity /\ Instructs("bytes") /\ Advances /\ run.op = "copy"
      /\ \E d : data' = [data EXCEPT ![At("target")] = d]
  BY CopyBytesDoes DEF AtomInv, LooksUp
<1>2. /\ SameTask /\ meddles' = meddles /\ first' = first
      /\ data \in [Path -> Data \union {None}]
  BY <1>1, EnvTypes DEF AtomInv, RunInv, Advances, KeepsEntity
<1>3. OnlyAt(At("target"))
  BY <1>1, <1>2 DEF OnlyAt, KeepsEntity
<1>4. OnlyTargets'
  BY <1>2, <1>3, OnlyTargetsStays DEF AtomInv
<1>5. Undone'
  BY <1>1, <1>2, ChangeUndone
<1> QED BY <1>1, <1>4, <1>5 DEF AtomInv

LEMMA DeleteAtomic == AtomInv /\ DoDelete => AtomInv'
<1> SUFFICES ASSUME AtomInv, DoDelete PROVE AtomInv'
  OBVIOUS
<1>1. /\ RunInv' /\ meddles' = meddles /\ first' = first /\ Instructs("delete") /\ Advances
      /\ entity' = [entity EXCEPT ![At("target")] = None]
      /\ data' = data \/ data' = [data EXCEPT ![At("target")] = None]
  BY DeleteDoes DEF AtomInv, LooksUp
<1>2. /\ SameTask /\ I.do = "delete"
      /\ entity \in [Path -> Entity \union {None}] /\ data \in [Path -> Data \union {None}]
  BY <1>1, EnvTypes DEF AtomInv, RunInv, Advances, Instructs
<1>3. OnlyAt(At("target"))
  BY <1>1, <1>2 DEF OnlyAt
<1>4. OnlyTargets'
  BY <1>1, <1>2, <1>3, OnlyTargetsStays DEF AtomInv
<1>5. Undone'
  BY <1>1, <1>2, CarefulIs, ChangeUndone
<1> QED BY <1>1, <1>4, <1>5 DEF AtomInv

LEMMA BetweenAtomic == AtomInv /\ ((\E p \in Path : BeginWork(p)) \/ RunEnds \/ WorkEnds) => AtomInv'
<1> SUFFICES ASSUME AtomInv, (\E p \in Path : BeginWork(p)) \/ RunEnds \/ WorkEnds PROVE AtomInv'
  OBVIOUS
<1>1. RunInv' /\ Keeps /\ Going /\ SameTask /\ Undone'
  <2>1. ASSUME NEW p \in Path, BeginWork(p)
        PROVE  RunInv' /\ Keeps /\ Going /\ SameTask /\ Undone'
    <3>1. /\ RunInv' /\ Keeps /\ SameTask /\ Going /\ run.pc = 0 /\ p \in run.todo
          /\ run'.status = "running"
      BY <2>1, BeginDoes DEF AtomInv
    <3>2. Judged' = Judged /\ run'.op = run.op
      BY <3>1, JudgedStays DEF Keeps, SameTask
    <3>3. Judged /\ run.op # "copy" => Unchanged
      <4>1. ~Late(Prog, run.pc)
        BY <3>1 DEF Late
      <4> QED BY <3>1, <4>1 DEF AtomInv, Undone, Settled
    <3>4. Undone'
      BY <3>1, <3>2, <3>3 DEF Undone, Settled, Unchanged, Keeps
    <3> QED BY <3>1, <3>4
  <2>2. ASSUME RunEnds
        PROVE  RunInv' /\ Keeps /\ Going /\ SameTask /\ Undone'
    <3>1. /\ RunInv' /\ Keeps /\ SameTask /\ Going /\ run.pc = 0 /\ run.todo = {}
          /\ run'.status = IF run.op = "copy" THEN "ok" ELSE IF run.op = "scale" THEN "error" ELSE run.last
      BY <2>2, RunEndsDoes DEF AtomInv
    <3>2. Judged' = Judged /\ run'.op = run.op
      BY <3>1, JudgedStays DEF Keeps, SameTask
    <3>3. Judged /\ run.op # "copy" => run'.status = "ok"
      BY <3>1 DEF AtomInv, RunInv, Working, Judged, Single, OnLists
    <3>4. Undone'
      BY <3>1, <3>2, <3>3 DEF Undone, Going
    <3> QED BY <3>1, <3>4
  <2>3. ASSUME WorkEnds
        PROVE  RunInv' /\ Keeps /\ Going /\ SameTask /\ Undone'
    <3>1. RunInv' /\ Keeps /\ Going /\ Finishes("ok") /\ SameTask /\ run.pc # 0
      BY <2>3, WorkEndsDoes, TypeOKIs, RulesHold DEF AtomInv, RunInv, Finishes
    <3>2. Judged' = Judged /\ run'.op = run.op
      BY <3>1, JudgedStays DEF Keeps, SameTask
    <3>3. Judged => ~run.tree /\ run.todo = {}
      BY <3>1 DEF AtomInv, RunInv, Working, Judged, Single
    <3>4. Judged => run'.status = "ok" \/ (run'.pc = 0 /\ run'.todo = {})
      BY <3>1, <3>3 DEF Finishes
    <3>5. run'.status # "error"  \/ run.tree
      BY <3>1 DEF Finishes, Going
    <3>6. run.op = "copy" => run'.status # "error"
      BY <3>1 DEF Finishes, Going
    <3>7. Undone'
      BY <3>1, <3>2, <3>3, <3>4, <3>5, <3>6 DEF Undone, Settled, Going
    <3> QED BY <3>1, <3>7
  <2> QED BY <2>1, <2>2, <2>3
<1>2. OnlyTargets'
  BY <1>1, OnlyTargetsStays DEF AtomInv, Keeps
<1> QED BY <1>1, <1>2 DEF AtomInv

LEMMA OthersAtomic ==
    AtomInv /\ (\E p \in Path : MeddleDelete(p) \/ \E type \in Stored : MeddleStore(p, type)) => AtomInv'
<1> SUFFICES ASSUME AtomInv, NEW p \in Path, MeddleDelete(p) \/ \E type \in Stored : MeddleStore(p, type)
             PROVE  AtomInv'
  OBVIOUS
<1>1. RunInv' /\ run' = run /\ meddles' # 0
  BY MeddleDoes DEF AtomInv
<1> QED BY <1>1 DEF AtomInv, OnlyTargets, Undone, Judged, Alone

LEMMA InitAtomInv == Init => AtomInv
<1> SUFFICES ASSUME Init PROVE AtomInv
  OBVIOUS
<1>1. /\ first = [entity |-> entity, data |-> data] /\ run.status = "running"
  BY InitIs DEF Started
<1>2. first.entity = entity /\ first.data = data
  BY <1>1
<1> QED BY <1>1, <1>2, InitRunInv DEF AtomInv, OnlyTargets, Undone, Settled, Unchanged

LEMMA NextAtomInv == AtomInv /\ [Next]_vars => AtomInv'
<1>1. AtomInv /\ UNCHANGED vars => AtomInv'
  <2> SUFFICES ASSUME AtomInv, UNCHANGED vars PROVE AtomInv'
    OBVIOUS
  <2>1. RunInv' /\ Keeps /\ run' = run
    BY StutterDoes DEF AtomInv
  <2>2. Judged' = Judged /\ SameTask
    BY <2>1 DEF Judged, Alone, Single, Keeps, SameTask
  <2>3. OnlyTargets'
    BY <2>1, <2>2, OnlyTargetsStays DEF AtomInv, Keeps
  <2>4. Undone'
    BY <2>1, <2>2 DEF AtomInv, Undone, Settled, Unchanged, Made, Keeps, Going, Prog, At, TargetOf
  <2> QED BY <2>1, <2>3, <2>4 DEF AtomInv
<1> QED
  BY <1>1, FailAtomic, FindAtomic, IsOfTypeAtomic, StoreAtomic, OpenAtomic, ReadAtomic, WriteAtomic,
     CopyBytesAtomic, DeleteAtomic, BetweenAtomic, OthersAtomic DEF Next, OperatorStep

(* Every step is one of AtomicRun's or none. *)
Content == IF Judged /\ run.status # "running" THEN Now ELSE Before
Status == IF Judged THEN run.status ELSE "running"

LEMMA OnlyWhileRunning ==
    ASSUME AtomInv, Next
    PROVE  /\ Going /\ SameTask /\ first' = first
           /\ Judged' => Judged /\ meddles' = meddles
<1>1. CASE OperatorStep
  <2>1. Going /\ SameTask /\ first' = first /\ meddles' = meddles
    BY <1>1, FailDoes, FindDoes, IsOfTypeDoes, StoreDoes, OpenDoes, ReadDoes, WriteDoes, CopyBytesDoes,
       DeleteDoes, BeginDoes, RunEndsDoes, WorkEndsDoes, AdvancesFrom, FinishesFrom
       DEF AtomInv, OperatorStep, LooksUp, Breaks, Keeps, KeepsData, KeepsEntity, Instructs
  <2> QED BY <2>1, JudgedStays
<1>2. CASE \E p \in Path : MeddleDelete(p) \/ \E type \in Stored : MeddleStore(p, type)
  <2>1. run' = run /\ first' = first /\ meddles' # 0 /\ Going
    BY <1>2, MeddleDoes DEF AtomInv
  <2> QED BY <2>1 DEF Judged, Alone, SameTask
<1> QED BY <1>1, <1>2 DEF Next

LEMMA StepIsAtomic ==
    ASSUME AtomInv, AtomInv', Next
    PROVE  [Whole!Next]_<<Content, Status, Targets>>
<1>1. /\ Going /\ SameTask /\ first' = first /\ (Judged' => Judged)
      /\ Targets' = Targets /\ Before' = Before
  BY OnlyWhileRunning DEF Targets, TargetOf, SameTask, Before
<1>2. Content = Before /\ Status = "running"
  BY <1>1 DEF Content, Status, Going
<1>3. CASE ~Judged' \/ run'.status = "running"
  <2>1. Content' = Before' /\ Status' = "running"
    BY <1>3 DEF Content, Status
  <2> QED BY <1>1, <1>2, <2>1
<1>4. CASE Judged' /\ run'.status # "running"
  <2>1. Content' = Now' /\ Status' = run'.status /\ Judged'
    BY <1>4 DEF Content, Status
  <2>2. \A p \in Path \ Targets : Content'[p] = Content[p]
    <3>1. \A p \in Path \ Targets : entity'[p] = first.entity[p] /\ data'[p] = first.data[p]
      BY <1>1, <2>1 DEF AtomInv, OnlyTargets, Judged
    <3> QED BY <1>2, <2>1, <3>1 DEF Now, Before
  <2>3. run'.status \in {"ok", "error", "ended"}
    BY <1>4, TypeOKIs DEF AtomInv, RunInv, TypeOK
  <2>4. CASE run'.status = "error"
    <3>1. entity' = first.entity /\ data' = first.data
      BY <1>1, <2>1, <2>4 DEF AtomInv, Undone, Unchanged
    <3>2. Content' = Content
      BY <1>1, <1>2, <2>1, <3>1 DEF Now, Before
    <3> QED BY <1>1, <1>2, <2>1, <2>4, <3>2 DEF Whole!Next, Whole!Fail, Content, Status, Targets
  <2>5. CASE run'.status # "error"
    BY <1>1, <1>2, <2>1, <2>2, <2>3, <2>5 DEF Whole!Next, Whole!Succeed, Whole!End, Whole!OthersStay, Content, Status, Targets
  <2> QED BY <2>4, <2>5
<1> QED BY <1>3, <1>4

(* An operator that works on one entity, with nobody disturbing it,        *)
(* changes its target or nothing, and nothing at all if it returns an      *)
(* error: all operators but the hasty ones implement AtomicRun.            *)
THEOREM AllOrNothing == Spec => Atomicity
<1>1. Init => Whole!Init
  <2> SUFFICES ASSUME Init PROVE Whole!Init
    OBVIOUS
  <2>1. RunInv /\ run.status = "running"
    BY InitRunInv, InitIs DEF Started
  <2>2. {TargetOf(p) : p \in run.input} \subseteq Path
    BY <2>1, PathAssumption DEF RunInv, TypeOK, TargetOf
  <2> QED BY <2>1, <2>2 DEF Whole!Init
<1>2. AtomInv /\ AtomInv' /\ [Next]_vars => [Whole!Next]_<<Content, Status, Targets>>
  <2>1. ASSUME UNCHANGED vars
        PROVE  UNCHANGED <<Content, Status, Targets>>
    BY <2>1 DEF vars, Content, Status, Targets, Judged, Alone, Single, Now, Before, TargetOf
  <2> QED BY <2>1, StepIsAtomic
<1>3. Spec => []AtomInv
  BY InitAtomInv, NextAtomInv, PTL DEF Spec
<1>4. Spec => Whole!Init /\ [][Whole!Next]_<<Content, Status, Targets>>
  BY <1>1, <1>2, <1>3, PTL DEF Spec
<1> QED BY <1>4, PTL DEF Atomicity, Whole!Spec, Content, Status, Targets

-----------------------------------------------------------------------------
(* What a success means.                                                   *)

Target == At("target")

(* An operator that makes data, alone. *)
Delivering == Alone /\ run.op \notin NoData

Written == \E j \in 1..(run.pc - 1) : Prog[j].do = "write"

OutOpened == \E j \in 1..(run.pc - 1) :
    Prog[j].do = "open" /\ Prog[j].writes /\ Prog[j].at = Out(run.op)

FirstFits == \A p \in Path :
    first.data[p] # None => /\ first.entity[p] # None /\ ~first.entity[p].committed
                            /\ first.data[p] = [type |-> first.entity[p].type, from |-> "before"]

(* What was opened for writing is of the type that is made. *)
OutFits ==
    Delivering /\ Going /\ OutOpened => Transient(Target) /\ entity[Target].type = Makes(run.op)

(* What was written. *)
OutMade ==
    Delivering /\ Going /\ Written =>
    data[Target] = [type |-> Makes(run.op), from |-> IF run.sound THEN "made" ELSE "nothing"]

(* Work on one path, whose end is not reached. *)
AtWork == Delivering /\ Single /\ Going /\ (run.pc # 0 \/ run.todo # {})

AsBefore ==
    AtWork => /\ ~Written => data = first.data
              /\ ~Late(Prog, run.pc) => entity = first.entity

(* Operators that read their source. *)
Reader == run.op \notin TargetOnly \union {"addRandomTf"}

SourceAsBefore ==
    AtWork /\ Reader => \A h \in run.open : h.at = "source" =>
        /\ first.entity[run.at] # None
        /\ h.committed = first.entity[run.at].committed /\ h.type = first.entity[run.at].type

(* A run is sound as long as what it has read could be read at first. *)
SoundStays == AtWork /\ run.pc # 0 /\ (Reader => WasReadable(run.at)) => run.sound

(* get_or_create_entity and edit_entity hold the type of what is there. *)
HeldFits ==
    Alone /\ Going /\ run.op \in {"loadBags", "edit"} =>
    /\ run.pc > Look(run.op) /\ Exists(Target) => entity[Target].type = run.held
    /\ run.op = "loadBags" /\ run.pc >= 5 => run.held = "cloud"

Delivered ==
    \A p \in run.input :
        LET q == TargetOf(p)
        IN  /\ Transient(q)
            /\ data[q] # None /\ data[q].type = entity[q].type
            /\ WasReadable(p) \/ run.op \in TargetOnly \union {"addRandomTf"} =>
                  data[q].from = "made"

Done == Going /\ run.pc = 0 /\ run.todo = {}

DoneDelivers == Delivering /\ Single /\ (run.status = "ok" \/ Done) => Delivered

(* Data belongs to an entity that may be written. *)
DataThere == Alone /\ run.op # "copy" => \A p \in Path : data[p] # None => Transient(p)

(* An entity was stored over data of another type that will be replaced. *)
Replaces(p) ==
    /\ Going /\ p = Target /\ Late(Prog, run.pc) /\ ~Written
    /\ run.op \notin NoData \union OnTrees \union OnLists

TypesFit ==
    Alone /\ run.op # "copy" /\ run.status \in {"running", "ok"} =>
    \A p \in Path : data[p] # None => data[p].type = entity[p].type \/ Replaces(p)

OutInv == OutFits /\ OutMade
OneInv == AsBefore /\ SourceAsBefore /\ SoundStays /\ DoneDelivers
FitInv == HeldFits /\ DataThere /\ TypesFit

SuccessInv == RunInv /\ FirstFits /\ OutInv /\ OneInv /\ FitInv

LEMMA TargetIs ==
    ASSUME RunInv
    PROVE  /\ Target \in Path /\ At(Out(run.op)) = Target /\ TargetOf(run.at) = Target
           /\ At("source") = run.at
<1>1. Target \in Path
  BY AtPath DEF RunInv, Target
<1> QED BY <1>1 DEF Target, At, Out, TargetOf

LEMMA TargetStays ==
    ASSUME SameTask, run'.at = run.at
    PROVE  Target' = Target
BY DEF SameTask, Target, At, TargetOf

(* The instructions before the next one, and the one that runs. *)
LEMMA HistoryAdvances ==
    ASSUME RunInv, NEW what, Instructs(what), Advances
    PROVE  /\ Written' <=> Written \/ what = "write"
           /\ OutOpened' <=> OutOpened \/ (what = "open" /\ I.writes /\ I.at = Out(run.op))
           /\ Late(Prog, run.pc)' <=> Late(Prog, run.pc) \/ what = "store"
           /\ Prog' = Prog /\ run'.pc = run.pc + 1 /\ run.pc \in Nat /\ run.pc # 0 /\ run'.pc # 0
           /\ Target' = Target /\ run'.at = run.at /\ run'.op = run.op /\ run'.todo = run.todo
           /\ run'.status = "running" /\ Single' = Single /\ run'.input = run.input
           /\ I.do = what /\ Going
<1>1. /\ Prog' = Prog /\ run'.pc = run.pc + 1 /\ run.pc \in Nat /\ run.pc # 0
      /\ Target' = Target /\ run'.at = run.at /\ run'.op = run.op /\ run'.todo = run.todo
      /\ run'.status = "running" /\ Single' = Single /\ I.do = what /\ Going /\ I = Prog[run.pc]
      /\ run'.input = run.input
  BY SameProg, TargetStays, TypeOKIs, RulesHold DEF RunInv, Advances, SameTask, Instructs, Going, I
<1>2. /\ \A j \in 1..((run.pc + 1) - 1) : j \in 1..(run.pc - 1) \/ j = run.pc
      /\ \A j \in 1..(run.pc - 1) : j \in 1..((run.pc + 1) - 1)
      /\ run.pc \in 1..((run.pc + 1) - 1) /\ run.pc + 1 # 0
  BY <1>1
<1>3. Written' <=> \E j \in 1..((run.pc + 1) - 1) : Prog[j].do = "write"
  BY <1>1 DEF Written
<1>4. OutOpened' <=> \E j \in 1..((run.pc + 1) - 1) :
                        Prog[j].do = "open" /\ Prog[j].writes /\ Prog[j].at = Out(run.op)
  BY <1>1 DEF OutOpened
<1>5. Late(Prog, run.pc)' <=> \E j \in 1..((run.pc + 1) - 1) : Prog[j].do = "store"
  BY <1>1 DEF Late
<1>6. Written' <=> Written \/ what = "write"
  BY <1>1, <1>2, <1>3 DEF Written
<1>7. OutOpened' <=> OutOpened \/ (what = "open" /\ I.writes /\ I.at = Out(run.op))
  BY <1>1, <1>2, <1>4 DEF OutOpened
<1>8. Late(Prog, run.pc)' <=> Late(Prog, run.pc) \/ what = "store"
  BY <1>1, <1>2, <1>5 DEF Late
<1> QED BY <1>1, <1>2, <1>6, <1>7, <1>8

(* The rules for the instruction that runs. *)
LEMMA Ruled ==
    ASSUME RunInv, NEW what, Instructs(what)
    PROVE  /\ run.op \notin NoData =>
                 /\ what = "write" => I.at = Out(run.op) /\ OutOpened
                 /\ Written => what = "store"
                 /\ what = "open" /\ I.at = Out(run.op) => I.type = Makes(run.op)
                 /\ what = "open" /\ ~I.looks => run.op = "loadBags"
                 /\ what = "store" => I.type = Makes(run.op) \/ run.op = "loadBags"
                 /\ what = "read" => run.op \notin TargetOnly /\ (I.at = "source" \/ run.op = "addRandomTf")
                 /\ what = "open" /\ I.at = "source" => ~Late(Prog, run.pc)
                 /\ what = "store" /\ I.known /\ run.op \in OnTrees => Written
           /\ run.op \in NoData =>
                 /\ what # "write"
                 /\ what = "store" => run.op \in {"copy", "edit"}
           /\ run.op \in {"loadBags", "edit"} =>
                 /\ run.pc < Look(run.op) => what = "fail"
                 /\ run.pc = Look(run.op) => \/ what = "find" /\ I.at = "target"
                                             \/ what = "store" /\ ~I.known
                 /\ run.pc > Look(run.op) => what # "find" /\ (what = "store" => I.type = "held")
                 /\ run.op = "loadBags" /\ run.pc = 4 => what = "type" /\ I.type = "cloud"
<1>1. /\ Writing(run.op, Prog) /\ Using(run.op, Prog) /\ run.pc \in 1..Len(Prog)
      /\ Prog[run.pc].do = what /\ I = Prog[run.pc] /\ Len(Prog) \in Nat
  BY TypeOKIs, RulesHold DEF RunInv, Instructs, I
<1>2. ASSUME run.op \notin NoData, Written
      PROVE  what = "store"
  <2>1. PICK j \in 1..(run.pc - 1) : Prog[j].do = "write"
    BY <1>2 DEF Written
  <2>2. j \in 1..Len(Prog) /\ run.pc \in (j + 1)..Len(Prog)
    BY <1>1, <2>1
  <2> QED BY <1>1, <1>2, <2>1, <2>2 DEF Writing
<1>3. ASSUME run.op \notin NoData
      PROVE  /\ what = "write" => I.at = Out(run.op) /\ OutOpened
             /\ what = "open" /\ I.at = Out(run.op) => I.type = Makes(run.op)
             /\ what = "open" /\ ~I.looks => run.op = "loadBags"
             /\ what = "store" => I.type = Makes(run.op) \/ run.op = "loadBags"
  BY <1>1, <1>3 DEF Writing, OutOpened
<1>4. ASSUME run.op \notin NoData
      PROVE  /\ what = "read" => run.op \notin TargetOnly /\ (I.at = "source" \/ run.op = "addRandomTf")
             /\ what = "open" /\ I.at = "source" => ~Late(Prog, run.pc)
             /\ what = "store" /\ I.known /\ run.op \in OnTrees => Written
  BY <1>1, <1>4 DEF Using, Written
<1>5. run.op \in NoData => what # "write" /\ (what = "store" => run.op \in {"copy", "edit"})
  BY <1>1 DEF Using
<1>6. run.op \in {"loadBags", "edit"} =>
         /\ run.pc < Look(run.op) => what = "fail"
         /\ run.pc = Look(run.op) => \/ what = "find" /\ I.at = "target"
                                     \/ what = "store" /\ ~I.known
         /\ run.pc > Look(run.op) => what # "find" /\ (what = "store" => I.type = "held")
         /\ run.op = "loadBags" /\ run.pc = 4 => what = "type" /\ I.type = "cloud"
  BY <1>1 DEF Using
<1> QED BY <1>2, <1>3, <1>4, <1>5, <1>6

(* copy promises nothing. *)
LEMMA CopySucceeds ==
    ASSUME SuccessInv, run.op = "copy", run'.op = "copy", first' = first
    PROVE  FirstFits' /\ OutInv' /\ OneInv' /\ FitInv'
<1>1. ~Delivering' /\ ~AtWork'
  BY DEF Delivering, AtWork, NoData
<1> QED BY <1>1 DEF SuccessInv, FirstFits, OutInv, OutFits, OutMade, OneInv, AsBefore, SourceAsBefore,
            SoundStays, DoneDelivers, FitInv, HeldFits, DataThere, TypesFit

(* What others change counts no more. *)
LEMMA OthersSucceed ==
    ASSUME SuccessInv, meddles' # 0, first' = first
    PROVE  FirstFits' /\ OutInv' /\ OneInv' /\ FitInv'
<1>1. ~Alone' /\ ~Delivering' /\ ~AtWork'
  BY DEF Alone, Delivering, AtWork
<1> QED BY <1>1 DEF SuccessInv, FirstFits, OutInv, OutFits, OutMade, OneInv, AsBefore, SourceAsBefore,
            SoundStays, DoneDelivers, FitInv, HeldFits, DataThere, TypesFit

(* The work on a path fails, or the process ends. *)
LEMMA FailSucceeds ==
    ASSUME SuccessInv, Going, run.pc # 0, Keeps, Finishes(FailStatus) \/ Breaks
    PROVE  FirstFits' /\ OutInv' /\ OneInv' /\ FitInv'
<1>1. run'.op = run.op /\ run'.pc = 0 /\ SameTask /\ first' = first /\ meddles' = meddles
  BY DEF Finishes, Breaks, SameTask, Keeps
<1>2. CASE run.op = "copy"
  BY <1>1, <1>2, CopySucceeds
<1>3. CASE run.op # "copy"
  <2>1. /\ run.tree \/ run'.status \in {"error", "ended"}
        /\ Single' = Single
    BY <1>1, <1>3, SameProg DEF Finishes, Breaks, FailStatus
  <2>2. Single' => ~run.tree /\ run'.status \in {"error", "ended"}
    BY <2>1 DEF Single
  <2>3. ~Written' /\ ~OutOpened'
    BY <1>1 DEF Written, OutOpened
  <2>4. OutInv' /\ OneInv'
    BY <1>1, <2>2, <2>3
       DEF OutInv, OutFits, OutMade, OneInv, AsBefore, AtWork, SourceAsBefore, SoundStays, DoneDelivers, Done, Going
  <2>5. HeldFits'
    BY <1>1 DEF HeldFits, Look
  <2>6. DataThere'
    BY <1>1 DEF SuccessInv, FitInv, DataThere, Keeps, Alone, Transient, Exists
  <2>7. TypesFit'
    <3>1. run'.status \in {"running", "ok"} => run.op \in OnTrees
      BY <2>1 DEF SuccessInv, RunInv, Working
    <3> QED BY <1>1, <3>1 DEF SuccessInv, FitInv, TypesFit, Replaces, Keeps, Alone, Going
  <2> QED BY <1>1, <2>4, <2>5, <2>6, <2>7 DEF SuccessInv, FirstFits, FitInv
<1> QED BY <1>2, <1>3

(* An instruction passes that stores and writes nothing. *)
LEMMA PassSucceeds ==
    ASSUME SuccessInv, NEW what, what \notin {"store", "write"}, Instructs(what), Advances, Keeps,
           Delivering /\ what = "open" /\ I.writes /\ I.at = Out(run.op)
              => Transient(Target) /\ entity[Target].type = Makes(run.op),
           AtWork /\ Reader => \A h \in run'.open : h.at = "source" =>
              \/ h \in run.open
              \/ /\ first.entity[run.at] # None
                 /\ h.committed = first.entity[run.at].committed /\ h.type = first.entity[run.at].type,
           AtWork /\ (Reader => WasReadable(run.at)) /\ run.sound => run'.sound,
           Alone /\ run.op \in {"loadBags", "edit"} =>
              /\ run.pc >= Look(run.op) /\ Exists(Target) => entity[Target].type = run'.held
              /\ run.op = "loadBags" /\ run.pc >= 4 => run'.held = "cloud"
    PROVE  FirstFits' /\ OutInv' /\ OneInv' /\ FitInv'
<1>1. /\ RunInv /\ (Written' <=> Written)
      /\ OutOpened' <=> OutOpened \/ (what = "open" /\ I.writes /\ I.at = Out(run.op))
      /\ Late(Prog, run.pc)' <=> Late(Prog, run.pc)
      /\ Prog' = Prog /\ run'.pc = run.pc + 1 /\ run.pc \in Nat /\ run.pc # 0 /\ run'.pc # 0
      /\ Target' = Target /\ run'.at = run.at /\ run'.op = run.op /\ run'.todo = run.todo
      /\ run'.status = "running" /\ Single' = Single /\ I.do = what /\ Going
  BY HistoryAdvances DEF SuccessInv
<1>2. /\ entity' = entity /\ data' = data /\ first' = first /\ Alone' = Alone /\ Delivering' = Delivering
      /\ AtWork' = AtWork /\ Reader' = Reader
  BY <1>1 DEF Keeps, Alone, Delivering, AtWork, Reader, Going
<1>3. ~(Delivering /\ Written)
  BY <1>1, Ruled DEF Delivering
<1>4. OutFits'
  BY <1>1, <1>2 DEF SuccessInv, OutInv, OutFits, Transient, Exists
<1>5. OutMade'
  BY <1>1, <1>2, <1>3 DEF OutMade
<1>6. AsBefore'
  BY <1>1, <1>2 DEF SuccessInv, OneInv, AsBefore
<1>7. SourceAsBefore'
  BY <1>1, <1>2 DEF SuccessInv, OneInv, SourceAsBefore
<1>8. SoundStays'
  <2>1. WasReadable(run.at)' = WasReadable(run.at)
    BY <1>1, <1>2 DEF WasReadable
  <2> QED BY <1>1, <1>2, <2>1 DEF SuccessInv, OneInv, SoundStays
<1>9. DoneDelivers'
  BY <1>1 DEF DoneDelivers, Done
<1>10. HeldFits'
  BY <1>1, <1>2 DEF HeldFits, Exists, Look
<1>11. DataThere'
  BY <1>1, <1>2 DEF SuccessInv, FitInv, DataThere, Transient, Exists
<1>12. TypesFit'
  BY <1>1, <1>2 DEF SuccessInv, FitInv, TypesFit, Replaces, Going
<1> QED BY <1>2, <1>4, <1>5, <1>6, <1>7, <1>8, <1>9, <1>10, <1>11, <1>12
         DEF SuccessInv, FirstFits, OutInv, OneInv, FitInv

(* What an instruction finds that is not the first one of these operators. *)
LEMMA HeldIs ==
    ASSUME SuccessInv, NEW what, what \notin {"find", "store"}, Instructs(what),
           Alone, run.op \in {"loadBags", "edit"}
    PROVE  /\ run.pc >= Look(run.op) /\ Exists(Target) => entity[Target].type = run.held
           /\ run.op = "loadBags" /\ run.pc >= 4 =>
                 run.held = "cloud" \/ (what = "type" /\ I.type = "cloud")
<1>1. run.pc \in Nat /\ Look(run.op) \in Nat /\ run.pc # Look(run.op) /\ Going
  BY TypeOKIs, RulesHold, Ruled DEF SuccessInv, RunInv, Instructs, Look
<1>2. /\ run.pc >= Look(run.op) => run.pc > Look(run.op)
      /\ run.pc >= 4 => run.pc >= 5 \/ run.pc = 4
  BY <1>1
<1> QED BY <1>1, <1>2, Ruled DEF SuccessInv, FitInv, HeldFits

LEMMA FailStepSucceeds == SuccessInv /\ DoFail => SuccessInv'
<1> SUFFICES ASSUME SuccessInv, DoFail PROVE SuccessInv'
  OBVIOUS
<1>1. /\ RunInv' /\ Keeps /\ Instructs("fail")
      /\ LooksUp(run.held, run.open, run.sound) \/ Finishes(FailStatus) \/ Breaks
  BY FailDoes DEF SuccessInv
<1>2. CASE LooksUp(run.held, run.open, run.sound)
  <2>1. Advances /\ run'.held = run.held /\ run'.open = run.open /\ run'.sound = run.sound
    BY <1>2 DEF LooksUp
  <2>2. Alone /\ run.op \in {"loadBags", "edit"} =>
              /\ run.pc >= Look(run.op) /\ Exists(Target) => entity[Target].type = run'.held
              /\ run.op = "loadBags" /\ run.pc >= 4 => run'.held = "cloud"
    BY <1>1, <2>1, HeldIs
  <2>3. FirstFits' /\ OutInv' /\ OneInv' /\ FitInv'
    BY <1>1, <2>1, <2>2, PassSucceeds
  <2> QED BY <1>1, <2>3 DEF SuccessInv
<1>3. CASE Finishes(FailStatus) \/ Breaks
  <2>1. Going /\ run.pc # 0
    BY <1>1, RulesHold, TypeOKIs DEF Instructs, SuccessInv, RunInv
  <2>2. FirstFits' /\ OutInv' /\ OneInv' /\ FitInv'
    BY <1>1, <1>3, <2>1, FailSucceeds
  <2> QED BY <1>1, <2>2 DEF SuccessInv
<1> QED BY <1>1, <1>2, <1>3

LEMMA FindSucceeds == SuccessInv /\ DoFind => SuccessInv'
<1> SUFFICES ASSUME SuccessInv, DoFind PROVE SuccessInv'
  OBVIOUS
<1>1. /\ RunInv' /\ Keeps /\ Instructs("find")
      /\ \/ LooksUp(entity[At(I.at)].type, run.open, run.sound)
         \/ Finishes(FailStatus)
  BY FindDoes DEF SuccessInv
<1>2. Going /\ run.pc # 0 /\ RunInv /\ run.pc \in Nat
  BY <1>1, RulesHold, TypeOKIs DEF Instructs, SuccessInv, RunInv
<1>3. CASE LooksUp(entity[At(I.at)].type, run.open, run.sound)
  <2>1. /\ Advances /\ run'.held = entity[At(I.at)].type /\ run'.open = run.open
        /\ run'.sound = run.sound
    BY <1>3 DEF LooksUp
  <2>2. run.op \in {"loadBags", "edit"} =>
              /\ run.pc >= Look(run.op) /\ Exists(Target) => entity[Target].type = run'.held
              /\ run.op = "loadBags" /\ run.pc >= 4 => run'.held = "cloud"
    <3> SUFFICES ASSUME run.op \in {"loadBags", "edit"}
                 PROVE  run.pc = Look(run.op) /\ entity[Target].type = run'.held
      BY <1>2 DEF Look
    <3>1. run.pc = Look(run.op) /\ I.at = "target"
      BY <1>1, <1>2, Ruled DEF Look
    <3> QED BY <2>1, <3>1 DEF Target
  <2>3. FirstFits' /\ OutInv' /\ OneInv' /\ FitInv'
    BY <1>1, <2>1, <2>2, PassSucceeds
  <2> QED BY <1>1, <2>3 DEF SuccessInv
<1>4. CASE Finishes(FailStatus)
  <2>1. FirstFits' /\ OutInv' /\ OneInv' /\ FitInv'
    BY <1>1, <1>2, <1>4, FailSucceeds
  <2> QED BY <1>1, <2>1 DEF SuccessInv
<1> QED BY <1>1, <1>3, <1>4

LEMMA IsOfTypeSucceeds == SuccessInv /\ DoIsOfType => SuccessInv'
<1> SUFFICES ASSUME SuccessInv, DoIsOfType PROVE SuccessInv'
  OBVIOUS
<1>1. /\ RunInv' /\ Keeps /\ Instructs("type")
      /\ \/ run.held = I.type /\ LooksUp(run.held, run.open, run.sound)
         \/ Finishes(FailStatus)
  BY IsOfTypeDoes DEF SuccessInv
<1>2. CASE run.held = I.type /\ LooksUp(run.held, run.open, run.sound)
  <2>1. Advances /\ run'.held = run.held /\ run'.open = run.open /\ run'.sound = run.sound
    BY <1>2 DEF LooksUp
  <2>2. Alone /\ run.op \in {"loadBags", "edit"} =>
              /\ run.pc >= Look(run.op) /\ Exists(Target) => entity[Target].type = run'.held
              /\ run.op = "loadBags" /\ run.pc >= 4 => run'.held = "cloud"
    BY <1>1, <1>2, <2>1, HeldIs
  <2>3. FirstFits' /\ OutInv' /\ OneInv' /\ FitInv'
    BY <1>1, <2>1, <2>2, PassSucceeds
  <2> QED BY <1>1, <2>3 DEF SuccessInv
<1>3. CASE Finishes(FailStatus)
  <2>1. Going /\ run.pc # 0
    BY <1>1, RulesHold, TypeOKIs DEF Instructs, SuccessInv, RunInv
  <2>2. FirstFits' /\ OutInv' /\ OneInv' /\ FitInv'
    BY <1>1, <1>3, <2>1, FailSucceeds
  <2> QED BY <1>1, <2>2 DEF SuccessInv
<1> QED BY <1>1, <1>2, <1>3

LEMMA OpenSucceeds == SuccessInv /\ DoOpen => SuccessInv'
<1> SUFFICES ASSUME SuccessInv, DoOpen PROVE SuccessInv'
  OBVIOUS
<1> DEFINE o == {h \in run.open : h.at # I.at} \union {NewHandle}
<1>1. /\ RunInv' /\ Keeps /\ Instructs("open") /\ I.at \in Place
      /\ \/ Finishes(FailStatus) \/ Breaks
         \/ /\ Openable /\ (I.looks => entity[At(I.at)].type = OpenedType)
            /\ LooksUp(run.held, o, run.sound)
  BY OpenDoes DEF SuccessInv
<1>2. Going /\ run.pc # 0 /\ RunInv /\ I.do = "open" /\ run \in RunType
  BY <1>1, RulesHold, TypeOKIs DEF Instructs, SuccessInv, RunInv
<1>3. CASE /\ Openable /\ (I.looks => entity[At(I.at)].type = OpenedType)
           /\ LooksUp(run.held, o, run.sound)
  <2>1. Advances /\ run'.held = run.held /\ run'.open = o /\ run'.sound = run.sound
    BY <1>3 DEF LooksUp
  <2>2. Alone /\ run.op \in {"loadBags", "edit"} =>
              /\ run.pc >= Look(run.op) /\ Exists(Target) => entity[Target].type = run.held
              /\ run.op = "loadBags" /\ run.pc >= 4 => run.held = "cloud"
    BY <1>1, HeldIs
  <2>3. ASSUME Delivering, I.writes, I.at = Out(run.op)
        PROVE  Transient(Target) /\ entity[Target].type = Makes(run.op)
    <3>1. Transient(Target) /\ At(I.at) = Target /\ Exists(Target)
      BY <1>2, <1>3, <2>3, TargetIs DEF Openable, Transient
    <3>2. I.type = Makes(run.op) /\ (~I.looks => run.op = "loadBags") /\ run.op \notin NoData
      BY <1>1, <1>2, <2>3, Ruled DEF Delivering
    <3>3. CASE I.looks
      <4>1. Makes(run.op) # "any"
        BY DEF Makes
      <4> QED BY <1>3, <3>1, <3>2, <3>3, <4>1 DEF OpenedType
    <3>4. CASE ~I.looks
      <4>1. run.op = "loadBags" /\ run.pc \in Nat /\ Alone
        BY <1>2, <2>3, <3>2, <3>4, RulesHold DEF Delivering
      <4>2. run.pc >= Look(run.op) /\ run.pc >= 4
        BY <1>1, <1>2, <4>1, Ruled DEF Look
      <4>3. run.held = "cloud" /\ Makes(run.op) = "cloud"
        BY <1>2, <2>2, <4>1, <4>2 DEF Makes
      <4> QED BY <2>2, <3>1, <4>1, <4>2, <4>3
    <3> QED BY <3>1, <3>3, <3>4
  <2>4. ASSUME AtWork, Reader, NEW h \in run'.open, h.at = "source"
        PROVE  \/ h \in run.open
               \/ /\ first.entity[run.at] # None
                  /\ h.committed = first.entity[run.at].committed /\ h.type = first.entity[run.at].type
    <3> SUFFICES ASSUME h = NewHandle
                 PROVE  /\ first.entity[run.at] # None
                        /\ h.committed = first.entity[run.at].committed
                        /\ h.type = first.entity[run.at].type
      BY <2>1, <2>4
    <3>1. I.at = "source" /\ At(I.at) = run.at
      BY <1>2, <2>4, TargetIs DEF NewHandle
    <3>2. ~Late(Prog, run.pc) /\ (~I.looks => run.op = "loadBags")
      BY <1>1, <1>2, <2>4, <3>1, Ruled DEF AtWork, Delivering
    <3>3. entity = first.entity /\ I.looks
      BY <2>4, <3>2 DEF SuccessInv, OneInv, AsBefore, Reader, TargetOnly
    <3>4. Exists(run.at)
      BY <1>3, <3>1 DEF Openable, Transient
    <3> QED BY <1>3, <3>1, <3>3, <3>4 DEF NewHandle, Exists
  <2> HIDE DEF o
  <2>5. FirstFits' /\ OutInv' /\ OneInv' /\ FitInv'
    BY <1>1, <2>1, <2>2, <2>3, <2>4, PassSucceeds
  <2> QED BY <1>1, <2>5 DEF SuccessInv
<1>4. CASE Finishes(FailStatus) \/ Breaks
  <2>1. FirstFits' /\ OutInv' /\ OneInv' /\ FitInv'
    BY <1>1, <1>2, <1>4, FailSucceeds
  <2> QED BY <1>1, <2>1 DEF SuccessInv
<1> QED BY <1>1, <1>3, <1>4

LEMMA ReadSucceeds == SuccessInv /\ DoRead => SuccessInv'
<1> SUFFICES ASSUME SuccessInv, DoRead PROVE SuccessInv'
  OBVIOUS
<1>1. /\ RunInv' /\ Keeps /\ Instructs("read") /\ Opens(Prog, run.pc, I.at)
      /\ \/ /\ Readable(I.at)
            /\ LooksUp(run.held, run.open, run.sound /\ data[At(I.at)].from # "nothing")
         \/ Breaks
         \/ /\ ~Readable(I.at)
            /\ LooksUp(run.held, run.open, run.sound /\ Handle(I.at).type = "tf")
  BY ReadDoes DEF SuccessInv
<1>2. Going /\ run.pc # 0 /\ RunInv /\ I.do = "read"
  BY <1>1, RulesHold, TypeOKIs DEF Instructs, SuccessInv, RunInv
<1>3. ASSUME NEW sound, LooksUp(run.held, run.open, sound),
             AtWork /\ (Reader => WasReadable(run.at)) /\ run.sound => sound
      PROVE  SuccessInv'
  <2>1. Advances /\ run'.held = run.held /\ run'.open = run.open /\ run'.sound = sound
    BY <1>3 DEF LooksUp
  <2>2. Alone /\ run.op \in {"loadBags", "edit"} =>
              /\ run.pc >= Look(run.op) /\ Exists(Target) => entity[Target].type = run'.held
              /\ run.op = "loadBags" /\ run.pc >= 4 => run'.held = "cloud"
    BY <1>1, <2>1, HeldIs
  <2>3. FirstFits' /\ OutInv' /\ OneInv' /\ FitInv'
    BY <1>1, <1>3, <2>1, <2>2, PassSucceeds
  <2> QED BY <1>1, <2>3 DEF SuccessInv
<1>4. ASSUME AtWork, Reader => WasReadable(run.at)
      PROVE  \/ Readable(I.at) /\ data[At(I.at)].from # "nothing"
             \/ ~Readable(I.at) /\ Handle(I.at).type = "tf"
  <2>1. run.op \notin TargetOnly /\ (I.at = "source" \/ run.op = "addRandomTf") /\ ~Written
    BY <1>1, <1>2, <1>4, Ruled DEF AtWork, Delivering
  <2>2. data = first.data
    BY <1>4, <2>1 DEF SuccessInv, OneInv, AsBefore
  <2>3. At(I.at) \in Path
    BY <1>2, AtPath DEF RunInv
  <2>4. Readable(I.at) => data[At(I.at)].from # "nothing"
    <3>1. data[At(I.at)] # None =>
             data[At(I.at)] = [type |-> first.entity[At(I.at)].type, from |-> "before"]
      BY <2>2, <2>3 DEF SuccessInv, FirstFits
    <3>2. data[At(I.at)] # None => data[At(I.at)].from = "before"
      BY <3>1
    <3> QED BY <3>2 DEF Readable
  <2>5. Handle(I.at) \in run.open /\ Handle(I.at).at = I.at
    BY <1>1, <1>2, HandleIs
  <2>6. CASE run.op = "addRandomTf"
    <3>1. PICK j \in 1..(run.pc - 1) : Prog[j].do = "open" /\ Prog[j].type \in {"any", Handle(I.at).type}
      BY <1>2, <2>5 DEF RunInv, Opened
    <3>2. j \in 1..Len(Prog) /\ Ending(run.op, Prog)
      BY <1>1, TypeOKIs, RulesHold DEF RunInv, SuccessInv, Instructs
    <3>3. Handle(I.at).type = "tf"
      BY <2>6, <3>1, <3>2 DEF Ending
    <3> QED BY <2>4, <3>3
  <2>7. CASE run.op # "addRandomTf"
    <3>1. I.at = "source" /\ Reader /\ WasReadable(run.at) /\ At(I.at) = run.at
      BY <1>2, <1>4, <2>1, <2>7, TargetIs DEF Reader
    <3>2. /\ first.entity[run.at] # None
          /\ Handle(I.at).committed = first.entity[run.at].committed
          /\ Handle(I.at).type = first.entity[run.at].type
      BY <1>4, <2>5, <3>1 DEF SuccessInv, OneInv, SourceAsBefore
    <3>3. Readable(I.at)
      BY <2>2, <2>3, <3>1, <3>2 DEF Readable, WasReadable, SuccessInv, FirstFits
    <3> QED BY <2>4, <3>3
  <2> QED BY <2>6, <2>7
<1>5. CASE Readable(I.at) /\ LooksUp(run.held, run.open, run.sound /\ data[At(I.at)].from # "nothing")
  BY <1>3, <1>4, <1>5
<1>6. CASE ~Readable(I.at) /\ LooksUp(run.held, run.open, run.sound /\ Handle(I.at).type = "tf")
  BY <1>3, <1>4, <1>6
<1>7. CASE Breaks
  <2>1. FirstFits' /\ OutInv' /\ OneInv' /\ FitInv'
    BY <1>1, <1>2, <1>7, FailSucceeds
  <2> QED BY <1>1, <2>1 DEF SuccessInv
<1> QED BY <1>1, <1>5, <1>6, <1>7

(* The type that is stored is the type that is made, or, in                *)
(* get_or_create_entity and edit_entity, of what is there.                 *)
LEMMA StoredTypeIs ==
    ASSUME SuccessInv, Instructs("store"), Alone
    PROVE  /\ run.op \notin NoData \union {"loadBags"} => StoredType = Makes(run.op)
           /\ run.op \in {"loadBags", "edit"} /\ I.known =>
                 /\ StoredType = run.held
                 /\ Exists(Target) => entity[Target].type = StoredType
           /\ run.op = "loadBags" /\ run.pc >= 4 => StoredType = "cloud" /\ run.held = "cloud"
<1>1. run.pc \in Nat /\ run.pc # 0 /\ Going /\ RunInv
  BY TypeOKIs, RulesHold DEF SuccessInv, RunInv, Instructs
<1>2. ASSUME run.op \notin NoData \union {"loadBags"}
      PROVE  StoredType = Makes(run.op)
  <2>1. I.type = Makes(run.op)
    BY <1>1, <1>2, Ruled
  <2>2. Makes(run.op) # "held"
    BY DEF Makes
  <2> QED BY <2>1, <2>2 DEF StoredType
<1>3. ASSUME run.op \in {"loadBags", "edit"}, run.pc > Look(run.op)
      PROVE  StoredType = run.held
  BY <1>1, <1>3, Ruled DEF StoredType
<1>4. ASSUME run.op \in {"loadBags", "edit"}, I.known
      PROVE  run.pc > Look(run.op)
  BY <1>1, <1>4, Ruled DEF Look
<1>5. ASSUME run.op \in {"loadBags", "edit"}, run.pc > Look(run.op), Exists(Target)
      PROVE  entity[Target].type = run.held
  BY <1>1, <1>5 DEF SuccessInv, FitInv, HeldFits
<1>6. ASSUME run.op = "loadBags", run.pc >= 4
      PROVE  run.pc > Look(run.op) /\ run.held = "cloud"
  <2>1. run.pc # 4 /\ run.pc > Look(run.op)
    BY <1>1, <1>6, Ruled DEF Look
  <2>2. run.pc >= 5
    BY <1>1, <1>6, <2>1
  <2> QED BY <1>1, <1>6, <2>1, <2>2 DEF SuccessInv, FitInv, HeldFits
<1> QED BY <1>2, <1>3, <1>4, <1>5, <1>6

(* load_bags opens its target after it has looked it up. *)
LEMMA OpensLater == ASSUME RunInv, OutOpened, run.op = "loadBags" PROVE run.pc >= 4
<1>1. /\ Using(run.op, Prog) /\ run.pc \in Nat /\ Len(Prog) \in Nat /\ run.pc <= Len(Prog) + 1
  BY TypeOKIs, RulesHold DEF RunInv, Working, Prog
<1>2. PICK j \in 1..(run.pc - 1) : Prog[j].do = "open"
  BY DEF OutOpened
<1>3. j \in 1..Len(Prog)
  BY <1>1, <1>2
<1>4. j # 1 /\ j # 2 /\ j # 3
  BY <1>1, <1>2, <1>3 DEF Using, Look
<1> QED BY <1>1, <1>2, <1>4

LEMMA StoreSucceeds == SuccessInv /\ DoStore => SuccessInv'
<1> SUFFICES ASSUME SuccessInv, DoStore PROVE SuccessInv'
  OBVIOUS
<1> DEFINE a == ~I.known /\ Exists(Target) /\ entity' = entity /\ run'.held = entity[Target].type
           b == (I.known \/ ~Exists(Target)) /\ Puts(Target, StoredType) /\ run'.held = StoredType
           c == (I.known \/ ~Exists(Target)) /\ entity' = entity /\ run'.held = StoredType
<1>1. /\ RunInv' /\ KeepsData /\ Instructs("store")
      /\ \/ (a \/ b \/ c) /\ Advances /\ run'.open = run.open /\ run'.sound = run.sound
         \/ entity' = entity /\ Finishes(FailStatus)
  BY StoreDoes DEF SuccessInv, Target, LooksUp
<1>2. /\ Going /\ run.pc # 0 /\ RunInv /\ run.pc \in Nat /\ Target \in Path
      /\ entity \in [Path -> Entity \union {None}]
  BY <1>1, RulesHold, TypeOKIs, TargetIs DEF Instructs, SuccessInv, RunInv
<1>3. CASE entity' = entity /\ Finishes(FailStatus)
  <2>1. Keeps
    BY <1>1, <1>3 DEF Keeps, KeepsData
  <2>2. FirstFits' /\ OutInv' /\ OneInv' /\ FitInv'
    BY <1>2, <1>3, <2>1, FailSucceeds
  <2> QED BY <1>1, <2>2 DEF SuccessInv
<1>4. CASE (a \/ b \/ c) /\ Advances /\ run'.open = run.open /\ run'.sound = run.sound
  <2>1. /\ (Written' <=> Written) /\ (OutOpened' <=> OutOpened) /\ Late(Prog, run.pc)'
        /\ Prog' = Prog /\ run'.pc = run.pc + 1 /\ run'.pc # 0
        /\ Target' = Target /\ run'.at = run.at /\ run'.op = run.op /\ run'.todo = run.todo
        /\ run'.status = "running" /\ Single' = Single /\ I.do = "store"
    BY <1>1, <1>2, <1>4, HistoryAdvances
  <2>2. /\ data' = data /\ first' = first /\ Alone' = Alone /\ Delivering' = Delivering
        /\ AtWork' = AtWork /\ Reader' = Reader
    BY <1>1, <1>2, <2>1 DEF KeepsData, Alone, Delivering, AtWork, Reader, Going
  <2>3. b => /\ entity'[Target] = [type |-> StoredType, committed |-> FALSE]
             /\ \A p \in Path \ {Target} : entity'[p] = entity[p]
    BY <1>2 DEF Puts
  <2>4. b => Exists(Target)' /\ Transient(Target)' /\ entity'[Target].type = StoredType
    <3>1. [type |-> StoredType, committed |-> FALSE] # None
      BY DEF None
    <3> QED BY <2>1, <2>3, <3>1 DEF Transient, Exists
  <2> HIDE DEF b
  <2>5. CASE run.op = "copy"
    BY <1>1, <2>1, <2>2, <2>5, CopySucceeds DEF SuccessInv
  <2>6. CASE run.op # "copy"
    <3>1. OutFits'
      <4>1. CASE a \/ c
        BY <2>1, <2>2, <1>2, <4>1 DEF SuccessInv, OutInv, OutFits, Transient, Exists
      <4>2. CASE b
        <5> SUFFICES ASSUME Delivering, OutOpened
                     PROVE  StoredType = Makes(run.op)
          BY <2>1, <2>2, <2>4, <4>2 DEF OutFits
        <5>1. run.op = "loadBags" => run.pc >= 4 /\ Makes(run.op) = "cloud"
          BY <1>2, OpensLater DEF Makes
        <5> QED BY <1>1, <5>1, StoredTypeIs DEF Delivering
      <4> QED BY <1>4, <4>1, <4>2
    <3>2. OutMade' /\ AsBefore'
      BY <1>2, <1>4, <2>1, <2>2 DEF SuccessInv, OutInv, OutMade, OneInv, AsBefore
    <3>3. SourceAsBefore' /\ SoundStays' /\ DoneDelivers'
      <4>1. WasReadable(run.at)' = WasReadable(run.at)
        BY <2>1, <2>2 DEF WasReadable
      <4> QED BY <1>2, <1>4, <2>1, <2>2, <4>1
              DEF SuccessInv, OneInv, SourceAsBefore, SoundStays, DoneDelivers, Done
    <3>4. HeldFits'
      <4> SUFFICES ASSUME Alone, run.op \in {"loadBags", "edit"}
                   PROVE  /\ Exists(Target)' => entity'[Target].type = run'.held
                          /\ run.op = "loadBags" /\ run.pc >= 4 => run'.held = "cloud"
        BY <1>2, <2>1, <2>2 DEF HeldFits
      <4>1. CASE a
        <5>1. Exists(Target)' => entity'[Target].type = run'.held
          BY <4>1
        <5>2. run.op = "loadBags" /\ run.pc >= 4 => run.held = "cloud"
          BY <1>1, StoredTypeIs
        <5>3. run.pc > Look(run.op) => entity[Target].type = run.held
          BY <1>2, <4>1 DEF SuccessInv, FitInv, HeldFits
        <5>4. run.op = "loadBags" /\ run.pc >= 4 => run.pc > Look(run.op)
          BY <1>2 DEF Look
        <5> QED BY <4>1, <5>1, <5>2, <5>3, <5>4
      <4>2. CASE b
        <5>1. run'.held = StoredType
          BY <4>2 DEF b
        <5> QED BY <1>1, <2>4, <4>2, <5>1, StoredTypeIs
      <4>3. CASE c
        <5>1. Exists(Target)' <=> Exists(Target)
          BY <2>1, <4>3 DEF Exists
        <5> QED BY <1>1, <4>3, <5>1, StoredTypeIs
      <4> QED BY <1>4, <4>1, <4>2, <4>3
    <3>5. DataThere'
      <4>1. Stores
        BY <1>4 DEF Stores, b, Target
      <4> QED BY <1>2, <2>1, <2>2, <2>6, <4>1, StoresKeeps DEF SuccessInv, FitInv, DataThere
    <3>6. TypesFit'
      <4> SUFFICES ASSUME Alone, NEW p \in Path, data[p] # None
                   PROVE  data[p].type = entity'[p].type \/ Replaces(p)'
        BY <2>1, <2>2 DEF TypesFit
      <4>1. data[p].type = entity[p].type \/ Replaces(p)
        BY <1>2, <2>6 DEF SuccessInv, FitInv, TypesFit, Going
      <4>2. Replaces(p) => Replaces(p)'
        BY <2>1, <2>2 DEF Replaces, Going
      <4>3. CASE entity'[p] = entity[p]
        BY <4>1, <4>2, <4>3
      <4>4. CASE b /\ p = Target
        <5>1. Exists(Target) /\ I.known
          BY <2>6, <4>4 DEF SuccessInv, FitInv, DataThere, Transient, b
        <5>2. entity'[Target].type = StoredType
          BY <2>4, <4>4
        <5>3. CASE run.op \in {"loadBags", "edit"}
          <6>1. entity[Target].type = StoredType
            BY <1>1, <5>1, <5>3, StoredTypeIs
          <6>2. ~Replaces(p)
            BY <5>3 DEF Replaces, NoData, OnLists
          <6> QED BY <4>1, <4>4, <5>2, <6>1, <6>2
        <5>4. CASE run.op \notin {"loadBags", "edit"}
          <6>1. run.op \notin NoData
            BY <1>1, <1>2, <2>6, <5>4, Ruled
          <6>2. StoredType = Makes(run.op)
            BY <1>1, <5>4, <6>1, StoredTypeIs
          <6>3. CASE Written
            <7>1. data[Target] = [type |-> Makes(run.op), from |-> IF run.sound THEN "made" ELSE "nothing"]
              BY <1>2, <6>1, <6>3 DEF SuccessInv, OutInv, OutMade, Delivering
            <7> QED BY <4>4, <5>2, <6>2, <7>1
          <6>4. CASE ~Written
            <7>1. run.op \notin OnTrees
              BY <1>1, <1>2, <5>1, <6>1, <6>4, Ruled
            <7>2. run.op \notin OnLists
              BY <5>4, <6>1 DEF OnLists, NoData
            <7> QED BY <2>1, <4>4, <6>1, <6>4, <7>1, <7>2 DEF Replaces, Going
          <6> QED BY <6>3, <6>4
        <5> QED BY <5>3, <5>4
      <4> QED BY <1>4, <2>3, <4>3, <4>4
    <3> QED BY <1>1, <2>2, <3>1, <3>2, <3>3, <3>4, <3>5, <3>6 DEF SuccessInv, FirstFits, OutInv, OneInv, FitInv
  <2> QED BY <2>5, <2>6
<1> QED BY <1>1, <1>3, <1>4

LEMMA WriteSucceeds == SuccessInv /\ DoWrite => SuccessInv'
<1> SUFFICES ASSUME SuccessInv, DoWrite PROVE SuccessInv'
  OBVIOUS
<1> DEFINE from == IF run.sound THEN "made" ELSE "nothing"
           d == [type |-> Handle(I.at).type, from |-> from]
           m == [type |-> Makes(run.op), from |-> from]
<1>1. /\ RunInv' /\ KeepsEntity /\ Instructs("write") /\ Opens(Prog, run.pc, I.at)
      /\ data' = [data EXCEPT ![At(I.at)] = d]
      /\ Advances /\ run'.held = run.held /\ run'.open = run.open /\ run'.sound = run.sound
  BY WriteDoes DEF SuccessInv, LooksUp
<1>2. /\ Going /\ run.pc # 0 /\ RunInv /\ run.pc \in Nat /\ Target \in Path
      /\ data \in [Path -> Data \union {None}]
  BY <1>1, RulesHold, TypeOKIs, TargetIs DEF Instructs, SuccessInv, RunInv
<1>3. run.op \notin NoData /\ I.at = Out(run.op) /\ OutOpened /\ At(I.at) = Target
  BY <1>1, <1>2, Ruled, TargetIs
<1>4. Handle(I.at).type = Makes(run.op)
  <2>1. Handle(I.at) \in run.open /\ Handle(I.at).at = I.at /\ Handle(I.at).type \in Type
    BY <1>1, <1>2, HandleIs
  <2>2. PICK j \in 1..(run.pc - 1) :
           Prog[j].do = "open" /\ Prog[j].at = I.at /\ Prog[j].type \in {"any", Handle(I.at).type}
    BY <1>2, <2>1 DEF RunInv, Opened
  <2>3. j \in 1..Len(Prog) /\ Writing(run.op, Prog)
    BY <1>1, TypeOKIs, RulesHold DEF RunInv, SuccessInv, Instructs
  <2>4. Prog[j].type = Makes(run.op)
    BY <1>3, <2>2, <2>3 DEF Writing
  <2>5. Makes(run.op) # "any"
    BY DEF Makes
  <2> QED BY <2>2, <2>4, <2>5
<1>5. data'[Target] = m /\ \A p \in Path \ {Target} : data'[p] = data[p]
  BY <1>1, <1>2, <1>3, <1>4
<1>6. m.type = Makes(run.op) /\ m # None
  BY DEF None
<1> HIDE DEF d
<1>7. /\ Written' /\ (OutOpened' <=> OutOpened) /\ (Late(Prog, run.pc)' <=> Late(Prog, run.pc))
      /\ Prog' = Prog /\ run'.pc = run.pc + 1 /\ run'.pc # 0
      /\ Target' = Target /\ run'.at = run.at /\ run'.op = run.op /\ run'.todo = run.todo
      /\ run'.status = "running" /\ Single' = Single
  BY <1>1, <1>2, HistoryAdvances
<1>8. /\ entity' = entity /\ first' = first /\ Alone' = Alone /\ Delivering' = Delivering
      /\ AtWork' = AtWork /\ Reader' = Reader
  BY <1>1, <1>2, <1>7 DEF KeepsEntity, Alone, Delivering, AtWork, Reader, Going
<1>9. Alone => Transient(Target) /\ entity[Target].type = Makes(run.op)
  BY <1>2, <1>3 DEF SuccessInv, OutInv, OutFits, Delivering
<1>10. OutFits' /\ OutMade'
  <2>1. OutFits'
    BY <1>2, <1>7, <1>8 DEF SuccessInv, OutInv, OutFits, Transient, Exists
  <2>2. OutMade'
    BY <1>1, <1>5, <1>7, <1>8 DEF OutMade
  <2> QED BY <2>1, <2>2
<1>11. AsBefore' /\ SourceAsBefore' /\ SoundStays' /\ DoneDelivers'
  <2>1. WasReadable(run.at)' = WasReadable(run.at)
    BY <1>7, <1>8 DEF WasReadable
  <2> QED BY <1>1, <1>2, <1>7, <1>8, <2>1
          DEF SuccessInv, OneInv, AsBefore, SourceAsBefore, SoundStays, DoneDelivers, Done
<1>12. HeldFits'
  <2>1. Alone /\ run.op \in {"loadBags", "edit"} =>
              /\ run.pc >= Look(run.op) /\ Exists(Target) => entity[Target].type = run.held
              /\ run.op = "loadBags" /\ run.pc >= 4 => run.held = "cloud"
    BY <1>1, HeldIs
  <2> QED BY <1>1, <1>2, <1>7, <1>8, <2>1 DEF HeldFits, Exists, Look
<1>13. DataThere'
  BY <1>2, <1>3, <1>5, <1>7, <1>8, <1>9 DEF SuccessInv, FitInv, DataThere, Transient, Exists, NoData
<1>14. TypesFit'
  <2> SUFFICES ASSUME Alone, run.op # "copy", NEW p \in Path, data'[p] # None
               PROVE  data'[p].type = entity[p].type
    BY <1>7, <1>8 DEF TypesFit
  <2>1. CASE p = Target
    BY <1>5, <1>6, <1>9, <2>1
  <2>2. CASE p # Target
    BY <1>2, <1>5, <2>2 DEF SuccessInv, FitInv, TypesFit, Replaces, Going
  <2> QED BY <2>1, <2>2
<1> QED BY <1>1, <1>8, <1>10, <1>11, <1>12, <1>13, <1>14 DEF SuccessInv, FirstFits, OutInv, OneInv, FitInv

LEMMA CopyBytesSucceeds == SuccessInv /\ DoCopyBytes => SuccessInv'
<1> SUFFICES ASSUME SuccessInv, DoCopyBytes PROVE SuccessInv'
  OBVIOUS
<1>1. RunInv' /\ KeepsEntity /\ Advances /\ run.op = "copy"
  BY CopyBytesDoes DEF SuccessInv, LooksUp
<1>2. run'.op = "copy" /\ first' = first
  BY <1>1 DEF Advances, SameTask, KeepsEntity
<1> QED BY <1>1, <1>2, CopySucceeds DEF SuccessInv

LEMMA DeleteSucceeds == SuccessInv /\ DoDelete => SuccessInv'
<1> SUFFICES ASSUME SuccessInv, DoDelete PROVE SuccessInv'
  OBVIOUS
<1>1. /\ RunInv' /\ meddles' = meddles /\ first' = first /\ run.op = "delete" /\ Advances
      /\ Instructs("delete")
      /\ entity' = [entity EXCEPT ![Target] = None]
      /\ \/ data' = data /\ ~Exists(Target)
         \/ data' = [data EXCEPT ![Target] = None]
  BY DeleteDoes DEF SuccessInv, LooksUp, Target
<1>2. /\ Target \in Path /\ entity \in [Path -> Entity \union {None}] /\ data \in [Path -> Data \union {None}]
      /\ Going
  BY <1>1, TypeOKIs, TargetIs DEF Instructs, SuccessInv, RunInv
<1>3. run'.op = "delete" /\ run.op \in NoData /\ run'.op # "copy" /\ run'.status = "running"
  BY <1>1, <1>2 DEF Advances, SameTask, NoData, Going
<1>4. ~Delivering' /\ ~AtWork'
  BY <1>1, <1>3 DEF Delivering, AtWork
<1>5. HeldFits'
  BY <1>3 DEF HeldFits
<1>6. ASSUME Alone, NEW p \in Path, data'[p] # None
      PROVE  p # Target /\ data'[p] = data[p] /\ entity'[p] = entity[p]
  <2>1. data[p] # None => Transient(p)
    BY <1>1, <1>6 DEF SuccessInv, FitInv, DataThere
  <2> QED BY <1>1, <1>2, <1>6, <2>1 DEF Transient
<1>7. DataThere'
  BY <1>1, <1>6 DEF SuccessInv, FitInv, DataThere, Transient, Exists, Alone
<1>8. TypesFit'
  BY <1>1, <1>2, <1>3, <1>6 DEF SuccessInv, FitInv, TypesFit, Replaces, Alone, Going
<1> QED BY <1>1, <1>4, <1>5, <1>7, <1>8
        DEF SuccessInv, FirstFits, OutInv, OutFits, OutMade, OneInv, AsBefore, SourceAsBefore,
            SoundStays, DoneDelivers, FitInv

LEMMA BeginSucceeds ==
    ASSUME SuccessInv, NEW p \in Path, BeginWork(p)
    PROVE  SuccessInv'
<1>1. /\ RunInv' /\ Keeps /\ SameTask /\ Going /\ run.pc = 0 /\ p \in run.todo
      /\ run'.at = p /\ run'.sound = TRUE
      /\ run'.pc \in {0, 1} /\ (run'.pc = 0 => run.tree)
      /\ run'.status = "running" /\ run'.open = {}
  BY BeginDoes DEF SuccessInv
<1>2. /\ first' = first /\ Alone' = Alone /\ Delivering' = Delivering /\ Single' = Single
      /\ run'.op = run.op /\ Prog' = Prog /\ entity' = entity /\ data' = data
  BY <1>1, SameProg DEF Keeps, Alone, Delivering, SameTask
<1>3. ~Written' /\ ~OutOpened' /\ ~Late(Prog, run.pc)' /\ ~Written /\ ~Late(Prog, run.pc)
  BY <1>1 DEF Written, OutOpened, Late
<1>4. AtWork' => AtWork
  BY <1>1, <1>2 DEF AtWork
<1>5. OutFits' /\ OutMade'
  BY <1>3 DEF OutFits, OutMade
<1>6. AsBefore' /\ SourceAsBefore' /\ SoundStays'
  BY <1>1, <1>2, <1>3, <1>4 DEF SuccessInv, OneInv, AsBefore, SourceAsBefore, SoundStays
<1>7. DoneDelivers'
  <2>1. Single' => run'.pc # 0
    BY <1>1 DEF Single, SameTask
  <2> QED BY <1>1, <2>1 DEF DoneDelivers, Done
<1>8. HeldFits'
  BY <1>1 DEF HeldFits, Look
<1>9. DataThere'
  BY <1>2 DEF SuccessInv, FitInv, DataThere, Transient, Exists
<1>10. TypesFit'
  BY <1>1, <1>2, <1>3 DEF SuccessInv, FitInv, TypesFit, Replaces, Going
<1> QED BY <1>1, <1>2, <1>5, <1>6, <1>7, <1>8, <1>9, <1>10
        DEF SuccessInv, FirstFits, OutInv, OneInv, FitInv

LEMMA RunEndsSucceeds == SuccessInv /\ RunEnds => SuccessInv'
<1> SUFFICES ASSUME SuccessInv, RunEnds PROVE SuccessInv'
  OBVIOUS
<1>1. /\ RunInv' /\ Keeps /\ SameTask /\ Going /\ run.pc = 0 /\ run.todo = {} /\ run'.todo = run.todo
      /\ run'.at = run.at /\ run'.pc = 0 /\ run'.status # "running"
  <2>1. run \in RunType /\ run.last \in {"ok", "error"}
    BY TypeOKIs DEF SuccessInv, RunInv, RunType
  <2>2. /\ RunInv' /\ Keeps /\ SameTask /\ Going /\ run.pc = 0 /\ run.todo = {} /\ run'.todo = run.todo
        /\ run'.at = run.at
        /\ run'.status = IF run.op = "copy" THEN "ok" ELSE IF run.op = "scale" THEN "error" ELSE run.last
    BY RunEndsDoes DEF SuccessInv
  <2>3. run'.pc = 0
    BY <2>1, EndsRun
  <2> QED BY <2>1, <2>2, <2>3
<1>2. /\ first' = first /\ Alone' = Alone /\ Delivering' = Delivering /\ Single' = Single
      /\ run'.op = run.op /\ entity' = entity /\ data' = data /\ run'.input = run.input
      /\ run'.target = run.target
  BY <1>1, SameProg DEF Keeps, Alone, Delivering, SameTask
<1>3. DoneDelivers'
  <2>1. Delivered => Delivered'
    BY <1>2 DEF Delivered, TargetOf, Transient, Exists, WasReadable
  <2> QED BY <1>1, <1>2, <2>1 DEF SuccessInv, OneInv, DoneDelivers, Done
<1>4. ~AtWork' /\ ~Going'
  BY <1>1 DEF AtWork, Going
<1>5. DataThere'
  BY <1>2 DEF SuccessInv, FitInv, DataThere, Transient, Exists
<1>6. TypesFit'
  <2>1. ~Late(Prog, run.pc)
    BY <1>1 DEF Late
  <2> QED BY <1>1, <1>2, <2>1 DEF SuccessInv, FitInv, TypesFit, Replaces, Going
<1> QED BY <1>1, <1>2, <1>3, <1>4, <1>5, <1>6
        DEF SuccessInv, FirstFits, OutInv, OutFits, OutMade, OneInv, AsBefore, SourceAsBefore,
            SoundStays, FitInv, HeldFits

LEMMA WorkEndsSucceeds == SuccessInv /\ WorkEnds => SuccessInv'
<1> SUFFICES ASSUME SuccessInv, WorkEnds PROVE SuccessInv'
  OBVIOUS
<1>1. RunInv' /\ Keeps /\ Going /\ run.pc = Len(Prog) + 1 /\ Finishes("ok")
  BY WorkEndsDoes DEF SuccessInv
<1>2. /\ RunInv /\ Len(Prog) \in Nat /\ run.pc # 0 /\ run'.pc = 0 /\ SameTask
      /\ run'.at = run.at /\ run'.todo = run.todo
      /\ Sane(run.op, Prog) /\ Writing(run.op, Prog)
  BY <1>1, TypeOKIs, RulesHold DEF SuccessInv, RunInv, Finishes
<1>3. /\ first' = first /\ Alone' = Alone /\ Delivering' = Delivering /\ Single' = Single
      /\ run'.op = run.op /\ entity' = entity /\ data' = data /\ run'.input = run.input
      /\ run'.target = run.target
  BY <1>1, <1>2, SameProg DEF Keeps, Alone, Delivering, SameTask
<1>4. Delivering => Written /\ OutOpened
  <2> SUFFICES ASSUME Delivering PROVE Written /\ OutOpened
    OBVIOUS
  <2>1. PICK i \in 1..Len(Prog) : Prog[i].do = "write"
    BY <1>2 DEF Writing, Delivering
  <2>2. \E j \in 1..(i - 1) : Prog[j].do = "open" /\ Prog[j].writes /\ Prog[j].at = Out(run.op)
    BY <1>2, <2>1 DEF Writing, Delivering
  <2>3. i \in 1..(run.pc - 1) /\ \A j \in 1..(i - 1) : j \in 1..(run.pc - 1)
    BY <1>1, <1>2
  <2> QED BY <2>1, <2>2, <2>3 DEF Written, OutOpened
<1>5. DoneDelivers'
  <2> SUFFICES ASSUME Delivering, Single PROVE Delivered'
    BY <1>3 DEF DoneDelivers
  <2>1. /\ Transient(Target) /\ entity[Target].type = Makes(run.op)
        /\ data[Target] = [type |-> Makes(run.op), from |-> IF run.sound THEN "made" ELSE "nothing"]
    BY <1>1, <1>4 DEF SuccessInv, OutInv, OutFits, OutMade
  <2>2. Reader => (WasReadable(run.at) => run.sound)
    BY <1>1, <1>2 DEF SuccessInv, OneInv, SoundStays, AtWork
  <2>3. ~Reader => run.sound
    BY <1>1, <1>2 DEF SuccessInv, OneInv, SoundStays, AtWork
  <2>4. run.input = {run.at} /\ TargetOf(run.at) = Target
    BY <1>2, TargetIs DEF RunInv, Working, Single
  <2>5. data[Target] # None /\ data[Target].type = Makes(run.op)
        /\ (run.sound => data[Target].from = "made")
    BY <2>1 DEF None
  <2>6. Delivered
    BY <2>1, <2>2, <2>3, <2>4, <2>5 DEF Delivered, Reader
  <2> QED BY <1>3, <2>6 DEF Delivered, TargetOf, Transient, Exists, WasReadable
<1>6. ~Written' /\ ~OutOpened' /\ ~Late(Prog, run.pc)'
  BY <1>2 DEF Written, OutOpened, Late
<1>7. ~AtWork' \/ ~Single'
  <2>1. Single => run.todo = {}
    BY <1>1, <1>2 DEF RunInv, Working
  <2> QED BY <1>2, <1>3, <2>1 DEF AtWork
<1>8. DataThere'
  BY <1>3 DEF SuccessInv, FitInv, DataThere, Transient, Exists
<1>9. TypesFit'
  <2>1. run.op \notin NoData /\ Alone => Written
    BY <1>4 DEF Delivering
  <2> QED BY <1>1, <1>3, <2>1 DEF SuccessInv, FitInv, TypesFit, Replaces, Going
<1> QED BY <1>1, <1>2, <1>3, <1>5, <1>6, <1>7, <1>8, <1>9
        DEF SuccessInv, FirstFits, OutInv, OutFits, OutMade, OneInv, AsBefore, SourceAsBefore,
            SoundStays, AtWork, FitInv, HeldFits, Look

LEMMA InitSuccessInv == Init => SuccessInv
<1> SUFFICES ASSUME Init PROVE SuccessInv
  OBVIOUS
<1>1. /\ first.entity = entity /\ first.data = data /\ run.pc = 0 /\ run.status = "running"
      /\ run.open = {} /\ run.todo = run.input /\ run.at \in run.input
  BY InitIs DEF Started
<1>2. FirstFits
  <2>1. PICK empty \in SUBSET Path :
          data = [p \in Path |-> IF entity[p] = None \/ p \in empty THEN None
                                 ELSE IF entity[p].committed THEN None
                                 ELSE [type |-> entity[p].type, from |-> "before"]]
    BY DEF Init
  <2>2. \A p \in Path : entity[p] # None => entity[p].committed \in BOOLEAN
    BY DEF Init
  <2> QED BY <1>1, <2>1, <2>2 DEF FirstFits
<1>3. ~Written /\ ~OutOpened /\ ~Done
  BY <1>1 DEF Written, OutOpened, Done
<1>4. DataThere /\ TypesFit
  <2>1. \A p \in Path : data[p] # None => Transient(p) /\ data[p].type = entity[p].type
    <3> SUFFICES ASSUME NEW p \in Path, data[p] # None
                 PROVE  Transient(p) /\ data[p].type = entity[p].type
      OBVIOUS
    <3>1. /\ entity[p] # None /\ ~entity[p].committed
          /\ data[p] = [type |-> entity[p].type, from |-> "before"]
      BY <1>1, <1>2 DEF FirstFits
    <3> QED BY <3>1 DEF Transient, Exists
  <2> QED BY <2>1 DEF DataThere, TypesFit
<1> QED BY <1>1, <1>2, <1>3, <1>4, InitRunInv
        DEF SuccessInv, OutInv, OutFits, OutMade, OneInv, AsBefore, SourceAsBefore, SoundStays,
            DoneDelivers, FitInv, HeldFits, Look

LEMMA NextSuccessInv == SuccessInv /\ [Next]_vars => SuccessInv'
<1>1. SuccessInv /\ UNCHANGED vars => SuccessInv'
  <2> SUFFICES ASSUME SuccessInv, UNCHANGED vars PROVE SuccessInv'
    OBVIOUS
  <2>1. RunInv' /\ run' = run /\ first' = first /\ entity' = entity /\ data' = data /\ meddles' = meddles
    BY StutterDoes DEF SuccessInv, Keeps
  <2>2. /\ Target' = Target /\ Written' = Written /\ OutOpened' = OutOpened /\ Prog' = Prog
        /\ Delivering' = Delivering /\ AtWork' = AtWork /\ Reader' = Reader /\ Going' = Going
        /\ Single' = Single /\ Alone' = Alone
    BY <2>1 DEF Target, Written, OutOpened, Prog, Delivering, AtWork, Reader, Going, Single, Alone, At, TargetOf
  <2>3. OutInv'
    BY <2>1, <2>2 DEF SuccessInv, OutInv, OutFits, OutMade, Transient, Exists
  <2>4. OneInv'
    BY <2>1, <2>2 DEF SuccessInv, OneInv, AsBefore, SourceAsBefore, SoundStays, DoneDelivers, Done,
                      WasReadable, Delivered, TargetOf, Transient, Exists
  <2>5. FitInv'
    BY <2>1, <2>2 DEF SuccessInv, FitInv, HeldFits, DataThere, TypesFit, Replaces, Transient, Exists
  <2> QED BY <2>1, <2>3, <2>4, <2>5 DEF SuccessInv, FirstFits
<1>2. SuccessInv /\ (\E p \in Path : MeddleDelete(p) \/ \E type \in Stored : MeddleStore(p, type)) => SuccessInv'
  BY MeddleDoes, OthersSucceed DEF SuccessInv
<1> QED
  BY <1>1, <1>2, FailStepSucceeds, FindSucceeds, IsOfTypeSucceeds, StoreSucceeds, OpenSucceeds,
     ReadSucceeds, WriteSucceeds, CopyBytesSucceeds, DeleteSucceeds, BeginSucceeds, RunEndsSucceeds,
     WorkEndsSucceeds DEF Next, OperatorStep

LEMMA SuccessInductive == Spec => []SuccessInv
BY InitSuccessInv, NextSuccessInv, PTL DEF Spec

(* If an operator that works on one entity succeeds, with nobody           *)
(* disturbing it, its target is there, with data of its type, and made     *)
(* from what the input held if that could be read.                         *)
THEOREM SuccessDelivers == Spec => []Delivers
<1>1. SuccessInv => Delivers
  BY DEF SuccessInv, OneInv, DoneDelivers, Delivered, Delivering, NoData, Delivers
<1> QED BY <1>1, SuccessInductive, PTL

(* After a success the data of every entity is of the entity's type,       *)
(* whatever list or tree the operator went through.                        *)
THEOREM SuccessFits == Spec => []Fitting
<1>1. SuccessInv => Fitting
  BY DEF SuccessInv, FitInv, TypesFit, Fitting, Replaces, Going
<1> QED BY <1>1, SuccessInductive, PTL

=============================================================================
