-------------------------- MODULE TransformsProofs --------------------------
(***************************************************************************)
(* Proofs about Transforms for all frames, lists, stamps and bounds: the   *)
(* files of the lists keep their form, what is stored is only lost where   *)
(* an operator says so, lookups find what is stored, and tf-combine gives  *)
(* the old transforms with the new ones.                                   *)
(*                                                                         *)
(* Lists are built by folds.  A fold is a recursive function on the sets   *)
(* of the positions that are done; that there is such a function, and that *)
(* what holds at each step holds at the end, is shown first and used for   *)
(* each fold of the model.                                                 *)
(***************************************************************************)
EXTENDS Transforms, WellFoundedInduction, SequenceTheorems, TLAPS

-----------------------------------------------------------------------------
(* Induction, as an argument about the least number for which something    *)
(* fails, and from it that there is the function which a fold stands for,  *)
(* and that what holds at each step holds at the end.                      *)

LEMMA Least ==
    ASSUME NEW T \in SUBSET Nat, T # {}
    PROVE  \E x \in T : \A y \in T : ~(y < x)
<1> DEFINE R == {ss \in Nat \X Nat : ss[1] < ss[2]}
<1>1. IsWellFoundedOn(R, Nat)
  BY NatLessThanWellFounded DEF OpToRel
<1>2. \A x, y \in Nat : y < x => <<y, x>> \in R
  OBVIOUS
<1> HIDE DEF R
<1>3. PICK x \in T : \A y \in T : ~(<<y, x>> \in R)
  BY <1>1, WFMin
<1> QED BY <1>2, <1>3

LEMMA Induction ==
    ASSUME NEW S, 0 \in S, \A n \in Nat : n \in S => n + 1 \in S
    PROVE  \A n \in Nat : n \in S
<1> SUFFICES ASSUME Nat \ S # {}
             PROVE  FALSE
  OBVIOUS
<1>1. PICK x \in Nat \ S : \A y \in Nat \ S : ~(y < x)
  BY Least
<1>2. x - 1 \in Nat /\ x - 1 < x /\ (x - 1) + 1 = x
  BY <1>1
<1> QED BY <1>1, <1>2

(* Min and Max are what their names say. *)
LEMMA MinIs ==
    ASSUME NEW s \in SUBSET Nat, s # {}
    PROVE  Min(s) \in s /\ \A y \in s : Min(s) <= y
<1>1. PICK x \in s : \A y \in s : ~(y < x)
  BY Least
<1>2. \A y \in s : x <= y
  BY <1>1
<1> QED BY <1>1, <1>2 DEF Min

LEMMA MaxIs ==
    ASSUME NEW n \in Nat, NEW s \in SUBSET (0..n), s # {}
    PROVE  Max(s) \in s /\ \A y \in s : Max(s) >= y
<1> DEFINE T == {n - x : x \in s}
<1>1. T \in SUBSET Nat /\ T # {}
  <2>1. \A x \in s : n - x \in Nat
    OBVIOUS
  <2> QED BY <2>1
<1> HIDE DEF T
<1>2. PICK m \in T : \A y \in T : ~(y < m)
  BY <1>1, Least
<1>3. PICK x \in s : m = n - x
  BY <1>2 DEF T
<1>4. ASSUME NEW y \in s
      PROVE  x >= y
  <2>1. n - y \in T /\ x \in Nat /\ y \in Nat
    BY <1>3 DEF T
  <2>2. ~(n - y < n - x)
    BY <1>2, <1>3, <2>1
  <2> QED BY <2>1, <2>2
<1> QED BY <1>3, <1>4 DEF Max

(* The function a fold of n elements stands for. *)
Folds(n, base, g, f) ==
    \A s \in SUBSET (1..n) : f[s] = IF s = {} THEN base ELSE g[Max(s)][f[s \ {Max(s)}]]

LEMMA FoldExists ==
    ASSUME NEW n \in Nat, NEW D, NEW base \in D, NEW g \in [1..n -> [D -> D]]
    PROVE  \E f \in [SUBSET (1..n) -> D] : Folds(n, base, g, f)
<1> DEFINE S == {m \in Nat : m > n \/ \E f \in [SUBSET (1..m) -> D] : Folds(m, base, g, f)}
<1>1. 0 \in S
  <2> DEFINE f == [s \in SUBSET (1..0) |-> base]
  <2>1. f \in [SUBSET (1..0) -> D] /\ Folds(0, base, g, f)
    BY DEF Folds
  <2> QED BY <2>1
<1>2. ASSUME NEW m \in Nat, m \in S
      PROVE  m + 1 \in S
  <2>0. m + 1 > n \/ m + 1 <= n
    OBVIOUS
  <2>1. CASE m + 1 > n
    BY <2>1
  <2>2. CASE m + 1 <= n
    <3>1. PICK f \in [SUBSET (1..m) -> D] : Folds(m, base, g, f)
      <4>1. ~(m + 1 > n) /\ ~(m > n)
        BY <2>2
      <4> QED BY <1>2, <4>1
    <3>2. m + 1 \in 1..n /\ g[m + 1] \in [D -> D]
      BY <2>2
    <3> DEFINE q == [s \in SUBSET (1..(m + 1)) |->
                       IF m + 1 \in s THEN g[m + 1][f[s \ {m + 1}]] ELSE f[s]]
    <3>3. ASSUME NEW s \in SUBSET (1..(m + 1))
          PROVE  /\ s \ {m + 1} \in SUBSET (1..m)
                 /\ m + 1 \notin s => s \in SUBSET (1..m)
      OBVIOUS
    <3>4. q \in [SUBSET (1..(m + 1)) -> D]
      <4>1. ASSUME NEW s \in SUBSET (1..(m + 1))
            PROVE  (IF m + 1 \in s THEN g[m + 1][f[s \ {m + 1}]] ELSE f[s]) \in D
        BY <3>1, <3>2, <3>3
      <4> QED BY <4>1
    <3>5. ASSUME NEW s \in SUBSET (1..(m + 1)), s # {}
          PROVE  q[s] = g[Max(s)][q[s \ {Max(s)}]]
      <4>1. CASE m + 1 \in s
        <5>1. s \in SUBSET (0..(m + 1)) /\ m + 1 \in Nat
          OBVIOUS
        <5>2. Max(s) = m + 1
          <6>1. Max(s) \in s /\ Max(s) >= m + 1
            BY ONLY <4>1, <5>1, <3>5, MaxIs
          <6>2. \A x \in s : x >= m + 1 => x = m + 1
            OBVIOUS
          <6> QED BY <6>1, <6>2
        <5>3. s \ {m + 1} \in SUBSET (1..(m + 1)) /\ m + 1 \notin s \ {m + 1}
          OBVIOUS
        <5>4. q[s \ {m + 1}] = f[s \ {m + 1}]
          BY <5>3
        <5>5. q[s] = g[m + 1][f[s \ {m + 1}]]
          BY <4>1
        <5> QED BY <5>2, <5>4, <5>5
      <4>2. CASE m + 1 \notin s
        <5>1. s \in SUBSET (1..m)
          BY <3>3, <4>2
        <5>2. f[s] = g[Max(s)][f[s \ {Max(s)}]]
          BY <3>1, <3>5, <5>1 DEF Folds
        <5>3. s \ {Max(s)} \in SUBSET (1..(m + 1)) /\ m + 1 \notin s \ {Max(s)}
          BY <4>2
        <5>4. q[s \ {Max(s)}] = f[s \ {Max(s)}] /\ q[s] = f[s]
          BY <4>2, <5>3
        <5> QED BY <5>2, <5>4
      <4> QED BY <4>1, <4>2
    <3>6. q[{}] = base
      <4>1. {} \in SUBSET (1..(m + 1)) /\ {} \in SUBSET (1..m) /\ m + 1 \notin {}
        OBVIOUS
      <4>2. f[{}] = base
        BY <3>1, <4>1 DEF Folds
      <4> QED BY <4>1, <4>2
    <3> HIDE DEF q
    <3>7. Folds(m + 1, base, g, q)
      BY <3>5, <3>6 DEF Folds
    <3> QED BY <3>4, <3>7
  <2> QED BY <2>0, <2>1, <2>2
<1> HIDE DEF S
<1>3. n \in S
  BY <1>1, <1>2, Induction
<1>4. ~(n > n)
  OBVIOUS
<1> QED BY <1>3, <1>4 DEF S

(* What holds before a fold and after each element holds after all. *)
LEMMA FoldKeeps ==
    ASSUME NEW n \in Nat, NEW f, NEW P,
           f[{}] \in P,
           \A i \in 1..n : f[1..(i - 1)] \in P => f[1..i] \in P
    PROVE  \A m \in 0..n : f[1..m] \in P
<1> DEFINE S == {m \in Nat : m > n \/ f[1..m] \in P}
<1>1. 0 \in S
  <2>1. 1..0 = {}
    OBVIOUS
  <2> QED BY <2>1
<1>2. ASSUME NEW m \in Nat, m \in S
      PROVE  m + 1 \in S
  <2>1. CASE m + 1 > n
    BY <2>1
  <2>2. CASE m + 1 <= n
    <3>1. m + 1 \in 1..n /\ (m + 1) - 1 = m /\ f[1..m] \in P
      BY <1>2, <2>2
    <3>2. f[1..(m + 1)] \in P
      BY <3>1
    <3> QED BY <3>2
  <2> QED BY <2>1, <2>2
<1> HIDE DEF S
<1>3. \A m \in Nat : m \in S
  BY <1>1, <1>2, Induction
<1> SUFFICES ASSUME NEW m \in 0..n
             PROVE  f[1..m] \in P
  OBVIOUS
<1>4. m \in Nat /\ ~(m > n)
  OBVIOUS
<1> QED BY <1>3, <1>4 DEF S

(* The last element of what is done. *)
LEMMA FoldTurns ==
    ASSUME NEW n \in Nat, NEW i \in 1..n
    PROVE  /\ 1..i \in SUBSET (1..n) /\ 1..i # {}
           /\ Max(1..i) = i
           /\ (1..i) \ {i} = 1..(i - 1)
<1>1. 1..i \in SUBSET (0..n) /\ i \in 1..i
  OBVIOUS
<1>2. Max(1..i) \in 1..i /\ Max(1..i) >= i
  BY ONLY <1>1, n \in Nat, MaxIs
<1> QED BY <1>1, <1>2

(* What holds at the start and goes on at each step holds at each step. *)
LEMMA Along ==
    ASSUME NEW n \in Nat, NEW a \in 0..n, NEW P, a \in P, \A i \in (a + 1)..n : i - 1 \in P => i \in P
    PROVE  \A m \in a..n : m \in P
<1> DEFINE S == {m \in Nat : m < a \/ m > n \/ m \in P}
<1>1. 0 \in S
  <2>1. 0 < a \/ 0 = a
    OBVIOUS
  <2> QED BY <2>1
<1>2. ASSUME NEW m \in Nat, m \in S
      PROVE  m + 1 \in S
  <2>1. m + 1 < a \/ m + 1 > n \/ m + 1 = a \/ (m + 1 \in (a + 1)..n /\ (m + 1) - 1 = m /\ ~(m < a) /\ ~(m > n))
    OBVIOUS
  <2>2. CASE m + 1 \in (a + 1)..n /\ (m + 1) - 1 = m /\ ~(m < a) /\ ~(m > n)
    <3>1. m \in P
      BY <1>2, <2>2
    <3>2. m + 1 \in P
      BY <2>2, <3>1
    <3> QED BY <3>2
  <2> QED BY <2>1, <2>2
<1> HIDE DEF S
<1>3. \A m \in Nat : m \in S
  BY <1>1, <1>2, Induction
<1> SUFFICES ASSUME NEW m \in a..n
             PROVE  m \in P
  OBVIOUS
<1>4. m \in Nat /\ ~(m > n) /\ ~(m < a)
  OBVIOUS
<1> QED BY <1>3, <1>4 DEF S

LEMMA Elements ==
    ASSUME NEW E, NEW xs \in Seq(E)
    PROVE  /\ Len(xs) \in Nat /\ DOMAIN xs = 1..Len(xs)
           /\ \A i \in 1..Len(xs) : xs[i] \in E
           /\ ToSet(xs) \subseteq E
BY DEF ToSet

LEMMA Appended ==
    ASSUME NEW E, NEW xs \in Seq(E), NEW x \in E
    PROVE  /\ Append(xs, x) \in Seq(E)
           /\ Append(xs, x) # <<>>
           /\ ToSet(Append(xs, x)) = ToSet(xs) \union {x}
<1>1. Append(xs, x) \in Seq(E) /\ Append(xs, x) # <<>>
  BY AppendProperties
<1>2. /\ Len(xs) \in Nat /\ Len(Append(xs, x)) = Len(xs) + 1
      /\ \A i \in 1..Len(xs) : Append(xs, x)[i] = xs[i]
      /\ Append(xs, x)[Len(xs) + 1] = x
  BY AppendProperties
<1>3. DOMAIN xs = 1..Len(xs) /\ DOMAIN Append(xs, x) = 1..(Len(xs) + 1)
  BY <1>1, <1>2, Elements
<1>4. \A i \in 1..(Len(xs) + 1) : i \in 1..Len(xs) \/ i = Len(xs) + 1
  BY <1>2
<1>5. \A i \in 1..Len(xs) : i \in 1..(Len(xs) + 1)
  BY <1>2
<1>6. Len(xs) + 1 \in 1..(Len(xs) + 1)
  BY <1>2
<1> QED BY <1>1, <1>2, <1>3, <1>4, <1>5, <1>6 DEF ToSet

LEMMA Joined ==
    ASSUME NEW E, NEW xs \in Seq(E), NEW ys \in Seq(E)
    PROVE  ToSet(xs \o ys) = ToSet(xs) \union ToSet(ys)
<1> DEFINE m == Len(xs)
           n == Len(ys)
           zs == xs \o ys
<1>1. m \in Nat /\ n \in Nat /\ Len(zs) = m + n /\ zs \in Seq(E)
  BY ConcatProperties
<1>2. /\ \A i \in 1..m : zs[i] = xs[i]
      /\ \A i \in 1..n : m + i \in 1..(m + n) /\ zs[m + i] = ys[i]
      /\ \A i \in 1..(m + n) : i \in 1..m \/ (i - m \in 1..n /\ zs[i] = ys[i - m])
  BY <1>1
<1>3. /\ ToSet(xs) = {xs[i] : i \in 1..m} /\ ToSet(ys) = {ys[i] : i \in 1..n}
      /\ ToSet(zs) = {zs[i] : i \in 1..(m + n)} /\ 1..m \subseteq 1..(m + n)
  BY <1>1, Elements DEF ToSet
<1> HIDE DEF m, n, zs
<1> QED BY <1>2, <1>3 DEF zs

-----------------------------------------------------------------------------
(* Lists and files, over the transforms they may hold.                     *)

FileOver(E) == [is : {"missing", "empty", "list"}, static : BOOLEAN, transforms : Seq(E)]

(* A list in memory has no transforms without frames; a file has frames    *)
(* exactly if it has transforms.                                           *)
ListOver(E) == {f \in FileOver(E) : f.is # "list" => f.transforms = <<>>}
StoredOver(E) == {f \in FileOver(E) : f.is = "list" <=> f.transforms # <<>>}

Holds(f) == ToSet(f.transforms)

(* More kinds of transforms allow more files. *)
LEMMA FilesGrow ==
    ASSUME NEW E, NEW F, E \subseteq F
    PROVE  /\ FileOver(E) \subseteq FileOver(F)
           /\ ListOver(E) \subseteq ListOver(F)
           /\ StoredOver(E) \subseteq StoredOver(F)
<1>1. Seq(E) \subseteq Seq(F)
  BY SeqMonotonic
<1> QED BY <1>1 DEF FileOver, ListOver, StoredOver

(* add_TransformStamped keeps what is in the list. *)
LEMMA AddTransformIs ==
    ASSUME NEW E, NEW list \in ListOver(E), NEW x \in E, NEW static
    PROVE  /\ AddTransform(list, x, static) \in ListOver(E)
           /\ AddTransform(list, x, static).is = list.is
           /\ Holds(list) \subseteq Holds(AddTransform(list, x, static))
           /\ list.is = "list" /\ list.static = static =>
                 /\ AddTransform(list, x, static).static = static
                 /\ Holds(AddTransform(list, x, static)) = Holds(list) \union {x}
<1>1. list.transforms \in Seq(E)
  BY DEF ListOver, FileOver
<1>2. Append(list.transforms, x) \in Seq(E)
      /\ ToSet(Append(list.transforms, x)) = ToSet(list.transforms) \union {x}
  BY <1>1, Appended
<1> DEFINE new == [list EXCEPT !.transforms = Append(@, x)]
<1>3. CASE list.is = "list" /\ list.static = static
  <2>1. AddTransform(list, x, static) = new
    BY <1>3 DEF AddTransform
  <2>2. new \in FileOver(E) /\ new.is = list.is /\ new.transforms = Append(list.transforms, x)
        /\ new.static = list.static
    BY <1>2 DEF ListOver, FileOver
  <2> HIDE DEF new
  <2> QED BY <1>2, <1>3, <2>1, <2>2 DEF ListOver, Holds
<1>4. CASE ~(list.is = "list" /\ list.static = static)
  BY <1>4 DEF AddTransform
<1> QED BY <1>3, <1>4

LEMMA NewListIs ==
    ASSUME NEW E, NEW static \in BOOLEAN
    PROVE  NewList(static) \in ListOver(E) /\ NewList(static).is = "list"
<1>1. <<>> \in Seq(E)
  OBVIOUS
<1> QED BY <1>1 DEF NewList, ListOver, FileOver

LEMMA MissingIs ==
    ASSUME NEW E
    PROVE  /\ Missing \in StoredOver(E) /\ Empty \in StoredOver(E)
           /\ Missing \in ListOver(E)
           /\ Missing.is = "missing" /\ Empty.is = "empty"
           /\ Holds(Missing) = {} /\ Holds(Empty) = {}
<1>1. <<>> \in Seq(E) /\ ToSet(<<>>) = {}
  BY DEF ToSet
<1> QED BY <1>1 DEF Missing, Empty, ListOver, StoredOver, FileOver, Holds

LEMMA ListOfIs ==
    ASSUME NEW E, NEW file \in StoredOver(E), NEW static \in BOOLEAN
    PROVE  /\ ListOf(file, static) \in ListOver(E)
           /\ ListOf(file, static).is # "missing"
           /\ Holds(ListOf(file, static)) = Holds(file)
<1>1. CASE file.is = "missing"
  <2>1. file.transforms = <<>>
    BY <1>1 DEF StoredOver
  <2> QED BY <1>1, <2>1, NewListIs DEF ListOf, NewList, Holds
<1>2. CASE file.is # "missing"
  BY <1>2 DEF ListOf, StoredOver, ListOver
<1> QED BY <1>1, <1>2

LEMMA FileOfIs ==
    ASSUME NEW E, NEW list \in ListOver(E)
    PROVE  /\ FileOf(list) \in StoredOver(E)
           /\ FileOf(list).is # "missing"
           /\ Holds(FileOf(list)) = Holds(list)
<1>1. CASE list.transforms = <<>>
  BY <1>1, MissingIs DEF FileOf, Holds, Empty
<1>2. CASE list.transforms # <<>>
  BY <1>2 DEF FileOf, ListOver, StoredOver
<1> QED BY <1>1, <1>2

(* A list that takes transforms which are static or not. *)
Takes(file, static) == file.is = "missing" \/ (file.is = "list" /\ file.static = static)

(* mapit_add_tf keeps what is in the file, and leaves a file. *)
LEMMA AddTfIs ==
    ASSUME NEW E, NEW file \in StoredOver(E), NEW x \in E, NEW static \in BOOLEAN
    PROVE  /\ AddTf(file, x, static) \in StoredOver(E)
           /\ AddTf(file, x, static).is # "missing"
           /\ Holds(file) \subseteq Holds(AddTf(file, x, static))
           /\ Takes(file, static) => /\ Takes(AddTf(file, x, static), static)
                                     /\ Holds(AddTf(file, x, static)) = Holds(file) \union {x}
<1> DEFINE list == ListOf(file, static)
           new == AddTransform(list, x, static)
           out == FileOf(new)
<1>1. /\ list \in ListOver(E) /\ list.is # "missing" /\ Holds(list) = Holds(file)
      /\ Takes(file, static) => list.is = "list" /\ list.static = static
  <2>1. Takes(file, static) => list.is = "list" /\ list.static = static
    BY DEF Takes, ListOf, NewList
  <2> HIDE DEF list
  <2> QED BY <2>1, ListOfIs DEF list
<1>2. AddTf(file, x, static) = out
  BY DEF AddTf
<1> HIDE DEF list
<1>3. /\ new \in ListOver(E) /\ new.is = list.is /\ Holds(list) \subseteq Holds(new)
      /\ list.is = "list" /\ list.static = static =>
            new.static = static /\ Holds(new) = Holds(list) \union {x}
  BY <1>1, AddTransformIs
<1> HIDE DEF new
<1>4. out \in StoredOver(E) /\ out.is # "missing" /\ Holds(out) = Holds(new)
  BY <1>3, FileOfIs
<1>5. ASSUME Takes(file, static)
      PROVE  Takes(out, static)
  <2>1. Holds(new) # {}
    BY <1>1, <1>3, <1>5
  <2>2. new.transforms # <<>>
    BY <2>1 DEF Holds, ToSet
  <2>3. out = new
    BY <2>2 DEF FileOf
  <2> QED BY <1>1, <1>3, <1>5, <2>3 DEF Takes
<1> HIDE DEF out
<1> QED BY <1>1, <1>2, <1>3, <1>4, <1>5

-----------------------------------------------------------------------------
(* The folds of the model, each over a sequence of transforms.             *)

(* What can hold after a fold over files. *)
Keeping(E, file) == {f \in StoredOver(E) : Holds(file) \subseteq Holds(f)}

(* mapit_add_tf for one transform after the other *)
LEMMA AddAllTfsIs ==
    ASSUME NEW E, NEW file \in StoredOver(E), NEW xs \in Seq(E), NEW static \in BOOLEAN
    PROVE  /\ AddAllTfs(file, xs, static) \in Keeping(E, file)
           /\ xs # <<>> => AddAllTfs(file, xs, static).is # "missing"
           /\ Takes(file, static) => /\ Takes(AddAllTfs(file, xs, static), static)
                                     /\ Holds(AddAllTfs(file, xs, static)) = Holds(file) \union ToSet(xs)
<1> DEFINE n == Len(xs)
           D == Keeping(E, file)
           g == [i \in 1..n |-> [d \in D |-> AddTf(d, xs[i], static)]]
<1>1. n \in Nat /\ DOMAIN xs = 1..n /\ \A i \in 1..n : xs[i] \in E
  BY Elements
<1>2. file \in D
  BY DEF Keeping
<1>3. ASSUME NEW i \in 1..n, NEW d \in D
      PROVE  AddTf(d, xs[i], static) \in D /\ AddTf(d, xs[i], static).is # "missing"
  BY <1>1, AddTfIs DEF Keeping
<1> HIDE DEF D
<1>4. g \in [1..n -> [D -> D]]
  BY <1>3
<1>5. PICK f \in [SUBSET (1..n) -> D] : Folds(n, file, g, f)
  BY <1>1, <1>2, <1>4, FoldExists
<1>6. f = [s \in SUBSET (1..n) |-> IF s = {} THEN file
                                   ELSE AddTf(f[s \ {Max(s)}], xs[Max(s)], static)]
  <2>1. ASSUME NEW s \in SUBSET (1..n), s # {}
        PROVE  f[s] = AddTf(f[s \ {Max(s)}], xs[Max(s)], static)
    <3>1. s \in SUBSET (0..n)
      BY <1>1
    <3>2. Max(s) \in 1..n
      BY <1>1, <2>1, <3>1, MaxIs
    <3>3. f[s \ {Max(s)}] \in D
      OBVIOUS
    <3> QED BY <1>5, <2>1, <3>2, <3>3 DEF Folds
  <2>2. f[{}] = file
    BY <1>5 DEF Folds
  <2> QED BY <2>1, <2>2
<1> HIDE DEF g
<1> DEFINE h == CHOOSE h : h = [s \in SUBSET (DOMAIN xs) |->
                                  IF s = {} THEN file
                                  ELSE AddTf(h[s \ {Max(s)}], xs[Max(s)], static)]
<1>7. /\ AddAllTfs(file, xs, static) = h[1..n]
      /\ h = [s \in SUBSET (1..n) |-> IF s = {} THEN file
                                      ELSE AddTf(h[s \ {Max(s)}], xs[Max(s)], static)]
  <2>1. AddAllTfs(file, xs, static) = h[DOMAIN xs]
    BY DEF AddAllTfs, FoldLeft, MapThenFoldSet
  <2>2. h = [s \in SUBSET (DOMAIN xs) |-> IF s = {} THEN file
                                         ELSE AddTf(h[s \ {Max(s)}], xs[Max(s)], static)]
    BY <1>1, <1>6
  <2> QED BY <1>1, <2>1, <2>2
<1> HIDE DEF h
<1>8. h[{}] = file
  BY <1>7
<1>9. ASSUME NEW i \in 1..n
      PROVE  h[1..i] = AddTf(h[1..(i - 1)], xs[i], static)
  <2> DEFINE s == 1..i
  <2>1. s \in SUBSET (1..n) /\ s # {} /\ Max(s) = i /\ s \ {i} = 1..(i - 1)
    BY <1>1, FoldTurns
  <2> HIDE DEF s
  <2>2. h[s] = AddTf(h[s \ {Max(s)}], xs[Max(s)], static)
    BY <1>7, <2>1
  <2> QED BY <2>1, <2>2 DEF s
<1>10. \A m \in 0..n : h[1..m] \in D
  <2>1. \A i \in 1..n : h[1..(i - 1)] \in D => h[1..i] \in D
    BY <1>3, <1>9
  <2> QED BY <1>1, <1>2, <1>8, <2>1, FoldKeeps
<1>11. h[1..n] \in D
  BY <1>1, <1>10
<1>12. ASSUME xs # <<>>
       PROVE  h[1..n].is # "missing"
  <2>1. n \in 1..n /\ n - 1 \in 0..n
    BY <1>1, <1>12, EmptySeq
  <2> QED BY <1>3, <1>9, <1>10, <2>1
<1>13. ASSUME Takes(file, static)
       PROVE  Takes(h[1..n], static) /\ Holds(h[1..n]) = Holds(file) \union ToSet(xs)
  <2> DEFINE Now(i) == Takes(h[1..i], static) /\ Holds(h[1..i]) = Holds(file) \union {xs[k] : k \in 1..i}
             P == {i \in 0..n : Now(i)}
  <2>1. 0 \in P /\ 0 \in 0..n
    <3>1. 1..0 = {} /\ 0 \in 0..n /\ {xs[k] : k \in 1..0} = {}
      BY <1>1
    <3> QED BY <1>8, <1>13, <3>1
  <2>2. ASSUME NEW i \in (0 + 1)..n, i - 1 \in P
        PROVE  i \in P
    <3>1. i \in 1..n /\ i \in 0..n /\ i - 1 \in 0..n
      BY <1>1
    <3>2. h[1..(i - 1)] \in StoredOver(E) /\ xs[i] \in E
      BY <1>1, <1>10, <3>1 DEF D, Keeping
    <3>3. Takes(h[1..(i - 1)], static) /\ Holds(h[1..(i - 1)]) = Holds(file) \union {xs[k] : k \in 1..(i - 1)}
      BY <2>2
    <3>4. Takes(h[1..i], static) /\ Holds(h[1..i]) = Holds(h[1..(i - 1)]) \union {xs[i]}
      BY <1>9, <3>1, <3>2, <3>3, AddTfIs
    <3>5. 1..i = (1..(i - 1)) \union {i}
      BY <3>1
    <3>6. {xs[k] : k \in 1..i} = {xs[k] : k \in 1..(i - 1)} \union {xs[i]}
      BY <3>5
    <3>7. Now(i)
      BY <3>3, <3>4, <3>6
    <3> QED BY <3>1, <3>7
  <2> HIDE DEF P
  <2>3. \A i \in 0..n : i \in P
    <3> HIDE DEF n
    <3> QED BY <1>1, <2>1, <2>2, Along
  <2>4. n \in 0..n /\ ToSet(xs) = {xs[k] : k \in 1..n}
    BY <1>1 DEF ToSet
  <2>5. Now(n)
    BY <2>3, <2>4 DEF P
  <2> QED BY <2>4, <2>5
<1> QED BY <1>7, <1>11, <1>12, <1>13 DEF D

(* add_TransformStamped for one transform after the other *)
LEMMA AddedIs ==
    ASSUME NEW E, NEW list \in ListOver(E), NEW xs \in Seq(E), NEW static
    PROVE  /\ Added(list, xs, static) \in ListOver(E)
           /\ Holds(list) \subseteq Holds(Added(list, xs, static))
<1> DEFINE n == Len(xs)
           D == {l \in ListOver(E) : Holds(list) \subseteq Holds(l)}
           g == [i \in 1..n |-> [d \in D |-> AddTransform(d, xs[i], static)]]
<1>1. n \in Nat /\ DOMAIN xs = 1..n /\ \A i \in 1..n : xs[i] \in E
  BY Elements
<1>2. list \in D
  OBVIOUS
<1>3. ASSUME NEW i \in 1..n, NEW d \in D
      PROVE  AddTransform(d, xs[i], static) \in D
  BY <1>1, AddTransformIs
<1> HIDE DEF D
<1>4. g \in [1..n -> [D -> D]]
  BY <1>3
<1>5. PICK f \in [SUBSET (1..n) -> D] : Folds(n, list, g, f)
  BY <1>1, <1>2, <1>4, FoldExists
<1>6. f = [s \in SUBSET (1..n) |-> IF s = {} THEN list
                                   ELSE AddTransform(f[s \ {Max(s)}], xs[Max(s)], static)]
  <2>1. ASSUME NEW s \in SUBSET (1..n), s # {}
        PROVE  f[s] = AddTransform(f[s \ {Max(s)}], xs[Max(s)], static)
    <3>1. s \in SUBSET (0..n)
      BY <1>1
    <3>2. Max(s) \in 1..n
      BY <1>1, <2>1, <3>1, MaxIs
    <3>3. f[s \ {Max(s)}] \in D
      OBVIOUS
    <3> QED BY <1>5, <2>1, <3>2, <3>3 DEF Folds
  <2>2. f[{}] = list
    BY <1>5 DEF Folds
  <2> QED BY <2>1, <2>2
<1> HIDE DEF g
<1> DEFINE h == CHOOSE h : h = [s \in SUBSET (DOMAIN xs) |->
                                  IF s = {} THEN list
                                  ELSE AddTransform(h[s \ {Max(s)}], xs[Max(s)], static)]
<1>7. /\ Added(list, xs, static) = h[1..n]
      /\ h = [s \in SUBSET (1..n) |-> IF s = {} THEN list
                                      ELSE AddTransform(h[s \ {Max(s)}], xs[Max(s)], static)]
  <2>1. Added(list, xs, static) = h[DOMAIN xs]
    BY DEF Added, FoldLeft, MapThenFoldSet
  <2>2. h = [s \in SUBSET (DOMAIN xs) |-> IF s = {} THEN list
                                         ELSE AddTransform(h[s \ {Max(s)}], xs[Max(s)], static)]
    BY <1>1, <1>6
  <2> QED BY <1>1, <2>1, <2>2
<1> HIDE DEF h
<1>8. h[{}] = list
  BY <1>7
<1>9. ASSUME NEW i \in 1..n
      PROVE  h[1..i] = AddTransform(h[1..(i - 1)], xs[i], static)
  <2> DEFINE s == 1..i
  <2>1. s \in SUBSET (1..n) /\ s # {} /\ Max(s) = i /\ s \ {i} = 1..(i - 1)
    BY <1>1, FoldTurns
  <2> HIDE DEF s
  <2>2. h[s] = AddTransform(h[s \ {Max(s)}], xs[Max(s)], static)
    BY <1>7, <2>1
  <2> QED BY <2>1, <2>2 DEF s
<1>10. \A i \in 1..n : h[1..(i - 1)] \in D => h[1..i] \in D
  BY <1>3, <1>9
<1>11. h[1..n] \in D
  <2>1. \A m \in 0..n : h[1..m] \in D
    BY <1>1, <1>2, <1>8, <1>10, FoldKeeps
  <2> QED BY <1>1, <2>1
<1> QED BY <1>7, <1>11 DEF D

(* What delete_TransformStamped leaves is of what there was. *)
LEMMA DeleteTransformsIs ==
    ASSUME NEW E, NEW list \in ListOver(E), NEW start, NEW end
    PROVE  /\ DeleteTransforms(list, start, end) \in FileOver(E)
           /\ DeleteTransforms(list, start, end).is = list.is
           /\ list.is # "list" => DeleteTransforms(list, start, end).transforms = <<>>
           /\ DeleteTransforms(list, start, end).static = list.static
           /\ Holds(DeleteTransforms(list, start, end)) =
                 {x \in Holds(list) : ~(x.stamp >= start /\ x.stamp <= end)}
<1> DEFINE xs == list.transforms
           n == Len(xs)
           Keep(kept, x) == IF x.stamp >= start /\ x.stamp <= end THEN kept ELSE Append(kept, x)
           D == {k \in Seq(E) : xs = <<>> => k = <<>>}
           g == [i \in 1..n |-> [d \in D |-> Keep(d, xs[i])]]
           Left == FoldLeft(Keep, <<>>, xs)
<1>0. xs \in Seq(E)
  BY DEF ListOver, FileOver
<1>1. n \in Nat /\ DOMAIN xs = 1..n /\ \A i \in 1..n : xs[i] \in E
  BY <1>0, Elements
<1>2. <<>> \in D
  OBVIOUS
<1>3. ASSUME NEW i \in 1..n, NEW d \in D
      PROVE  Keep(d, xs[i]) \in D
  <2>1. Append(d, xs[i]) \in Seq(E)
    BY <1>1, Appended
  <2>2. xs # <<>>
    BY <1>1
  <2> QED BY <2>1, <2>2
<1> HIDE DEF D, xs, Keep
<1>4. g \in [1..n -> [D -> D]]
  BY <1>3
<1>5. PICK f \in [SUBSET (1..n) -> D] : Folds(n, <<>>, g, f)
  BY <1>1, <1>2, <1>4, FoldExists
<1>6. f = [s \in SUBSET (1..n) |-> IF s = {} THEN <<>>
                                   ELSE Keep(f[s \ {Max(s)}], xs[Max(s)])]
  <2>1. ASSUME NEW s \in SUBSET (1..n), s # {}
        PROVE  f[s] = Keep(f[s \ {Max(s)}], xs[Max(s)])
    <3>1. s \in SUBSET (0..n)
      BY <1>1
    <3>2. Max(s) \in 1..n
      BY <1>1, <2>1, <3>1, MaxIs
    <3>3. f[s \ {Max(s)}] \in D
      OBVIOUS
    <3> QED BY <1>5, <2>1, <3>2, <3>3 DEF Folds
  <2>2. f[{}] = <<>>
    BY <1>5 DEF Folds
  <2> QED BY <2>1, <2>2
<1> HIDE DEF g
<1> DEFINE h == CHOOSE h : h = [s \in SUBSET (DOMAIN xs) |->
                                  IF s = {} THEN <<>>
                                  ELSE Keep(h[s \ {Max(s)}], xs[Max(s)])]
<1>7. /\ Left = h[1..n]
      /\ h = [s \in SUBSET (1..n) |-> IF s = {} THEN <<>>
                                      ELSE Keep(h[s \ {Max(s)}], xs[Max(s)])]
  <2>1. Left = h[DOMAIN xs]
    BY DEF FoldLeft, MapThenFoldSet, Keep
  <2>2. h = [s \in SUBSET (DOMAIN xs) |-> IF s = {} THEN <<>>
                                         ELSE Keep(h[s \ {Max(s)}], xs[Max(s)])]
    BY <1>1, <1>6
  <2> QED BY <1>1, <2>1, <2>2
<1> HIDE DEF h
<1>8. h[{}] = <<>>
  BY <1>7
<1>9. ASSUME NEW i \in 1..n
      PROVE  h[1..i] = Keep(h[1..(i - 1)], xs[i])
  <2> DEFINE s == 1..i
  <2>1. s \in SUBSET (1..n) /\ s # {} /\ Max(s) = i /\ s \ {i} = 1..(i - 1)
    BY <1>1, FoldTurns
  <2> HIDE DEF s
  <2>2. h[s] = Keep(h[s \ {Max(s)}], xs[Max(s)])
    BY <1>7, <2>1
  <2> QED BY <2>1, <2>2 DEF s
<1>10. \A i \in 1..n : h[1..(i - 1)] \in D => h[1..i] \in D
  BY <1>3, <1>9
<1>11. h[1..n] \in D
  <2>1. \A m \in 0..n : h[1..m] \in D
    BY <1>1, <1>2, <1>8, <1>10, FoldKeeps
  <2> QED BY <1>1, <2>1
<1>12. Left \in Seq(E) /\ (xs = <<>> => Left = <<>>)
  BY <1>7, <1>11 DEF D
<1>13. DeleteTransforms(list, start, end) = [list EXCEPT !.transforms = Left]
  BY DEF DeleteTransforms, Keep, xs
<1>14. ToSet(Left) = {x \in ToSet(xs) : ~(x.stamp >= start /\ x.stamp <= end)}
  <2> DEFINE Stays(i) == {xs[k] : k \in {k \in 1..i : ~(xs[k].stamp >= start /\ xs[k].stamp <= end)}}
             P == {i \in 0..n : ToSet(h[1..i]) = Stays(i)}
  <2>1. 0 \in P /\ 0 \in 0..n
    <3>1. 1..0 = {} /\ 0 \in 0..n /\ Stays(0) = {} /\ ToSet(<<>>) = {}
      BY <1>1 DEF ToSet
    <3> QED BY <1>8, <3>1
  <2>2. ASSUME NEW i \in (0 + 1)..n, i - 1 \in P
        PROVE  i \in P
    <3>1. i \in 1..n /\ i \in 0..n /\ i - 1 \in 0..n /\ 1..i = (1..(i - 1)) \union {i}
      BY <1>1
    <3> DEFINE old == h[1..(i - 1)]
    <3>2. old \in Seq(E) /\ ToSet(old) = Stays(i - 1)
      <4>1. \A m \in 0..n : h[1..m] \in D
        BY <1>1, <1>2, <1>8, <1>10, FoldKeeps
      <4> QED BY <2>2, <3>1, <4>1 DEF D
    <3>3. h[1..i] = IF xs[i].stamp >= start /\ xs[i].stamp <= end THEN old ELSE Append(old, xs[i])
      BY <1>9, <3>1 DEF Keep
    <3>4. ToSet(Append(old, xs[i])) = ToSet(old) \union {xs[i]}
      BY <1>1, <3>1, <3>2, Appended
    <3> HIDE DEF old
    <3>5. Stays(i) = IF xs[i].stamp >= start /\ xs[i].stamp <= end THEN Stays(i - 1)
                     ELSE Stays(i - 1) \union {xs[i]}
      BY <3>1
    <3>6. ToSet(h[1..i]) = Stays(i)
      BY <3>2, <3>3, <3>4, <3>5
    <3> QED BY <3>1, <3>6
  <2> HIDE DEF P
  <2>3. \A i \in 0..n : i \in P
    <3> HIDE DEF n
    <3> QED BY <1>1, <2>1, <2>2, Along
  <2>4. n \in 0..n /\ ToSet(xs) = {xs[k] : k \in 1..n}
    BY <1>1 DEF ToSet
  <2>5. ToSet(h[1..n]) = Stays(n)
    BY <2>3, <2>4 DEF P
  <2>6. Stays(n) = {x \in {xs[k] : k \in 1..n} : ~(x.stamp >= start /\ x.stamp <= end)}
    OBVIOUS
  <2>7. ToSet(Left) = Stays(n)
    BY <1>7, <2>5
  <2> QED BY <2>4, <2>6, <2>7
<1> HIDE DEF Left
<1> DEFINE new == DeleteTransforms(list, start, end)
<1>15. new.transforms = Left /\ new.is = list.is /\ new.static = list.static /\ new \in FileOver(E)
  BY <1>12, <1>13 DEF ListOver, FileOver
<1> HIDE DEF new
<1>16. list.is # "list" => xs = <<>>
  BY DEF ListOver, xs
<1> QED BY <1>12, <1>14, <1>15, <1>16 DEF Holds, xs, new

(* What TransformStampedListGatherer has for a pair: nothing, or a list    *)
(* with transforms.                                                        *)
Gathered(E) == {f \in StoredOver(E) : f.is # "empty"}

Measured(x) == [stamp |-> x.stamp, pose |-> x.pose]

GatherOne(lists, x) ==
    LET old == lists[x.pair]
        list == IF old.is = "missing" THEN NewList(x.static) ELSE old
    IN  [lists EXCEPT ![x.pair] = AddTransform(list, Measured(x), x.static)]

LEMMA GatherOneIs ==
    ASSUME NEW E, NEW lists \in [Pair -> Gathered(E)], NEW x,
           x.pair \in Pair, x.static \in BOOLEAN, Measured(x) \in E
    PROVE  GatherOne(lists, x) \in [Pair -> Gathered(E)]
<1> DEFINE old == lists[x.pair]
           list == IF old.is = "missing" THEN NewList(x.static) ELSE old
           new == AddTransform(list, Measured(x), x.static)
<1>1. old \in Gathered(E)
  OBVIOUS
<1>2. list \in ListOver(E) /\ list.is = "list"
  BY <1>1, NewListIs DEF Gathered, StoredOver, ListOver, FileOver
<1>3. new \in ListOver(E) /\ new.is = "list"
  BY <1>2, AddTransformIs
<1>4. new.transforms # <<>>
  <2>0. list.transforms \in Seq(E)
    BY <1>2 DEF ListOver, FileOver
  <2>1. CASE list.static = x.static
    <3>1. new = [list EXCEPT !.transforms = Append(@, Measured(x))]
      BY <1>2, <2>1 DEF AddTransform
    <3>2. new.transforms = Append(list.transforms, Measured(x))
      BY <1>2, <3>1 DEF ListOver, FileOver
    <3> QED BY <2>0, <3>2, Appended
  <2>2. CASE list.static # x.static
    <3>1. new = list /\ list = old
      BY <2>2 DEF AddTransform, NewList
    <3> QED BY <1>1, <1>2, <3>1 DEF Gathered, StoredOver
  <2> QED BY <2>1, <2>2
<1>5. new \in Gathered(E)
  BY <1>3, <1>4 DEF Gathered, StoredOver, ListOver
<1>6. GatherOne(lists, x) = [lists EXCEPT ![x.pair] = new]
  BY DEF GatherOne
<1> HIDE DEF new
<1> QED BY <1>5, <1>6

(* add_transform for all that is loaded *)
LEMMA GatherIs ==
    ASSUME NEW E, NEW n \in Nat, NEW loaded, DOMAIN loaded = 1..n,
           \A i \in 1..n : /\ loaded[i].pair \in Pair /\ loaded[i].static \in BOOLEAN
                           /\ Measured(loaded[i]) \in E
    PROVE  Gather(loaded) \in [Pair -> Gathered(E)]
<1> DEFINE D == [Pair -> Gathered(E)]
           none == [p \in Pair |-> Missing]
           g == [i \in 1..n |-> [d \in D |-> GatherOne(d, loaded[i])]]
<1>1. none \in D
  BY MissingIs DEF Gathered
<1>2. ASSUME NEW i \in 1..n, NEW d \in D
      PROVE  GatherOne(d, loaded[i]) \in D
  BY GatherOneIs
<1> HIDE DEF D, none
<1>3. g \in [1..n -> [D -> D]]
  BY <1>2
<1>4. PICK f \in [SUBSET (1..n) -> D] : Folds(n, none, g, f)
  BY <1>1, <1>3, FoldExists
<1>5. f = [s \in SUBSET (1..n) |-> IF s = {} THEN none
                                   ELSE GatherOne(f[s \ {Max(s)}], loaded[Max(s)])]
  <2>1. ASSUME NEW s \in SUBSET (1..n), s # {}
        PROVE  f[s] = GatherOne(f[s \ {Max(s)}], loaded[Max(s)])
    <3>1. s \in SUBSET (0..n)
      OBVIOUS
    <3>2. Max(s) \in 1..n
      BY <2>1, <3>1, MaxIs
    <3>3. f[s \ {Max(s)}] \in D
      OBVIOUS
    <3> QED BY <1>4, <2>1, <3>2, <3>3 DEF Folds
  <2>2. f[{}] = none
    BY <1>4 DEF Folds
  <2> QED BY <2>1, <2>2
<1> HIDE DEF g
<1> DEFINE h == CHOOSE h : h = [s \in SUBSET (DOMAIN loaded) |->
                                  IF s = {} THEN none
                                  ELSE GatherOne(h[s \ {Max(s)}], loaded[Max(s)])]
<1>6. /\ Gather(loaded) = h[1..n]
      /\ h = [s \in SUBSET (1..n) |-> IF s = {} THEN none
                                      ELSE GatherOne(h[s \ {Max(s)}], loaded[Max(s)])]
  <2>1. Gather(loaded) = h[DOMAIN loaded]
    BY DEF Gather, FoldLeft, MapThenFoldSet, GatherOne, Measured, none
  <2>2. h = [s \in SUBSET (DOMAIN loaded) |-> IF s = {} THEN none
                                              ELSE GatherOne(h[s \ {Max(s)}], loaded[Max(s)])]
    BY <1>5
  <2> QED BY <2>1, <2>2
<1> HIDE DEF h
<1>7. h[{}] = none
  BY <1>6
<1>8. ASSUME NEW i \in 1..n
      PROVE  h[1..i] = GatherOne(h[1..(i - 1)], loaded[i])
  <2> DEFINE s == 1..i
  <2>1. s \in SUBSET (1..n) /\ s # {} /\ Max(s) = i /\ s \ {i} = 1..(i - 1)
    BY FoldTurns
  <2> HIDE DEF s
  <2>2. h[s] = GatherOne(h[s \ {Max(s)}], loaded[Max(s)])
    BY <1>6, <2>1
  <2> QED BY <2>1, <2>2 DEF s
<1>9. \A i \in 1..n : h[1..(i - 1)] \in D => h[1..i] \in D
  BY <1>2, <1>8
<1>10. h[1..n] \in D
  <2>1. \A m \in 0..n : h[1..m] \in D
    BY <1>1, <1>7, <1>9, FoldKeeps
  <2> QED BY <2>1
<1> QED BY <1>6, <1>10 DEF D

-----------------------------------------------------------------------------
(* Poses.  Neighbours cancel, so a pose has none that do.                  *)

Reduced(w) == \A i \in 1..(Len(w) - 1) : w[i] # Opposite(w[i + 1])
IsPose(p) == \E X : p \in Seq(X) /\ Reduced(p)

CancelOne(done, x) == IF done # <<>> /\ Last(done) = Opposite(x) THEN Front(done)
                      ELSE Append(done, x)

LEMMA CancelOneIs ==
    ASSUME NEW X, NEW done \in Seq(X), Reduced(done), NEW x \in X
    PROVE  CancelOne(done, x) \in Seq(X) /\ Reduced(CancelOne(done, x))
<1>0. Len(done) \in Nat /\ \A i \in 1..Len(done) : done[i] \in X
  BY Elements
<1>1. CASE done # <<>> /\ Last(done) = Opposite(x)
  <2> DEFINE l == Len(done)
             s == SubSeq(done, 1, l - 1)
  <2>1. CancelOne(done, x) = s
    BY <1>1 DEF CancelOne, Front
  <2>2. l \in Nat \ {0}
    BY <1>1, EmptySeq
  <2>3. s \in Seq(X) /\ Len(s) = l - 1 /\ \A i \in 1..(l - 1) : s[i] = done[i]
    <3>1. \A i \in 1..(l - 1) : done[i] \in X
      BY <1>0
    <3>2. /\ s \in Seq(X)
          /\ Len(s) = IF 1 <= l - 1 THEN (l - 1) - 1 + 1 ELSE 0
          /\ \A i \in 1..((l - 1) - 1 + 1) : s[i] = done[1 + i - 1]
      <4>1. 1 \in Int /\ l - 1 \in Int
        BY <2>2
      <4> HIDE DEF l
      <4> QED BY <3>1, <4>1, SubSeqProperties
    <3> HIDE DEF s, l
    <3>3. (l - 1) - 1 + 1 = l - 1 /\ (~(1 <= l - 1) => l - 1 = 0)
      BY <2>2
    <3>4. \A i \in 1..(l - 1) : 1 + i - 1 = i
      BY <2>2
    <3>5. Len(s) = l - 1
      BY <3>2, <3>3
    <3>6. \A i \in 1..(l - 1) : s[i] = done[i]
      BY <3>2, <3>3, <3>4
    <3> QED BY <3>2, <3>5, <3>6 DEF l
  <2> HIDE DEF s
  <2>4. Reduced(s)
    <3>1. \A i \in 1..((l - 1) - 1) : i \in 1..(l - 1) /\ i + 1 \in 1..(l - 1)
      BY <2>2
    <3> QED BY <2>3, <3>1 DEF Reduced
  <2> QED BY <2>1, <2>3, <2>4
<1>2. CASE ~(done # <<>> /\ Last(done) = Opposite(x))
  <2> DEFINE s == Append(done, x)
             l == Len(done)
  <2>1. CancelOne(done, x) = s
    BY <1>2 DEF CancelOne
  <2>2. s \in Seq(X) /\ Len(s) = l + 1 /\ s[l + 1] = x /\ \A i \in 1..l : s[i] = done[i]
    BY AppendProperties
  <2> HIDE DEF s
  <2>3. ASSUME NEW i \in 1..((l + 1) - 1)
        PROVE  s[i] # Opposite(s[i + 1])
    <3>1. CASE i = l
      <4>1. done # <<>>
        BY <1>0, <3>1, EmptySeq
      <4>2. done[l] # Opposite(x)
        BY <1>2, <4>1 DEF Last
      <4> QED BY <1>0, <2>2, <3>1, <4>2
    <3>2. CASE i # l
      <4>1. i \in 1..(l - 1) /\ i \in 1..l /\ i + 1 \in 1..l
        BY <1>0, <3>2
      <4> QED BY <2>2, <4>1 DEF Reduced
    <3> QED BY <3>1, <3>2
  <2> QED BY <2>1, <2>2, <2>3 DEF Reduced
<1> QED BY <1>1, <1>2

(* Cancelled, word by word *)
LEMMA CancelledRuns ==
    ASSUME NEW X, NEW w \in Seq(X)
    PROVE  \E r : /\ r[0] = <<>> /\ \A i \in 0..Len(w) : r[i] \in Seq(X) /\ Reduced(r[i])
                  /\ \A i \in 1..Len(w) : r[i] = CancelOne(r[i - 1], w[i])
                  /\ Cancelled(w) = r[Len(w)]
<1> DEFINE n == Len(w)
           D == {v \in Seq(X) : Reduced(v)}
           g == [i \in 1..n |-> [d \in D |-> CancelOne(d, w[i])]]
<1>1. n \in Nat /\ DOMAIN w = 1..n /\ \A i \in 1..n : w[i] \in X
  BY Elements
<1>2. <<>> \in D
  <2>1. \A i \in 1..(0 - 1) : FALSE
    OBVIOUS
  <2> QED BY <2>1 DEF Reduced
<1>3. ASSUME NEW i \in 1..n, NEW d \in D
      PROVE  CancelOne(d, w[i]) \in D
  BY <1>1, CancelOneIs
<1> HIDE DEF D
<1>4. g \in [1..n -> [D -> D]]
  BY <1>3
<1>5. PICK f \in [SUBSET (1..n) -> D] : Folds(n, <<>>, g, f)
  BY <1>1, <1>2, <1>4, FoldExists
<1>6. f = [s \in SUBSET (1..n) |-> IF s = {} THEN <<>>
                                   ELSE CancelOne(f[s \ {Max(s)}], w[Max(s)])]
  <2>1. ASSUME NEW s \in SUBSET (1..n), s # {}
        PROVE  f[s] = CancelOne(f[s \ {Max(s)}], w[Max(s)])
    <3>1. s \in SUBSET (0..n)
      BY <1>1
    <3>2. Max(s) \in 1..n
      BY <1>1, <2>1, <3>1, MaxIs
    <3>3. f[s \ {Max(s)}] \in D
      OBVIOUS
    <3> QED BY <1>5, <2>1, <3>2, <3>3 DEF Folds
  <2>2. f[{}] = <<>>
    BY <1>5 DEF Folds
  <2> QED BY <2>1, <2>2
<1> HIDE DEF g
<1> DEFINE h == CHOOSE h : h = [s \in SUBSET (DOMAIN w) |->
                                  IF s = {} THEN <<>>
                                  ELSE CancelOne(h[s \ {Max(s)}], w[Max(s)])]
<1>7. /\ Cancelled(w) = h[1..n]
      /\ h = [s \in SUBSET (1..n) |-> IF s = {} THEN <<>>
                                      ELSE CancelOne(h[s \ {Max(s)}], w[Max(s)])]
  <2>1. Cancelled(w) = h[DOMAIN w]
    BY DEF Cancelled, CancelOne, FoldLeft, MapThenFoldSet
  <2>2. h = [s \in SUBSET (DOMAIN w) |-> IF s = {} THEN <<>>
                                         ELSE CancelOne(h[s \ {Max(s)}], w[Max(s)])]
    BY <1>1, <1>6
  <2> QED BY <1>1, <2>1, <2>2
<1> HIDE DEF h
<1> DEFINE r == [i \in 0..n |-> h[1..i]]
<1>8. r[0] = <<>>
  <2>1. 1..0 = {} /\ 0 \in 0..n
    BY <1>1
  <2> QED BY <1>7, <2>1
<1>9. ASSUME NEW i \in 1..n
      PROVE  r[i] = CancelOne(r[i - 1], w[i])
  <2> DEFINE s == 1..i
  <2>1. s \in SUBSET (1..n) /\ s # {} /\ Max(s) = i /\ s \ {i} = 1..(i - 1)
    BY <1>1, FoldTurns
  <2> HIDE DEF s
  <2>2. h[s] = CancelOne(h[s \ {Max(s)}], w[Max(s)])
    BY <1>7, <2>1
  <2>3. i \in 0..n /\ i - 1 \in 0..n
    BY <1>1
  <2> QED BY <2>1, <2>2, <2>3 DEF s
<1>10. Cancelled(w) = r[n]
  BY <1>1, <1>7
<1> HIDE DEF r
<1>11. \A i \in 0..n : r[i] \in D
  <2> DEFINE P == {i \in 0..n : r[i] \in D}
  <2>1. 0 \in P /\ 0 \in 0..n
    BY <1>1, <1>2, <1>8
  <2>2. ASSUME NEW i \in (0 + 1)..n, i - 1 \in P
        PROVE  i \in P
    <3>1. i \in 1..n /\ i \in 0..n
      BY <1>1
    <3> QED BY <1>3, <1>9, <2>2, <3>1
  <2> HIDE DEF P
  <2>3. \A i \in 0..n : i \in P
    BY <1>1, <2>1, <2>2, Along
  <2> QED BY <2>3 DEF P
<1> QED BY <1>8, <1>9, <1>10, <1>11 DEF D

(* What is left of a word has no neighbours that cancel, and of one that   *)
(* has none all is left.                                                   *)
LEMMA CancelledIs ==
    ASSUME NEW X, NEW w \in Seq(X)
    PROVE  /\ Cancelled(w) \in Seq(X) /\ Reduced(Cancelled(w))
           /\ Reduced(w) => Cancelled(w) = w
<1> DEFINE n == Len(w)
<1>0. n \in Nat /\ \A i \in 1..n : w[i] \in X
  BY Elements
<1>1. PICK r : /\ r[0] = <<>> /\ \A i \in 0..n : r[i] \in Seq(X) /\ Reduced(r[i])
               /\ \A i \in 1..n : r[i] = CancelOne(r[i - 1], w[i])
               /\ Cancelled(w) = r[n]
  BY CancelledRuns
<1> HIDE DEF n
<1>2. Cancelled(w) \in Seq(X) /\ Reduced(Cancelled(w))
  BY <1>0, <1>1
<1>3. ASSUME Reduced(w)
      PROVE  Cancelled(w) = w
  <2> DEFINE Same(i) == Len(r[i]) = i /\ \A j \in 1..i : r[i][j] = w[j]
             P == {i \in 0..n : Same(i)}
  <2>1. 0 \in P /\ 0 \in 0..n
    BY <1>0, <1>1
  <2>2. ASSUME NEW i \in (0 + 1)..n, i - 1 \in P
        PROVE  i \in P
    <3>1. i \in 1..n /\ i - 1 \in 0..n /\ i \in 0..n
      BY <1>0
    <3> DEFINE d == r[i - 1]
    <3>2. d \in Seq(X) /\ Len(d) = i - 1 /\ (\A j \in 1..(i - 1) : d[j] = w[j]) /\ w[i] \in X
      BY <1>0, <1>1, <2>2, <3>1
    <3>3. r[i] = CancelOne(d, w[i])
      BY <1>1, <3>1
    <3> HIDE DEF d
    <3>4. ~(d # <<>> /\ Last(d) = Opposite(w[i]))
      <4> SUFFICES ASSUME d # <<>>
                   PROVE  Last(d) # Opposite(w[i])
        OBVIOUS
      <4>1. Len(d) # 0
        BY <3>2, EmptySeq
      <4>2. i - 1 \in 1..(i - 1) /\ i - 1 \in 1..(n - 1) /\ (i - 1) + 1 = i
        BY <1>0, <3>1, <3>2, <4>1
      <4>3. w[i - 1] # Opposite(w[i])
        BY <1>3, <4>2 DEF Reduced, n
      <4> QED BY <3>2, <4>2, <4>3 DEF Last
    <3>5. r[i] = Append(d, w[i])
      BY <3>3, <3>4 DEF CancelOne
    <3>6. Len(r[i]) = i /\ \A j \in 1..i : r[i][j] = w[j]
      <4>1. /\ Len(Append(d, w[i])) = (i - 1) + 1
            /\ \A j \in 1..(i - 1) : Append(d, w[i])[j] = d[j]
            /\ Append(d, w[i])[(i - 1) + 1] = w[i]
        BY <3>2, AppendProperties
      <4>2. \A j \in 1..i : j \in 1..(i - 1) \/ j = (i - 1) + 1
        BY <3>1
      <4> QED BY <3>1, <3>2, <3>5, <4>1, <4>2
    <3> QED BY <3>1, <3>6
  <2> HIDE DEF P
  <2>3. \A i \in 0..n : i \in P
    BY <1>0, <2>1, <2>2, Along
  <2>4. n \in 0..n
    BY <1>0
  <2>5. Len(r[n]) = n /\ (\A j \in 1..n : r[n][j] = w[j]) /\ r[n] \in Seq(X)
    BY <1>1, <2>3, <2>4 DEF P
  <2> QED BY <1>1, <2>5, SeqEqual DEF n
<1> QED BY <1>2, <1>3

IsWord(p) == \E X : p \in Seq(X)

LEMMA ComposeIs ==
    ASSUME NEW p, NEW q, IsWord(p), IsWord(q)
    PROVE  IsPose(Compose(p, q))
<1>1. PICK X : p \in Seq(X)
  BY DEF IsWord
<1>2. PICK Y : q \in Seq(Y)
  BY DEF IsWord
<1>3. p \in Seq(X \union Y) /\ q \in Seq(X \union Y)
  <2>1. X \subseteq X \union Y /\ Y \subseteq X \union Y
    OBVIOUS
  <2> QED BY <1>1, <1>2, <2>1, SeqMonotonic
<1> DEFINE w == p \o q
<1>4. w \in Seq(X \union Y)
  BY <1>3, ConcatProperties
<1>5. Compose(p, q) = Cancelled(w)
  BY DEF Compose
<1> HIDE DEF w
<1> QED BY <1>4, <1>5, CancelledIs DEF IsPose

(* The identity changes no pose. *)
LEMMA ComposeWithIdentity ==
    ASSUME NEW p, IsPose(p)
    PROVE  /\ Compose(p, Identity) = p /\ Compose(Identity, p) = p
           /\ IsWord(p) /\ IsPose(Identity) /\ IsWord(Identity)
<1>1. PICK X : p \in Seq(X) /\ Reduced(p)
  BY DEF IsPose
<1>2. p \o <<>> = p /\ <<>> \o p = p
  BY <1>1, ConcatEmptySeq
<1>3. Cancelled(p) = p
  BY <1>1, CancelledIs
<1>4. <<>> \in Seq(X) /\ Len(<<>>) = 0
  BY EmptySeq
<1>5. Reduced(<<>>)
  <2>1. \A i \in 1..(0 - 1) : FALSE
    OBVIOUS
  <2> QED BY <1>4, <2>1 DEF Reduced
<1> QED BY <1>1, <1>2, <1>3, <1>4, <1>5 DEF Compose, Identity, IsWord, IsPose

LEMMA SingleIs ==
    ASSUME NEW x
    PROVE  IsPose(<<x>>)
<1>1. <<x>> \in Seq({x}) /\ Len(<<x>>) = 1
  OBVIOUS
<1>2. \A i \in 1..(1 - 1) : FALSE
  OBVIOUS
<1> QED BY <1>1, <1>2 DEF IsPose, Reduced

LEMMA InverseIs ==
    ASSUME NEW p, IsWord(p)
    PROVE  IsWord(InverseOf(p)) /\ (p = Identity => InverseOf(p) = Identity)
<1>1. PICK X : p \in Seq(X)
  BY DEF IsWord
<1> DEFINE n == Len(p)
           e(i) == Opposite(p[n + 1 - i])
           Y == {e(i) : i \in 1..n}
<1>2. n \in Nat /\ \A i \in 1..n : e(i) \in Y
  BY <1>1, Elements
<1>3. InverseOf(p) = [i \in 1..n |-> e(i)]
  BY DEF InverseOf
<1> HIDE DEF e, Y
<1>4. [i \in 1..n |-> e(i)] \in Seq(Y)
  <2> HIDE DEF n
  <2> QED BY <1>2
<1>5. ASSUME p = Identity
      PROVE  InverseOf(p) = Identity
  <2>1. n = 0
    BY <1>5, EmptySeq DEF Identity
  <2>2. Len([i \in 1..n |-> e(i)]) = n
    <3> HIDE DEF n
    <3> QED BY <1>2
  <2> QED BY <1>3, <1>4, <2>1, <2>2, EmptySeq DEF Identity
<1> QED BY <1>3, <1>4, <1>5 DEF IsWord

-----------------------------------------------------------------------------
(* The cache of a frame.  Its list is sorted, and has an entry if there is *)
(* a cache.                                                                *)

Sorted(list) == \A i, j \in 1..Len(list) : i < j => list[i].stamp >= list[j].stamp

CacheOver(E) == [is : {"nothing", "static", "times"}, list : Seq(E)]
Filled(E) == {c \in CacheOver(E) : (c.is = "nothing" <=> c.list = <<>>) /\ Sorted(c.list)}

Timed(E) == \A e \in E : e.stamp \in Nat

Close(list, x) == \A y \in ToSet(list) : y.stamp <= x.stamp + CacheTime

LEMMA Placed ==
    ASSUME NEW E, Timed(E), NEW list \in Seq(E), NEW time \in Nat
    PROVE  LET k == PlaceFor(time, list)
           IN  /\ k \in 1..(Len(list) + 1)
               /\ k = Len(list) + 1 \/ list[k].stamp <= time
               /\ \A i \in 1..Len(list) : i < k => list[i].stamp > time
<1> DEFINE n == Len(list)
           s == {i \in 1..n : list[i].stamp <= time} \union {n + 1}
           k == PlaceFor(time, list)
<1>1. n \in Nat /\ \A i \in 1..n : list[i].stamp \in Nat
  BY Elements DEF Timed
<1>2. s \in SUBSET Nat /\ s # {}
  BY <1>1
<1>3. k = Min(s)
  BY DEF PlaceFor
<1> HIDE DEF s
<1>4. k \in s /\ \A i \in s : k <= i
  BY <1>2, <1>3, MinIs
<1> HIDE DEF k
<1>5. k \in 1..(n + 1) /\ (k = n + 1 \/ list[k].stamp <= time)
  BY <1>1, <1>4 DEF s
<1>6. ASSUME NEW i \in 1..n, i < k
      PROVE  list[i].stamp > time
  <2>1. i \notin s
    BY <1>1, <1>4, <1>5, <1>6
  <2> QED BY <1>1, <2>1 DEF s
<1> QED BY <1>5, <1>6 DEF k

(* An entry goes behind what is later. *)
HasInserted(all, list, e, E) ==
    /\ all \in Seq(E) /\ Len(all) = Len(list) + 1 /\ Sorted(all)
    /\ ToSet(all) = ToSet(list) \union {e}

LEMMA Inserted ==
    ASSUME NEW E, Timed(E), NEW list \in Seq(E), Sorted(list), NEW e \in E
    PROVE  HasInserted(InsertAt(list, PlaceFor(e.stamp, list), e), list, e, E)
<1> DEFINE n == Len(list)
           k == PlaceFor(e.stamp, list)
           all == InsertAt(list, k, e)
           one == SubSeq(list, 1, k - 1)
           two == SubSeq(list, k, n)
<1>1. n \in Nat /\ DOMAIN list = 1..n /\ \A i \in 1..n : list[i] \in E
  BY Elements
<1>2. /\ k \in 1..(n + 1) /\ (k = n + 1 \/ list[k].stamp <= e.stamp)
      /\ \A i \in 1..n : i < k => list[i].stamp > e.stamp
  BY Placed DEF Timed
<1>3. all = one \o <<e>> \o two
  BY DEF InsertAt
<1> HIDE DEF k
<1>4. one \in Seq(E) /\ Len(one) = k - 1 /\ \A i \in 1..(k - 1) : one[i] = list[i]
  <2>1. \A i \in 1..(k - 1) : list[i] \in E
    BY <1>1, <1>2
  <2>2. /\ one \in Seq(E)
        /\ Len(one) = IF 1 <= k - 1 THEN (k - 1) - 1 + 1 ELSE 0
        /\ \A i \in 1..((k - 1) - 1 + 1) : one[i] = list[1 + i - 1]
    <3>1. 1 \in Int /\ k - 1 \in Int
      BY <1>2
    <3> QED BY <2>1, <3>1, SubSeqProperties
  <2> HIDE DEF one
  <2>3. (k - 1) - 1 + 1 = k - 1 /\ (~(1 <= k - 1) => k - 1 = 0)
    BY <1>1, <1>2
  <2>4. \A i \in 1..(k - 1) : 1 + i - 1 = i
    BY <1>2
  <2> QED BY <2>2, <2>3, <2>4
<1>5. two \in Seq(E) /\ Len(two) = n - k + 1 /\ \A i \in 1..(n - k + 1) : two[i] = list[k + i - 1]
  <2>1. \A i \in k..n : list[i] \in E
    BY <1>1, <1>2
  <2>2. /\ two \in Seq(E)
        /\ Len(two) = IF k <= n THEN n - k + 1 ELSE 0
        /\ \A i \in 1..(n - k + 1) : two[i] = list[k + i - 1]
    BY <1>1, <1>2, <2>1, SubSeqProperties
  <2> HIDE DEF two
  <2>3. ~(k <= n) => n - k + 1 = 0
    BY <1>1, <1>2
  <2> QED BY <2>2, <2>3
<1> HIDE DEF one, two
<1>6. <<e>> \in Seq(E) /\ Len(<<e>>) = 1 /\ <<e>>[1] = e
  OBVIOUS
<1>7. /\ one \o <<e>> \in Seq(E) /\ Len(one \o <<e>>) = k
      /\ \A i \in 1..k : (one \o <<e>>)[i] = IF i <= k - 1 THEN list[i] ELSE e
  <2>1. /\ one \o <<e>> \in Seq(E) /\ Len(one \o <<e>>) = Len(one) + Len(<<e>>)
        /\ \A i \in 1..(Len(one) + Len(<<e>>)) :
              (one \o <<e>>)[i] = IF i <= Len(one) THEN one[i] ELSE <<e>>[i - Len(one)]
    BY <1>4, <1>6, ConcatProperties
  <2>2. (k - 1) + 1 = k /\ k - (k - 1) = 1
    BY <1>2
  <2>3. \A i \in 1..k : i \in 1..(k - 1) \/ (i = k /\ ~(i <= k - 1))
    BY <1>2
  <2> DEFINE left == one \o <<e>>
             ee == <<e>>
  <2>4. /\ left \in Seq(E) /\ Len(left) = k
        /\ \A i \in 1..k : left[i] = IF i <= k - 1 THEN one[i] ELSE ee[i - (k - 1)]
    BY <1>4, <1>6, <2>1, <2>2
  <2> HIDE DEF left
  <2>5. ASSUME NEW i \in 1..k
        PROVE  left[i] = IF i <= k - 1 THEN list[i] ELSE e
    <3>1. CASE i \in 1..(k - 1)
      <4>1. i <= k - 1
        BY <1>2, <3>1
      <4> QED BY <1>4, <2>4, <3>1, <4>1
    <3>2. CASE i = k /\ ~(i <= k - 1)
      BY <1>6, <2>2, <2>4, <3>2
    <3> QED BY <2>3, <3>1, <3>2
  <2> QED BY <2>4, <2>5 DEF left
<1>8. /\ all \in Seq(E) /\ Len(all) = n + 1
      /\ \A i \in 1..(n + 1) : all[i] = IF i < k THEN list[i] ELSE IF i = k THEN e ELSE list[i - 1]
  <2> DEFINE left == one \o <<e>>
  <2>1. left \in Seq(E) /\ Len(left) = k
        /\ \A i \in 1..k : left[i] = IF i <= k - 1 THEN list[i] ELSE e
    BY <1>7
  <2>2. all = left \o two
    BY <1>3
  <2> HIDE DEF left, all
  <2>3. /\ left \o two \in Seq(E) /\ Len(left \o two) = k + (n - k + 1)
        /\ \A i \in 1..(k + (n - k + 1)) :
              (left \o two)[i] = IF i <= k THEN left[i] ELSE two[i - k]
    BY <1>5, <2>1, ConcatProperties
  <2>4. k + (n - k + 1) = n + 1
    BY <1>1, <1>2
  <2>5. ASSUME NEW i \in 1..(n + 1)
        PROVE  all[i] = IF i < k THEN list[i] ELSE IF i = k THEN e ELSE list[i - 1]
    <3>1. CASE i <= k
      <4>1. i \in 1..k /\ (i <= k - 1 <=> i < k) /\ (~(i < k) => i = k)
        BY <1>2, <3>1
      <4> QED BY <2>1, <2>2, <2>3, <2>4, <3>1, <4>1
    <3>2. CASE ~(i <= k)
      <4>1. i - k \in 1..(n - k + 1) /\ k + (i - k) - 1 = i - 1 /\ ~(i < k) /\ i # k
        BY <1>1, <1>2, <3>2
      <4> QED BY <1>5, <2>2, <2>3, <2>4, <3>2, <4>1
    <3> QED BY <3>1, <3>2
  <2> QED BY <2>2, <2>3, <2>4, <2>5
<1> HIDE DEF all
<1>9. \A i \in 1..n : list[i].stamp \in Nat
  BY <1>1 DEF Timed
<1>10. e.stamp \in Nat
  BY DEF Timed
<1>11. ASSUME NEW i \in k..n
       PROVE  list[i].stamp <= e.stamp
  <2>1. k \in 1..n /\ i \in 1..n /\ list[k].stamp <= e.stamp
    BY <1>1, <1>2
  <2>2. k = i \/ k < i
    BY <1>2
  <2> QED BY <1>9, <1>10, <2>1, <2>2 DEF Sorted
<1>12. Sorted(all)
  <2> SUFFICES ASSUME NEW i \in 1..(n + 1), NEW j \in 1..(n + 1), i < j
               PROVE  all[i].stamp >= all[j].stamp
    BY <1>8 DEF Sorted
  <2>1. CASE j < k
    <3>1. i \in 1..n /\ j \in 1..n /\ i < k
      BY <1>1, <1>2, <2>1
    <3> QED BY <1>8, <2>1, <3>1 DEF Sorted
  <2>2. CASE j = k
    <3>1. i \in 1..n /\ i < k /\ ~(j < k)
      BY <1>1, <1>2, <2>2
    <3>2. all[i] = list[i] /\ all[j] = e /\ list[i].stamp > e.stamp
      BY <1>2, <1>8, <2>2, <3>1
    <3> QED BY <1>9, <1>10, <3>1, <3>2
  <2>3. CASE j > k
    <3>1. j - 1 \in k..n /\ j - 1 \in 1..n /\ ~(j < k) /\ j # k
      BY <1>1, <1>2, <2>3
    <3>2. all[j] = list[j - 1] /\ list[j - 1].stamp <= e.stamp
      BY <1>8, <1>11, <3>1
    <3>3. CASE i < k
      <4>1. i \in 1..n /\ i < j - 1
        BY <1>1, <1>2, <2>3, <3>3
      <4> QED BY <1>8, <3>1, <3>2, <3>3, <4>1 DEF Sorted
    <3>4. CASE i = k
      <4>1. all[i] = e
        BY <1>8, <3>4, <1>2
      <4> QED BY <1>9, <1>10, <3>1, <3>2, <4>1
    <3>5. CASE i > k
      <4>1. i - 1 \in 1..n /\ i - 1 < j - 1 /\ ~(i < k) /\ i # k
        BY <1>1, <1>2, <3>5
      <4> QED BY <1>8, <3>1, <3>2, <4>1 DEF Sorted
    <3> QED BY <1>2, <3>3, <3>4, <3>5
  <2> QED BY <1>2, <2>1, <2>2, <2>3
<1>13. ToSet(all) = ToSet(list) \union {e}
  <2>1. DOMAIN all = 1..(n + 1)
    BY <1>8, Elements
  <2>2. ASSUME NEW i \in 1..(n + 1)
        PROVE  all[i] \in ToSet(list) \union {e}
    <3>1. (i < k => i \in 1..n) /\ (i > k => i - 1 \in 1..n /\ ~(i < k) /\ i # k)
      BY <1>1, <1>2
    <3>2. i < k \/ i = k \/ i > k
      BY <1>2
    <3> QED BY <1>1, <1>8, <3>1, <3>2 DEF ToSet
  <2>3. ASSUME NEW i \in 1..n
        PROVE  list[i] \in ToSet(all)
    <3>1. CASE i < k
      <4>1. i \in 1..(n + 1)
        BY <1>1
      <4> QED BY <1>8, <2>1, <3>1, <4>1 DEF ToSet
    <3>2. CASE ~(i < k)
      <4>1. i + 1 \in 1..(n + 1) /\ ~(i + 1 < k) /\ i + 1 # k /\ (i + 1) - 1 = i
        BY <1>1, <1>2, <3>2
      <4> QED BY <1>8, <2>1, <4>1 DEF ToSet
    <3> QED BY <3>1, <3>2
  <2>4. e \in ToSet(all)
    <3>1. k \in 1..(n + 1) /\ ~(k < k)
      BY <1>2
    <3> QED BY <1>8, <2>1, <3>1 DEF ToSet
  <2> QED BY <1>1, <2>1, <2>2, <2>3, <2>4 DEF ToSet
<1> QED BY <1>8, <1>12, <1>13 DEF all, k, HasInserted

(* What is not much older than the latest entry stays. *)
LEMMA Pruned ==
    ASSUME NEW E, Timed(E), NEW list \in Seq(E), Sorted(list), list # <<>>
    PROVE  LET kept == SubSeq(list, 1, LastRecent(list))
           IN  /\ kept \in Seq(E) /\ kept # <<>> /\ Sorted(kept)
               /\ ToSet(kept) \subseteq ToSet(list)
               /\ \A x \in ToSet(list) : Close(list, x) => x \in ToSet(kept)
<1> DEFINE n == Len(list)
           s == {i \in 1..n : list[i].stamp + CacheTime >= list[1].stamp}
           k == LastRecent(list)
           kept == SubSeq(list, 1, k)
<1>1. n \in Nat \ {0} /\ DOMAIN list = 1..n /\ \A i \in 1..n : list[i] \in E /\ list[i].stamp \in Nat
  BY Elements, EmptySeq DEF Timed
<1>2. CacheTime \in Nat
  BY BufferAssumption
<1>3. 1 \in s /\ s \in SUBSET (0..n)
  <2>1. 1 \in 1..n
    BY <1>1
  <2>2. list[1].stamp + CacheTime >= list[1].stamp
    BY <1>1, <1>2, <2>1
  <2> QED BY <1>1, <2>1, <2>2
<1>4. k = Max(s)
  BY DEF LastRecent
<1> HIDE DEF s
<1>5. k \in s /\ \A i \in s : k >= i
  BY <1>1, <1>3, <1>4, MaxIs
<1>6. k \in 1..n
  BY <1>5 DEF s
<1> HIDE DEF k
<1>7. kept \in Seq(E) /\ Len(kept) = k /\ \A i \in 1..k : kept[i] = list[i]
  <2>1. \A i \in 1..k : list[i] \in E
    BY <1>1, <1>6
  <2>2. /\ kept \in Seq(E)
        /\ Len(kept) = IF 1 <= k THEN k - 1 + 1 ELSE 0
        /\ \A i \in 1..(k - 1 + 1) : kept[i] = list[1 + i - 1]
    <3>1. 1 \in Int /\ k \in Int
      BY <1>6
    <3> QED BY <2>1, <3>1, SubSeqProperties
  <2> HIDE DEF kept
  <2>3. k - 1 + 1 = k /\ 1 <= k
    BY <1>6
  <2>4. \A i \in 1..k : 1 + i - 1 = i
    BY <1>6
  <2> QED BY <2>2, <2>3, <2>4
<1> HIDE DEF kept
<1>8. kept # <<>>
  <2>1. Len(kept) # 0
    BY <1>6, <1>7
  <2> QED BY <2>1, EmptySeq
<1>9. \A i \in 1..k : i \in 1..n
  BY <1>6
<1>10. Sorted(kept)
  BY <1>7, <1>9 DEF Sorted
<1>11. DOMAIN kept = 1..k
  BY <1>7, Elements
<1>12. ToSet(kept) \subseteq ToSet(list)
  BY <1>1, <1>7, <1>9, <1>11 DEF ToSet
<1>13. ASSUME NEW x \in ToSet(list), Close(list, x)
       PROVE  x \in ToSet(kept)
  <2>1. PICK i \in 1..n : x = list[i]
    BY <1>1 DEF ToSet
  <2>2. list[1] \in ToSet(list)
    <3>1. 1 \in 1..n
      BY <1>1
    <3> QED BY <1>1, <3>1 DEF ToSet
  <2>3. list[i].stamp + CacheTime >= list[1].stamp
    <3>1. list[1].stamp <= list[i].stamp + CacheTime
      BY <1>13, <2>1, <2>2 DEF Close
    <3>2. list[1].stamp \in Nat /\ list[i].stamp \in Nat
      BY <1>1
    <3> QED BY <1>2, <3>1, <3>2
  <2>4. i \in 1..k
    <3>1. i \in s
      BY <2>3 DEF s
    <3>2. k >= i
      BY <1>5, <3>1
    <3> QED BY <1>6, <3>2
  <2> QED BY <1>7, <1>11, <2>1, <2>4 DEF ToSet
<1> QED BY <1>7, <1>8, <1>10, <1>12, <1>13 DEF kept, k

(* insertData keeps a list sorted, and drops only what is too old. *)
LEMMA InsertDataIs ==
    ASSUME NEW E, Timed(E), NEW c \in CacheOver(E), c.is # "nothing", Sorted(c.list), NEW e \in E
    PROVE  LET new == InsertData(c, e)
               all == ToSet(c.list) \union {e}
           IN  /\ new \in Filled(E) /\ new.is = c.is
               /\ ToSet(new.list) \subseteq all
               /\ c.is = "times" =>
                     \A x \in all : (\A y \in all : y.stamp <= x.stamp + CacheTime) =>
                         x \in ToSet(new.list)
<1> DEFINE list == c.list
           all == InsertAt(list, PlaceFor(e.stamp, list), e)
           kept == SubSeq(all, 1, LastRecent(all))
           both == ToSet(list) \union {e}
           new == InsertData(c, e)
<1>1. list \in Seq(E) /\ c.is \in {"static", "times"} /\ c = [is |-> c.is, list |-> c.list]
  BY DEF CacheOver
<1>2. CASE c.is = "static"
  <2>1. new = [c EXCEPT !.list = <<e>>]
    BY <1>2 DEF InsertData
  <2>2. new = [is |-> "static", list |-> <<e>>]
    BY <1>1, <1>2, <2>1
  <2>3. <<e>> \in Seq(E) /\ <<e>> # <<>> /\ Len(<<e>>) = 1 /\ DOMAIN <<e>> = 1..1 /\ <<e>>[1] = e
    OBVIOUS
  <2>4. ToSet(<<e>>) = {e}
    BY <2>3 DEF ToSet
  <2>5. Sorted(<<e>>)
    <3>1. \A i, j \in 1..1 : ~(i < j)
      OBVIOUS
    <3> QED BY <2>3, <3>1 DEF Sorted
  <2> HIDE DEF new
  <2>6. new.is = "static" /\ new.list = <<e>>
    BY <2>2
  <2>7. new \in Filled(E)
    BY <2>2, <2>3, <2>5, <2>6 DEF Filled, CacheOver
  <2>8. ToSet(new.list) \subseteq both
    BY <2>4, <2>6
  <2> QED BY <1>2, <2>6, <2>7, <2>8 DEF new
<1>3. CASE c.is = "times"
  <2>1. all \in Seq(E) /\ Len(all) = Len(list) + 1 /\ Sorted(all) /\ ToSet(all) = both
    <3> HIDE DEF list
    <3>1. Sorted(list)
      BY DEF list
    <3>2. HasInserted(all, list, e, E)
      BY <1>1, <3>1, Inserted
    <3> HIDE DEF all
    <3> QED BY <3>2 DEF HasInserted
  <2>2. new = IF list # <<>> /\ list[1].stamp > e.stamp + CacheTime THEN c
              ELSE [c EXCEPT !.list = kept]
    BY <1>3 DEF InsertData
  <2> HIDE DEF new, all
  <2>3. CASE list # <<>> /\ list[1].stamp > e.stamp + CacheTime
    <3>1. new = c
      BY <2>2, <2>3
    <3>2. new \in Filled(E)
      BY <1>1, <1>3, <2>3, <3>1 DEF Filled
    <3>3. ASSUME NEW x \in both, \A y \in both : y.stamp <= x.stamp + CacheTime
          PROVE  x \in ToSet(list)
      <4>1. list[1] \in ToSet(list)
        <5>1. Len(list) \in Nat \ {0} /\ DOMAIN list = 1..Len(list)
          BY <1>1, <2>3, EmptySeq, Elements
        <5>2. 1 \in DOMAIN list
          BY <5>1
        <5> QED BY <5>2 DEF ToSet
      <4>2. list[1].stamp <= x.stamp + CacheTime
        BY <3>3, <4>1
      <4>3. list[1].stamp \in Nat /\ e.stamp \in Nat
        BY <1>1, <4>1, Elements DEF Timed
      <4>4. x # e
        BY <2>3, <4>2, <4>3, BufferAssumption
      <4> QED BY <4>4
    <3> QED BY <3>1, <3>2, <3>3 DEF new
  <2>4. CASE ~(list # <<>> /\ list[1].stamp > e.stamp + CacheTime)
    <3>1. new = [is |-> "times", list |-> kept]
      BY <1>1, <1>3, <2>2, <2>4
    <3>2. all # <<>>
      <4>1. Len(list) \in Nat /\ Len(all) # 0
        BY <1>1, <2>1, Elements
      <4> QED BY <4>1, EmptySeq
    <3>3. /\ kept \in Seq(E) /\ kept # <<>> /\ Sorted(kept) /\ ToSet(kept) \subseteq both
          /\ \A x \in both : Close(all, x) => x \in ToSet(kept)
      BY <2>1, <3>2, Pruned
    <3> HIDE DEF kept
    <3>4. new \in Filled(E) /\ new.is = "times" /\ new.list = kept
      BY <3>1, <3>3 DEF Filled, CacheOver
    <3>5. ASSUME NEW x \in both, \A y \in both : y.stamp <= x.stamp + CacheTime
          PROVE  x \in ToSet(kept)
      <4>1. Close(all, x)
        BY <2>1, <3>5 DEF Close
      <4> QED BY <3>3, <4>1
    <3> QED BY <1>3, <3>3, <3>4, <3>5 DEF new
  <2> QED BY <2>3, <2>4
<1> QED BY <1>1, <1>2, <1>3

-----------------------------------------------------------------------------
(* What a cache gives for a stamp.                                         *)

IsEntry(d) == d = Entry(d.stamp, d.parent, d.pose) /\ d.parent \in Frame /\ IsPose(d.pose)
Entries(E) == \A e \in E : IsEntry(e) /\ e.stamp \in Nat \ {0}

(* findClosest: what is found is in the list, the older one first. *)
LEMMA FindClosestIs ==
    ASSUME NEW E, Timed(E), NEW list \in Seq(E), Sorted(list), NEW t \in Nat
    PROVE  LET found == FindClosest(list, t)
           IN  /\ \/ found = <<>>
                  \/ \E x \in ToSet(list) : found = <<x>>
                  \/ \E x, y \in ToSet(list) : /\ found = <<x, y>>
                                               /\ x.stamp <= t /\ t < y.stamp
               /\ t # 0 /\ (\E x \in ToSet(list) : x.stamp = t) =>
                     found # <<>> /\ found[1].stamp = t
<1> DEFINE n == Len(list)
           s == {j \in 1..n : list[j].stamp <= t}
           i == Min(s)
<1>1. n \in Nat /\ DOMAIN list = 1..n /\ \A j \in 1..n : list[j] \in ToSet(list) /\ list[j].stamp \in Nat
  BY Elements DEF Timed, ToSet
<1>2. CASE list = <<>>
  <2>1. ToSet(list) = {}
    BY <1>2 DEF ToSet
  <2> QED BY <1>2, <2>1 DEF FindClosest
<1>3. CASE list # <<>>
  <2>1. n \in Nat \ {0}
    BY <1>3, EmptySeq
  <2>2. 1 \in 1..n /\ n \in 1..n
    BY <2>1
  <2>3. CASE t = 0 \/ t = list[1].stamp
    BY <1>1, <1>3, <2>2, <2>3 DEF FindClosest
  <2>4. CASE ~(t = 0 \/ t = list[1].stamp) /\ t = list[n].stamp
    BY <1>1, <1>3, <2>2, <2>4 DEF FindClosest
  <2>5. CASE ~(t = 0 \/ t = list[1].stamp) /\ t # list[n].stamp
               /\ (t > list[1].stamp \/ t < list[n].stamp)
    <3>1. FindClosest(list, t) = <<>>
      BY <1>3, <2>5 DEF FindClosest
    <3>2. ASSUME NEW j \in 1..n
          PROVE  list[j].stamp # t
      <4>1. list[1].stamp >= list[j].stamp /\ list[j].stamp >= list[n].stamp
        <5>1. (j = 1 \/ 1 < j) /\ (j = n \/ j < n)
          BY <2>1
        <5>2. list[j].stamp \in Nat /\ list[1].stamp \in Nat /\ list[n].stamp \in Nat
          BY <1>1, <2>2
        <5> QED BY <2>2, <5>1, <5>2 DEF Sorted
      <4>2. list[j].stamp \in Nat /\ list[1].stamp \in Nat /\ list[n].stamp \in Nat
        BY <1>1, <2>2
      <4> QED BY <2>5, <4>1, <4>2
    <3>3. ~(\E x \in ToSet(list) : x.stamp = t)
      BY <1>1, <3>2 DEF ToSet
    <3> QED BY <3>1, <3>3
  <2>6. CASE ~(t = 0 \/ t = list[1].stamp) /\ t # list[n].stamp
               /\ ~(t > list[1].stamp \/ t < list[n].stamp)
    <3>1. FindClosest(list, t) = <<list[i], list[i - 1]>>
      BY <1>3, <2>6 DEF FindClosest
    <3>2. list[1].stamp \in Nat /\ list[n].stamp \in Nat
      BY <1>1, <2>2
    <3>3. n \in s /\ 1 \notin s /\ s \in SUBSET Nat
      <4>1. list[n].stamp <= t /\ ~(list[1].stamp <= t)
        BY <2>6, <3>2
      <4> QED BY <2>2, <4>1
    <3> HIDE DEF s
    <3>4. i \in s /\ \A j \in s : i <= j
      BY <3>3, MinIs
    <3> HIDE DEF i
    <3>5. i \in 1..n /\ list[i].stamp <= t /\ i # 1
      BY <3>3, <3>4 DEF s
    <3>6. i - 1 \in 1..n /\ ~(i <= i - 1)
      BY <2>1, <3>5
    <3>7. ~(list[i - 1].stamp <= t)
      BY <3>4, <3>6 DEF s
    <3>8. t < list[i - 1].stamp
      BY <1>1, <3>6, <3>7
    <3>9. ASSUME NEW k \in 1..n, list[k].stamp = t
          PROVE  list[i].stamp = t
      <4>1. k \in s
        BY <3>9 DEF s
      <4>2. i = k \/ i < k
        BY <3>4, <3>5, <4>1
      <4>3. list[i].stamp >= list[k].stamp
        BY <1>1, <3>5, <4>2 DEF Sorted
      <4> QED BY <1>1, <3>5, <3>9, <4>3
    <3>10. (\E x \in ToSet(list) : x.stamp = t) => list[i].stamp = t
      BY <1>1, <3>9 DEF ToSet
    <3> QED BY <1>1, <3>1, <3>5, <3>6, <3>8, <3>10
  <2> QED BY <2>3, <2>4, <2>5, <2>6
<1> QED BY <1>2, <1>3

(* What is between two entries is an entry. *)
LEMMA InterpolateIs ==
    ASSUME NEW one, NEW two, NEW t, IsEntry(one), IsEntry(two)
    PROVE  IsEntry(Interpolate(one, two, t))
<1>1. \A p, q : IsPose(Between(p, q, t))
  BY SingleIs DEF Between
<1>2. \/ Interpolate(one, two, t) = two
      \/ Interpolate(one, two, t) = one
      \/ \E p, q : Interpolate(one, two, t) = [one EXCEPT !.pose = Between(p, q, t)]
  BY DEF Interpolate
<1>3. ASSUME NEW p, NEW q
      PROVE  IsEntry([one EXCEPT !.pose = Between(p, q, t)])
  <2>1. [one EXCEPT !.pose = Between(p, q, t)] = Entry(one.stamp, one.parent, Between(p, q, t))
    BY DEF Entry, IsEntry
  <2> QED BY <1>1, <2>1 DEF IsEntry, Entry
<1> QED BY <1>2, <1>3

LEMMA GetDataIs ==
    ASSUME NEW E, Entries(E), NEW c \in Filled(E), c.is # "nothing", NEW t \in Nat
    PROVE  GetData(c, t) = Nothing \/ IsEntry(GetData(c, t))
<1> DEFINE found == FindClosest(c.list, t)
<1>1. c.list \in Seq(E) /\ Sorted(c.list) /\ c.list # <<>> /\ ToSet(c.list) \subseteq E /\ Timed(E)
  BY Elements DEF Filled, CacheOver, Entries, Timed
<1>2. CASE c.is = "static"
  <2>1. c.list[1] \in E
    <3>1. Len(c.list) \in Nat \ {0}
      BY <1>1, EmptySeq
    <3>2. 1 \in 1..Len(c.list)
      BY <3>1
    <3> QED BY <1>1, <3>2, Elements
  <2> QED BY <1>2, <2>1 DEF GetData, Entries
<1>3. CASE c.is # "static"
  <2>1. GetData(c, t) = Closest(found, t)
    BY <1>3 DEF GetData
  <2>2. \/ found = <<>>
        \/ \E x \in ToSet(c.list) : found = <<x>>
        \/ \E x, y \in ToSet(c.list) : found = <<x, y>>
    BY <1>1, FindClosestIs
  <2> HIDE DEF found
  <2>3. CASE found = <<>>
    BY <2>1, <2>3 DEF Closest
  <2>4. ASSUME NEW x \in ToSet(c.list), found = <<x>>
        PROVE  IsEntry(GetData(c, t))
    <3>1. Len(<<x>>) = 1 /\ <<x>>[1] = x
      OBVIOUS
    <3>2. Closest(found, t) = x
      BY <2>4, <3>1 DEF Closest
    <3> QED BY <1>1, <2>1, <3>2 DEF Entries
  <2>5. ASSUME NEW x \in ToSet(c.list), NEW y \in ToSet(c.list), found = <<x, y>>
        PROVE  IsEntry(GetData(c, t))
    <3>1. Len(<<x, y>>) = 2 /\ <<x, y>>[1] = x /\ <<x, y>>[2] = y
      OBVIOUS
    <3>2. Closest(found, t) = IF x.parent = y.parent THEN Interpolate(x, y, t) ELSE x
      BY <2>5, <3>1 DEF Closest
    <3>3. IsEntry(x) /\ IsEntry(y)
      BY <1>1 DEF Entries
    <3> QED BY <2>1, <3>2, <3>3, InterpolateIs
  <2> QED BY <2>2, <2>3, <2>4, <2>5
<1> QED BY <1>2, <1>3

(* The only entry with a stamp is what there is at that time. *)
LEMMA GetDataFinds ==
    ASSUME NEW E, Entries(E), NEW c \in Filled(E), c.is = "times", NEW x \in ToSet(c.list),
           \A y \in ToSet(c.list) : y.stamp = x.stamp => y = x
    PROVE  GetData(c, x.stamp) = x
<1> DEFINE t == x.stamp
           found == FindClosest(c.list, t)
<1>1. c.list \in Seq(E) /\ Sorted(c.list) /\ ToSet(c.list) \subseteq E /\ Timed(E)
  BY Elements DEF Filled, CacheOver, Entries, Timed
<1>2. t \in Nat \ {0}
  BY <1>1 DEF Entries
<1>3. GetData(c, t) = Closest(found, t)
  BY DEF GetData
<1>4. /\ \/ found = <<>>
         \/ \E y \in ToSet(c.list) : found = <<y>>
         \/ \E y, z \in ToSet(c.list) : found = <<y, z>> /\ y.stamp <= t /\ t < z.stamp
      /\ found # <<>> /\ found[1].stamp = t
  <2>1. \E y \in ToSet(c.list) : y.stamp = t
    OBVIOUS
  <2> HIDE DEF t
  <2> QED BY <1>1, <1>2, <2>1, FindClosestIs
<1> HIDE DEF found
<1>5. ASSUME NEW y \in ToSet(c.list), found = <<y>>
      PROVE  Closest(found, t) = x
  <2>1. Len(<<y>>) = 1 /\ <<y>>[1] = y
    OBVIOUS
  <2>2. y = x
    BY <1>4, <1>5, <2>1
  <2> QED BY <1>5, <2>1, <2>2 DEF Closest
<1>6. ASSUME NEW y \in ToSet(c.list), NEW z \in ToSet(c.list), found = <<y, z>>, t < z.stamp
      PROVE  Closest(found, t) = x
  <2>1. Len(<<y, z>>) = 2 /\ <<y, z>>[1] = y /\ <<y, z>>[2] = z
    OBVIOUS
  <2>2. y = x
    BY <1>4, <1>6, <2>1
  <2>3. z.stamp \in Nat /\ z.stamp # t
    BY <1>1, <1>2, <1>6 DEF Timed
  <2>4. Interpolate(x, z, t) = x
    BY <2>3 DEF Interpolate
  <2> QED BY <1>6, <2>1, <2>2, <2>4 DEF Closest
<1> QED BY <1>3, <1>4, <1>5, <1>6

-----------------------------------------------------------------------------
(* A buffer: the frames of an entry are known.                             *)

BufferOver(E) ==
    {b \in [cache : [Frame -> Filled(E)], known : SUBSET Frame] :
        \A f \in Frame : \A e \in ToSet(b.cache[f].list) : {f, e.parent} \subseteq b.known}

NewCache(static) == [is |-> IF static THEN "static" ELSE "times", list |-> <<>>]
CacheFor(old, static) == IF old # NoCache THEN old ELSE NewCache(static)

LEMMA EmptyIs ==
    ASSUME NEW E
    PROVE  NoCache \in Filled(E) /\ EmptyBuffer \in BufferOver(E)
<1>1. <<>> \in Seq(E) /\ Len(<<>>) = 0 /\ ToSet(<<>>) = {} /\ Sorted(<<>>)
  <2>1. Len(<<>>) = 0 /\ \A i \in 1..0 : FALSE
    OBVIOUS
  <2> QED BY <2>1 DEF ToSet, Sorted
<1>2. NoCache \in Filled(E)
  BY <1>1 DEF Filled, CacheOver, NoCache
<1> QED BY <1>1, <1>2 DEF EmptyBuffer, BufferOver, NoCache

LEMMA CacheForIs ==
    ASSUME NEW E, NEW old \in Filled(E), NEW static
    PROVE  LET c == CacheFor(old, static)
           IN  /\ c \in CacheOver(E) /\ c.is # "nothing" /\ Sorted(c.list)
               /\ old # NoCache => c = old
               /\ old = NoCache => c.is = (IF static THEN "static" ELSE "times") /\ ToSet(c.list) = {}
<1>1. <<>> \in Seq(E) /\ Len(<<>>) = 0 /\ ToSet(<<>>) = {} /\ Sorted(<<>>)
  <2>1. Len(<<>>) = 0 /\ \A i \in 1..0 : FALSE
    OBVIOUS
  <2> QED BY <2>1 DEF ToSet, Sorted
<1>2. old = [is |-> old.is, list |-> old.list]
  BY DEF Filled, CacheOver
<1>3. CASE old # NoCache
  <2>1. old.is # "nothing"
    BY <1>2, <1>3 DEF NoCache, Filled
  <2> QED BY <1>3, <2>1 DEF CacheFor, Filled
<1>4. CASE old = NoCache
  BY <1>1, <1>4 DEF CacheFor, NewCache, CacheOver
<1> QED BY <1>3, <1>4

LEMMA SetTransformIs ==
    ASSUME NEW E, Entries(E), NEW b \in BufferOver(E), NEW parent \in Frame, NEW child \in Frame,
           NEW time, NEW pose, NEW static, Entry(time, parent, pose) \in E
    PROVE  LET new == SetTransform(b, parent, child, time, pose, static)
           IN  /\ new \in BufferOver(E)
               /\ parent = child => new = b
               /\ \A f \in Frame \ {child} : new.cache[f] = b.cache[f]
               /\ parent # child =>
                     new.cache[child] = InsertData(CacheFor(b.cache[child], static),
                                                   Entry(time, parent, pose))
<1> DEFINE e == Entry(time, parent, pose)
           c == CacheFor(b.cache[child], static)
           d == InsertData(c, e)
           new == SetTransform(b, parent, child, time, pose, static)
<1>1. CASE parent = child
  BY <1>1 DEF SetTransform
<1>2. CASE parent # child
  <2>1. new = [cache |-> [b.cache EXCEPT ![child] = d], known |-> b.known \union {parent, child}]
    BY <1>2 DEF SetTransform, CacheFor, NewCache
  <2>2. b.cache \in [Frame -> Filled(E)] /\ b.known \in SUBSET Frame
        /\ \A f \in Frame : \A x \in ToSet(b.cache[f].list) : {f, x.parent} \subseteq b.known
    BY DEF BufferOver
  <2>3. Timed(E)
    BY DEF Entries, Timed
  <2>4. /\ c \in CacheOver(E) /\ c.is # "nothing" /\ Sorted(c.list)
        /\ ToSet(c.list) \subseteq ToSet(b.cache[child].list)
    <3>1. b.cache[child] \in Filled(E)
      BY <2>2
    <3> QED BY <3>1, CacheForIs
  <2>5. e.parent = parent
    BY DEF Entry
  <2> HIDE DEF c, e
  <2>6. d \in Filled(E) /\ ToSet(d.list) \subseteq ToSet(c.list) \union {e}
    <3>1. e \in E
      BY DEF e
    <3> QED BY <2>3, <2>4, <3>1, InsertDataIs
  <2> HIDE DEF d, new
  <2>7. /\ new.cache = [b.cache EXCEPT ![child] = d] /\ new.known = b.known \union {parent, child}
        /\ new.cache[child] = d /\ \A f \in Frame \ {child} : new.cache[f] = b.cache[f]
    BY <2>1, <2>2
  <2>8. new \in [cache : [Frame -> Filled(E)], known : SUBSET Frame]
    BY <2>1, <2>2, <2>6
  <2>9. ASSUME NEW f \in Frame, NEW x \in ToSet(new.cache[f].list)
        PROVE  {f, x.parent} \subseteq new.known
    <3>1. CASE f = child
      <4>1. x = e \/ x \in ToSet(b.cache[child].list)
        BY <2>4, <2>6, <2>7, <2>9, <3>1
      <4> QED BY <2>2, <2>5, <2>7, <3>1, <4>1
    <3>2. CASE f # child
      <4>1. x \in ToSet(b.cache[f].list)
        BY <2>7, <2>9, <3>2
      <4> QED BY <2>2, <2>7, <4>1
    <3> QED BY <3>1, <3>2
  <2>10. new \in BufferOver(E)
    BY <2>8, <2>9 DEF BufferOver
  <2> QED BY <1>2, <2>7, <2>10 DEF new, d, c, e
<1> QED BY <1>1, <1>2

Listed(p, list, E) ==
    \E T : list.transforms \in Seq(T) /\ \A x \in T : Entry(x.stamp, p[1], x.pose) \in E

PutOne(b, pair, list, x) == SetTransform(b, pair[1], pair[2], x.stamp, x.pose, list.static)

(* One list, transform by transform *)
LEMMA PutListRuns ==
    ASSUME NEW E, Entries(E), NEW b \in BufferOver(E), NEW pair \in Frame \X Frame, NEW list,
           Listed(pair, list, E)
    PROVE  LET xs == list.transforms
           IN  \E r : /\ r[0] = b /\ \A i \in 0..Len(xs) : r[i] \in BufferOver(E)
                      /\ \A i \in 1..Len(xs) : r[i] = PutOne(r[i - 1], pair, list, xs[i])
                      /\ PutList(b, pair, list) = r[Len(xs)]
<1> DEFINE xs == list.transforms
           n == Len(xs)
           D == BufferOver(E)
           g == [i \in 1..n |-> [d \in D |-> PutOne(d, pair, list, xs[i])]]
<1>0. PICK T : xs \in Seq(T) /\ \A x \in T : Entry(x.stamp, pair[1], x.pose) \in E
  BY DEF Listed
<1> HIDE DEF xs
<1>1. n \in Nat /\ DOMAIN xs = 1..n /\ \A i \in 1..n : xs[i] \in T
  BY <1>0, Elements
<1>3. ASSUME NEW i \in 1..n, NEW d \in D
      PROVE  PutOne(d, pair, list, xs[i]) \in D
  <2>1. Entry(xs[i].stamp, pair[1], xs[i].pose) \in E /\ pair[1] \in Frame /\ pair[2] \in Frame
    BY <1>0, <1>1
  <2> QED BY <2>1, SetTransformIs DEF PutOne
<1> HIDE DEF D
<1>2. b \in D
  BY DEF D
<1>4. g \in [1..n -> [D -> D]]
  BY <1>3
<1>5. PICK f \in [SUBSET (1..n) -> D] : Folds(n, b, g, f)
  BY <1>1, <1>2, <1>4, FoldExists
<1>6. f = [s \in SUBSET (1..n) |-> IF s = {} THEN b
                                   ELSE PutOne(f[s \ {Max(s)}], pair, list, xs[Max(s)])]
  <2>1. ASSUME NEW s \in SUBSET (1..n), s # {}
        PROVE  f[s] = PutOne(f[s \ {Max(s)}], pair, list, xs[Max(s)])
    <3>1. s \in SUBSET (0..n)
      BY <1>1
    <3>2. Max(s) \in 1..n
      BY <1>1, <2>1, <3>1, MaxIs
    <3>3. f[s \ {Max(s)}] \in D
      OBVIOUS
    <3> QED BY <1>5, <2>1, <3>2, <3>3 DEF Folds
  <2>2. f[{}] = b
    BY <1>5 DEF Folds
  <2> QED BY <2>1, <2>2
<1> HIDE DEF g
<1> DEFINE h == CHOOSE h : h = [s \in SUBSET (DOMAIN xs) |->
                                  IF s = {} THEN b
                                  ELSE PutOne(h[s \ {Max(s)}], pair, list, xs[Max(s)])]
<1>7. /\ PutList(b, pair, list) = h[1..n]
      /\ h = [s \in SUBSET (1..n) |-> IF s = {} THEN b
                                      ELSE PutOne(h[s \ {Max(s)}], pair, list, xs[Max(s)])]
  <2>1. PutList(b, pair, list) = h[DOMAIN xs]
    BY DEF PutList, PutOne, FoldLeft, MapThenFoldSet, xs
  <2>2. h = [s \in SUBSET (DOMAIN xs) |-> IF s = {} THEN b
                                          ELSE PutOne(h[s \ {Max(s)}], pair, list, xs[Max(s)])]
    BY <1>1, <1>6
  <2> QED BY <1>1, <2>1, <2>2
<1> HIDE DEF h
<1> DEFINE r == [i \in 0..n |-> h[1..i]]
<1>8. r[0] = b
  <2>1. 1..0 = {} /\ 0 \in 0..n
    BY <1>1
  <2> QED BY <1>7, <2>1
<1>9. ASSUME NEW i \in 1..n
      PROVE  r[i] = PutOne(r[i - 1], pair, list, xs[i])
  <2> DEFINE s == 1..i
  <2>1. s \in SUBSET (1..n) /\ s # {} /\ Max(s) = i /\ s \ {i} = 1..(i - 1)
    BY <1>1, FoldTurns
  <2> HIDE DEF s
  <2>2. h[s] = PutOne(h[s \ {Max(s)}], pair, list, xs[Max(s)])
    BY <1>7, <2>1
  <2>3. i \in 0..n /\ i - 1 \in 0..n
    BY <1>1
  <2> QED BY <2>1, <2>2, <2>3 DEF s
<1>10. PutList(b, pair, list) = r[n]
  BY <1>1, <1>7
<1> HIDE DEF r
<1>11. \A i \in 0..n : r[i] \in D
  <2> DEFINE P == {i \in 0..n : r[i] \in D}
  <2>1. 0 \in P /\ 0 \in 0..n
    BY <1>1, <1>2, <1>8
  <2>2. ASSUME NEW i \in (0 + 1)..n, i - 1 \in P
        PROVE  i \in P
    <3>1. i \in 1..n /\ i \in 0..n
      BY <1>1
    <3> QED BY <1>3, <1>9, <2>2, <3>1
  <2> HIDE DEF P
  <2>3. \A i \in 0..n : i \in P
    BY <1>1, <2>1, <2>2, Along
  <2> QED BY <2>3 DEF P
<1> QED BY <1>8, <1>9, <1>10, <1>11 DEF D, xs

(* A buffer, list by list *)
LEMMA BufferRuns ==
    ASSUME NEW E, Entries(E), NEW lists, \A p \in Pair : Listed(p, lists[p], E)
    PROVE  \E r : /\ r[0] = EmptyBuffer /\ \A i \in 0..Len(Lists) : r[i] \in BufferOver(E)
                  /\ \A i \in 1..Len(Lists) : r[i] = PutList(r[i - 1], Lists[i], lists[Lists[i]])
                  /\ BufferOf(lists) = r[Len(Lists)]
<1> DEFINE n == Len(Lists)
           D == BufferOver(E)
           Op(d, p) == PutList(d, p, lists[p])
           g == [i \in 1..n |-> [d \in D |-> Op(d, Lists[i])]]
<1>1. n \in Nat /\ DOMAIN Lists = 1..n /\ \A i \in 1..n : Lists[i] \in Frame \X Frame
  BY ListsAssumption, Elements
<1>2. EmptyBuffer \in D
  BY EmptyIs
<1>3. ASSUME NEW i \in 1..n, NEW d \in D
      PROVE  Op(d, Lists[i]) \in D
  <2>1. Lists[i] \in Pair /\ Lists[i] \in Frame \X Frame
    BY <1>1 DEF Pair, ToSet
  <2> DEFINE p == Lists[i]
             l == lists[p].transforms
  <2>2. Listed(p, lists[p], E)
    BY <2>1
  <2>3. Len(l) \in Nat
    BY <2>2, Elements DEF Listed
  <2>4. \E r : (\A j \in 0..Len(l) : r[j] \in BufferOver(E)) /\ PutList(d, p, lists[p]) = r[Len(l)]
    BY <2>1, <2>2, PutListRuns
  <2> HIDE DEF l
  <2> QED BY <2>3, <2>4
<1> HIDE DEF D
<1> HIDE DEF Op
<1>4. g \in [1..n -> [D -> D]]
  BY <1>3
<1>5. PICK f \in [SUBSET (1..n) -> D] : Folds(n, EmptyBuffer, g, f)
  BY <1>1, <1>2, <1>4, FoldExists
<1>6. f = [s \in SUBSET (1..n) |-> IF s = {} THEN EmptyBuffer
                                   ELSE Op(f[s \ {Max(s)}], Lists[Max(s)])]
  <2>1. ASSUME NEW s \in SUBSET (1..n), s # {}
        PROVE  f[s] = Op(f[s \ {Max(s)}], Lists[Max(s)])
    <3>1. s \in SUBSET (0..n)
      BY <1>1
    <3>2. Max(s) \in 1..n
      BY <1>1, <2>1, <3>1, MaxIs
    <3>3. f[s \ {Max(s)}] \in D
      OBVIOUS
    <3> QED BY <1>5, <2>1, <3>2, <3>3 DEF Folds
  <2>2. f[{}] = EmptyBuffer
    BY <1>5 DEF Folds
  <2> QED BY <2>1, <2>2
<1> HIDE DEF g
<1> DEFINE h == CHOOSE h : h = [s \in SUBSET (DOMAIN Lists) |->
                                  IF s = {} THEN EmptyBuffer
                                  ELSE Op(h[s \ {Max(s)}], Lists[Max(s)])]
<1>7. /\ BufferOf(lists) = h[1..n]
      /\ h = [s \in SUBSET (1..n) |-> IF s = {} THEN EmptyBuffer
                                      ELSE Op(h[s \ {Max(s)}], Lists[Max(s)])]
  <2>1. BufferOf(lists) = h[DOMAIN Lists]
    BY DEF BufferOf, FoldLeft, MapThenFoldSet, Op
  <2>2. h = [s \in SUBSET (DOMAIN Lists) |-> IF s = {} THEN EmptyBuffer
                                          ELSE Op(h[s \ {Max(s)}], Lists[Max(s)])]
    BY <1>1, <1>6
  <2> QED BY <1>1, <2>1, <2>2
<1> HIDE DEF h
<1> DEFINE r == [i \in 0..n |-> h[1..i]]
<1>8. r[0] = EmptyBuffer
  <2>1. 1..0 = {} /\ 0 \in 0..n
    BY <1>1
  <2> QED BY <1>7, <2>1
<1>9. ASSUME NEW i \in 1..n
      PROVE  r[i] = Op(r[i - 1], Lists[i])
  <2> DEFINE s == 1..i
  <2>1. s \in SUBSET (1..n) /\ s # {} /\ Max(s) = i /\ s \ {i} = 1..(i - 1)
    BY <1>1, FoldTurns
  <2> HIDE DEF s
  <2>2. h[s] = Op(h[s \ {Max(s)}], Lists[Max(s)])
    BY <1>7, <2>1
  <2>3. i \in 0..n /\ i - 1 \in 0..n
    BY <1>1
  <2> QED BY <2>1, <2>2, <2>3 DEF s
<1>10. BufferOf(lists) = r[n]
  BY <1>1, <1>7
<1> HIDE DEF r
<1>11. \A i \in 0..n : r[i] \in D
  <2> DEFINE P == {i \in 0..n : r[i] \in D}
  <2>1. 0 \in P /\ 0 \in 0..n
    BY <1>1, <1>2, <1>8
  <2>2. ASSUME NEW i \in (0 + 1)..n, i - 1 \in P
        PROVE  i \in P
    <3>1. i \in 1..n /\ i \in 0..n
      BY <1>1
    <3> QED BY <1>3, <1>9, <2>2, <3>1
  <2> HIDE DEF P
  <2>3. \A i \in 0..n : i \in P
    BY <1>1, <2>1, <2>2, Along
  <2> QED BY <2>3 DEF P
<1> QED BY <1>8, <1>9, <1>10, <1>11 DEF D, Op

(* The cache of a frame to which one list belongs: it holds transforms of  *)
(* that list only, and the one that is waited for once it was put there.   *)
OfList(p, list) == {Entry(y.stamp, p[1], y.pose) : y \in ToSet(list.transforms)}
NoneElse(c, own) == c = NoCache \/ (c.is = "times" /\ ToSet(c.list) \subseteq own)
IsThere(c, own, e) == c.is = "times" /\ ToSet(c.list) \subseteq own /\ e \in ToSet(c.list)

LEMMA PutOneIs ==
    ASSUME NEW E, Entries(E), NEW b \in BufferOver(E), NEW pair \in Frame \X Frame, NEW list,
           Listed(pair, list, E), pair[1] # pair[2], ~list.static,
           NEW e \in OfList(pair, list), \A d \in OfList(pair, list) : d.stamp <= e.stamp + CacheTime,
           NoneElse(b.cache[pair[2]], OfList(pair, list)), NEW y \in ToSet(list.transforms)
    PROVE  LET c == PutOne(b, pair, list, y).cache[pair[2]]
               own == OfList(pair, list)
           IN  /\ c.is = "times" /\ ToSet(c.list) \subseteq own
               /\ e = Entry(y.stamp, pair[1], y.pose) \/ IsThere(b.cache[pair[2]], own, e) => IsThere(c, own, e)
<1> DEFINE old == b.cache[pair[2]]
           d == Entry(y.stamp, pair[1], y.pose)
           own == OfList(pair, list)
           new == CacheFor(old, list.static)
           c == PutOne(b, pair, list, y).cache[pair[2]]
<1>1. d \in own /\ d \in E /\ own \subseteq E
  <2>1. PICK T : list.transforms \in Seq(T) /\ \A x \in T : Entry(x.stamp, pair[1], x.pose) \in E
    BY DEF Listed
  <2>2. ToSet(list.transforms) \subseteq T
    BY <2>1, Elements
  <2> QED BY <2>1, <2>2 DEF OfList
<1>2. c = InsertData(new, d)
  BY <1>1, SetTransformIs DEF PutOne
<1>3. old \in Filled(E)
  BY DEF BufferOver
<1>4. /\ new \in CacheOver(E) /\ new.is # "nothing" /\ Sorted(new.list)
      /\ old # NoCache => new = old
      /\ old = NoCache => new.is = "times" /\ ToSet(new.list) = {}
  <2> HIDE DEF old
  <2>1. /\ CacheFor(old, list.static) \in CacheOver(E) /\ CacheFor(old, list.static).is # "nothing"
        /\ Sorted(CacheFor(old, list.static).list)
        /\ old # NoCache => CacheFor(old, list.static) = old
        /\ old = NoCache => CacheFor(old, list.static).is = (IF list.static THEN "static" ELSE "times")
                            /\ ToSet(CacheFor(old, list.static).list) = {}
    BY <1>3, CacheForIs
  <2> QED BY <2>1
<1>5. Timed(E)
  BY DEF Entries, Timed
<1>6. NoneElse(old, own)
  OBVIOUS
<1>7. IsThere(old, own, e) => old # NoCache
  BY DEF IsThere, NoCache
<1>8. \A x \in own : x.stamp <= e.stamp + CacheTime
  OBVIOUS
<1> HIDE DEF c, new, d, old, own
<1>9. new.is = "times" /\ ToSet(new.list) \subseteq own
  BY <1>4, <1>6 DEF NoneElse
<1>10. /\ c.is = new.is /\ ToSet(c.list) \subseteq ToSet(new.list) \union {d}
       /\ \A x \in ToSet(new.list) \union {d} :
             (\A z \in ToSet(new.list) \union {d} : z.stamp <= x.stamp + CacheTime) => x \in ToSet(c.list)
  BY <1>1, <1>2, <1>4, <1>5, <1>9, InsertDataIs
<1>11. c.is = "times" /\ ToSet(c.list) \subseteq own
  BY <1>1, <1>9, <1>10
<1>12. ASSUME e = d \/ IsThere(old, own, e)
       PROVE  IsThere(c, own, e)
  <2>1. e \in ToSet(new.list) \union {d}
    BY <1>4, <1>7, <1>12 DEF IsThere
  <2>2. e \in ToSet(c.list)
    BY <1>1, <1>8, <1>9, <1>10, <2>1
  <2> QED BY <1>11, <2>2 DEF IsThere
<1> QED BY <1>11, <1>12 DEF c, d, old, own

LEMMA PutListIs ==
    ASSUME NEW E, Entries(E), NEW b \in BufferOver(E), NEW pair \in Frame \X Frame, NEW list,
           Listed(pair, list, E), pair[1] # pair[2], ~list.static,
           NEW e \in OfList(pair, list), \A d \in OfList(pair, list) : d.stamp <= e.stamp + CacheTime,
           NoneElse(b.cache[pair[2]], OfList(pair, list))
    PROVE  IsThere(PutList(b, pair, list).cache[pair[2]], OfList(pair, list), e)
<1> DEFINE xs == list.transforms
           n == Len(xs)
           own == OfList(pair, list)
<1>1. PICK r : /\ r[0] = b /\ \A i \in 0..n : r[i] \in BufferOver(E)
               /\ \A i \in 1..n : r[i] = PutOne(r[i - 1], pair, list, xs[i])
               /\ PutList(b, pair, list) = r[n]
  BY PutListRuns
<1>2. n \in Nat /\ DOMAIN xs = 1..n /\ \A i \in 1..n : xs[i] \in ToSet(xs)
  <2>1. PICK T : xs \in Seq(T)
    BY DEF Listed
  <2> HIDE DEF xs
  <2> QED BY <2>1, Elements DEF ToSet
<1>3. PICK j \in 1..n : e = Entry(xs[j].stamp, pair[1], xs[j].pose)
  BY <1>2 DEF OfList, ToSet
<1> DEFINE c(i) == r[i].cache[pair[2]]
<1>4. ASSUME NEW i \in 1..n, NoneElse(c(i - 1), own)
      PROVE  /\ c(i).is = "times" /\ ToSet(c(i).list) \subseteq own
             /\ e = Entry(xs[i].stamp, pair[1], xs[i].pose) \/ IsThere(c(i - 1), own, e) => IsThere(c(i), own, e)
  <2>1. i - 1 \in 0..n /\ i \in 0..n
    BY <1>2
  <2>2. r[i - 1] \in BufferOver(E) /\ r[i] = PutOne(r[i - 1], pair, list, xs[i]) /\ xs[i] \in ToSet(list.transforms)
    BY <1>1, <1>2, <2>1
  <2> HIDE DEF n, xs
  <2> QED BY <1>4, <2>2, PutOneIs DEF c, own
<1>0. c(0) = b.cache[pair[2]] /\ PutList(b, pair, list).cache[pair[2]] = c(n)
  BY <1>1
<1>9. NoneElse(c(0), own)
  BY <1>0
<1> HIDE DEF xs, n, c, own
<1>5. ASSUME NEW i \in 0..n
      PROVE  NoneElse(c(i), own)
  <2> DEFINE P == {k \in 0..n : NoneElse(c(k), own)}
  <2>1. 0 \in P /\ 0 \in 0..n
    BY <1>2, <1>9
  <2>2. ASSUME NEW k \in (0 + 1)..n, k - 1 \in P
        PROVE  k \in P
    <3>1. k \in 1..n /\ k \in 0..n
      BY <1>2
    <3>2. NoneElse(c(k), own)
      BY <1>4, <2>2, <3>1 DEF NoneElse
    <3> QED BY <3>1, <3>2
  <2> HIDE DEF P
  <2>3. \A k \in 0..n : k \in P
    BY <1>2, <2>1, <2>2, Along
  <2> QED BY <2>3 DEF P
<1>6. IsThere(c(n), own, e)
  <2> DEFINE P == {k \in j..n : IsThere(c(k), own, e)}
  <2>1. j \in P /\ j \in 0..n
    <3>1. j - 1 \in 0..n /\ j \in 0..n /\ j \in j..n
      BY <1>2
    <3> QED BY <1>3, <1>4, <1>5, <3>1
  <2>2. ASSUME NEW k \in (j + 1)..n, k - 1 \in P
        PROVE  k \in P
    <3>1. k \in 1..n /\ k - 1 \in 0..n /\ k \in j..n
      BY <1>2
    <3> QED BY <1>4, <1>5, <2>2, <3>1
  <2> HIDE DEF P
  <2>3. \A k \in j..n : k \in P
    BY <1>2, <2>1, <2>2, Along
  <2>4. n \in j..n
    BY <1>2
  <2> QED BY <2>3, <2>4 DEF P
<1> QED BY <1>0, <1>6 DEF own

(* A list of another frame leaves the cache alone, an empty list all. *)
LEMMA PutOtherIs ==
    ASSUME NEW E, Entries(E), NEW b \in BufferOver(E), NEW pair \in Frame \X Frame, NEW list,
           Listed(pair, list, E), NEW f \in Frame, f # pair[2] \/ list.transforms = <<>>
    PROVE  PutList(b, pair, list).cache[f] = b.cache[f]
<1> DEFINE xs == list.transforms
           n == Len(xs)
<1>1. PICK r : /\ r[0] = b /\ \A i \in 0..n : r[i] \in BufferOver(E)
               /\ \A i \in 1..n : r[i] = PutOne(r[i - 1], pair, list, xs[i])
               /\ PutList(b, pair, list) = r[n]
  BY PutListRuns
<1>0. PICK T : xs \in Seq(T) /\ \A x \in T : Entry(x.stamp, pair[1], x.pose) \in E
  BY DEF Listed
<1>2. n \in Nat /\ \A i \in 1..n : xs[i] \in T
  <2> HIDE DEF xs
  <2> QED BY <1>0, Elements
<1>3. CASE xs = <<>>
  BY <1>1, <1>3, EmptySeq
<1>4. CASE f # pair[2]
  <2> DEFINE P == {k \in 0..n : r[k].cache[f] = b.cache[f]}
  <2>1. 0 \in P /\ 0 \in 0..n
    BY <1>1, <1>2
  <2>2. ASSUME NEW k \in (0 + 1)..n, k - 1 \in P
        PROVE  k \in P
    <3>1. k \in 1..n /\ k \in 0..n /\ k - 1 \in 0..n
      BY <1>2
    <3>2. Entry(xs[k].stamp, pair[1], xs[k].pose) \in E /\ pair[1] \in Frame /\ pair[2] \in Frame
      BY <1>0, <1>2, <3>1
    <3>3. r[k - 1] \in BufferOver(E) /\ r[k] = PutOne(r[k - 1], pair, list, xs[k])
      BY <1>1, <3>1
    <3> HIDE DEF n, xs
    <3>4. r[k].cache[f] = r[k - 1].cache[f]
      BY <1>4, <3>2, <3>3, SetTransformIs DEF PutOne
    <3> QED BY <2>2, <3>1, <3>4
  <2> HIDE DEF P
  <2>3. \A k \in 0..n : k \in P
    <3> HIDE DEF n
    <3> QED BY <1>2, <2>1, <2>2, Along
  <2>4. n \in 0..n
    BY <1>2
  <2> QED BY <1>1, <2>3, <2>4 DEF P
<1> QED BY <1>3, <1>4

(* The buffer of all lists, at a frame to which one list belongs. *)
LEMMA BufferIs ==
    ASSUME NEW E, Entries(E), NEW lists, \A p \in Pair : Listed(p, lists[p], E)
    PROVE  BufferOf(lists) \in BufferOver(E)
<1>1. Len(Lists) \in Nat
  BY ListsAssumption, Elements
<1>2. Len(Lists) \in 0..Len(Lists)
  BY <1>1
<1> QED BY <1>2, BufferRuns

LEMMA ListIsCached ==
    ASSUME NEW E, Entries(E), NEW lists, \A p \in Pair : Listed(p, lists[p], E),
           NEW pair \in Pair, pair[1] # pair[2], ~lists[pair].static,
           \A p \in Pair : p[2] = pair[2] /\ lists[p].transforms # <<>> => p = pair,
           NEW e \in OfList(pair, lists[pair]),
           \A d \in OfList(pair, lists[pair]) : d.stamp <= e.stamp + CacheTime
    PROVE  IsThere(BufferOf(lists).cache[pair[2]], OfList(pair, lists[pair]), e)
<1> DEFINE n == Len(Lists)
           own == OfList(pair, lists[pair])
<1>1. PICK r : /\ r[0] = EmptyBuffer /\ \A i \in 0..n : r[i] \in BufferOver(E)
               /\ \A i \in 1..n : r[i] = PutList(r[i - 1], Lists[i], lists[Lists[i]])
               /\ BufferOf(lists) = r[n]
  BY BufferRuns
<1>2. n \in Nat /\ DOMAIN Lists = 1..n /\ \A i \in 1..n : Lists[i] \in Frame \X Frame /\ Lists[i] \in Pair
  BY ListsAssumption, Elements DEF Pair, ToSet
<1>3. PICK j \in 1..n : Lists[j] = pair
  BY <1>2 DEF Pair, ToSet
<1>4. pair \in Frame \X Frame /\ pair[1] \in Frame /\ pair[2] \in Frame
  BY <1>2, <1>3
<1> DEFINE c(i) == r[i].cache[pair[2]]
<1>5. ASSUME NEW i \in 1..n, NoneElse(c(i - 1), own)
      PROVE  IF Lists[i] = pair THEN IsThere(c(i), own, e) ELSE c(i) = c(i - 1)
  <2>1. i - 1 \in 0..n
    BY <1>2
  <2>2. r[i - 1] \in BufferOver(E) /\ r[i] = PutList(r[i - 1], Lists[i], lists[Lists[i]])
        /\ Lists[i] \in Pair /\ Lists[i] \in Frame \X Frame /\ Listed(Lists[i], lists[Lists[i]], E)
    BY <1>1, <1>2, <2>1
  <2> HIDE DEF n
  <2>3. CASE Lists[i] = pair
    <3>1. NoneElse(r[i - 1].cache[pair[2]], OfList(pair, lists[pair]))
      BY <1>5
    <3>2. IsThere(PutList(r[i - 1], pair, lists[pair]).cache[pair[2]], OfList(pair, lists[pair]), e)
      BY <1>4, <2>2, <2>3, <3>1, PutListIs
    <3> QED BY <2>2, <2>3, <3>2
  <2>4. CASE Lists[i] # pair
    <3> DEFINE p == Lists[i]
    <3>1. pair[2] # p[2] \/ lists[p].transforms = <<>>
      BY <2>2, <2>4
    <3>2. r[i] = PutList(r[i - 1], p, lists[p]) /\ p \in Frame \X Frame /\ Listed(p, lists[p], E)
      BY <2>2
    <3> HIDE DEF p
    <3>3. PutList(r[i - 1], p, lists[p]).cache[pair[2]] = r[i - 1].cache[pair[2]]
      BY <1>4, <2>2, <3>1, <3>2, PutOtherIs
    <3> QED BY <2>4, <3>2, <3>3
  <2> QED BY <2>3, <2>4
<1>6. c(0) = NoCache /\ BufferOf(lists).cache[pair[2]] = c(n)
  BY <1>1, <1>4 DEF EmptyBuffer
<1> HIDE DEF n, c, own
<1>7. ASSUME NEW i \in 0..n
      PROVE  NoneElse(c(i), own)
  <2> DEFINE P == {k \in 0..n : NoneElse(c(k), own)}
  <2>1. 0 \in P /\ 0 \in 0..n
    BY <1>2, <1>6 DEF NoneElse
  <2>2. ASSUME NEW k \in (0 + 1)..n, k - 1 \in P
        PROVE  k \in P
    <3>1. k \in 1..n /\ k \in 0..n
      BY <1>2
    <3>2. NoneElse(c(k), own)
      BY <1>5, <2>2, <3>1 DEF NoneElse, IsThere
    <3> QED BY <3>1, <3>2
  <2> HIDE DEF P
  <2>3. \A k \in 0..n : k \in P
    BY <1>2, <2>1, <2>2, Along
  <2> QED BY <2>3 DEF P
<1>8. IsThere(c(n), own, e)
  <2> DEFINE P == {k \in j..n : IsThere(c(k), own, e)}
  <2>1. j \in P /\ j \in 0..n
    <3>1. j - 1 \in 0..n /\ j \in 0..n /\ j \in j..n
      BY <1>2
    <3> QED BY <1>3, <1>5, <1>7, <3>1
  <2>2. ASSUME NEW k \in (j + 1)..n, k - 1 \in P
        PROVE  k \in P
    <3>1. k \in 1..n /\ k - 1 \in 0..n /\ k \in j..n
      BY <1>2
    <3> QED BY <1>5, <1>7, <2>2, <3>1
  <2> HIDE DEF P
  <2>3. \A k \in j..n : k \in P
    BY <1>2, <2>1, <2>2, Along
  <2>4. n \in j..n
    BY <1>2
  <2> QED BY <2>3, <2>4 DEF P
<1> QED BY <1>6, <1>8 DEF own

-----------------------------------------------------------------------------
(* Walks.  A chain of frames goes from each frame to its parent, and ends  *)
(* where there is none or at the bound.                                    *)

Linked(chain, parent) == \A i \in 1..(Len(chain) - 1) : parent[chain[i]] = chain[i + 1]
IsChain(chain, f, parent, n) ==
    /\ chain \in Seq(Frame) /\ Len(chain) \in 1..(n + 1) /\ chain[1] = f
    /\ Linked(chain, parent)
    /\ Len(chain) <= n => parent[chain[Len(chain)]] = "nothing"

Up(chain, parent, n) ==
    IF Len(chain) < n \/ parent[Last(chain)] = "nothing" THEN chain
    ELSE Append(chain, parent[Last(chain)])

Parents == [Frame -> Frame \union {"nothing"}]

LEMMA UpIs ==
    ASSUME NEW parent \in Parents, NEW f \in Frame, NEW n \in Nat \ {0}, NEW chain,
           IsChain(chain, f, parent, n - 1)
    PROVE  IsChain(Up(chain, parent, n), f, parent, n)
<1> DEFINE l == Len(chain)
           next == parent[chain[l]]
<1>1. l \in 1..n /\ chain \in Seq(Frame) /\ \A i \in 1..l : chain[i] \in Frame
  <2>1. (n - 1) + 1 = n
    OBVIOUS
  <2> QED BY <2>1, Elements DEF IsChain
<1>2. l \in 1..l /\ chain[l] \in Frame /\ (next \in Frame \/ next = "nothing")
  BY <1>1 DEF Parents
<1>3. Up(chain, parent, n) = IF l < n \/ next = "nothing" THEN chain ELSE Append(chain, next)
  BY DEF Up, Last
<1>4. CASE l < n \/ next = "nothing"
  <2>1. l <= n - 1 \/ next = "nothing"
    BY <1>1, <1>4
  <2>2. next = "nothing"
    BY <2>1 DEF IsChain
  <2>3. l \in 1..(n + 1)
    BY <1>1
  <2> QED BY <1>3, <1>4, <2>2, <2>3 DEF IsChain
<1>5. CASE ~(l < n) /\ next # "nothing"
  <2> DEFINE new == Append(chain, next)
  <2>1. l = n
    BY <1>1, <1>5
  <2>2. new \in Seq(Frame) /\ Len(new) = l + 1 /\ new[l + 1] = next /\ \A i \in 1..l : new[i] = chain[i]
    BY <1>1, <1>2, <1>5, AppendProperties
  <2>3. Up(chain, parent, n) = new
    BY <1>3, <1>5
  <2> HIDE DEF new
  <2>4. ASSUME NEW i \in 1..((l + 1) - 1)
        PROVE  parent[new[i]] = new[i + 1]
    <3>1. CASE i = l
      BY <1>2, <2>2, <3>1
    <3>2. CASE i # l
      <4>1. i \in 1..(l - 1) /\ i \in 1..l /\ i + 1 \in 1..l
        BY <1>1, <3>2
      <4> QED BY <2>2, <4>1 DEF IsChain, Linked
    <3> QED BY <3>1, <3>2
  <2>5. Len(new) \in 1..(n + 1) /\ ~(Len(new) <= n)
    BY <1>1, <2>1, <2>2
  <2>6. new[1] = f
    <3>1. 1 \in 1..l
      BY <1>1
    <3> QED BY <2>2, <3>1 DEF IsChain
  <2> QED BY <2>2, <2>3, <2>4, <2>5, <2>6 DEF IsChain, Linked
<1> QED BY <1>4, <1>5

LEMMA UpwardsIs ==
    ASSUME NEW parent \in Parents, NEW f \in Frame
    PROVE  IsChain(Upwards(f, parent), f, parent, MaxDepth + 1)
<1> DEFINE m == MaxDepth + 1
<1>1. m \in Nat /\ MaxDepth \in Nat
  BY BufferAssumption
<1> DEFINE D == Seq(Frame) 
           Good(q, k) == /\ q[0] = <<f>>
                         /\ \A i \in 1..k : q[i] = Up(q[i - 1], parent, i)
                         /\ \A i \in 0..k : IsChain(q[i], f, parent, i)
           S == {k \in 0..m : \E q : q = [i \in 0..k |-> q[i]] /\ Good(q, k)}
<1>2. 0 \in S /\ 0 \in 0..m
  <2> DEFINE q == [i \in 0..0 |-> <<f>>]
  <2>1. <<f>> \in Seq(Frame) /\ Len(<<f>>) = 1 /\ <<f>>[1] = f
    OBVIOUS
  <2>2. IsChain(<<f>>, f, parent, 0)
    <3>1. (\A i \in 1..(1 - 1) : FALSE) /\ ~(1 <= 0) /\ 1 \in 1..(0 + 1)
      OBVIOUS
    <3> QED BY <2>1, <3>1 DEF IsChain, Linked
  <2>3. (\A i \in 0..0 : q[i] = <<f>> /\ i = 0) /\ (\A i \in 1..0 : FALSE) /\ q[0] = <<f>>
    OBVIOUS
  <2>4. q = [i \in 0..0 |-> q[i]]
    OBVIOUS
  <2> HIDE DEF q
  <2>5. Good(q, 0)
    BY <2>2, <2>3
  <2> QED BY <1>1, <2>4, <2>5
<1>3. ASSUME NEW k \in (0 + 1)..m, k - 1 \in S
      PROVE  k \in S
  <2>1. k \in Nat \ {0} /\ k \in 0..m /\ k - 1 \in 0..(k - 1) /\ (k - 1) + 1 = k
    BY <1>1
  <2>2. PICK q : Good(q, k - 1)
    BY <1>3
  <2> DEFINE next == Up(q[k - 1], parent, k)
             p == [i \in 0..k |-> IF i = k THEN next ELSE q[i]]
  <2>3. IsChain(next, f, parent, k)
    BY <2>1, <2>2, UpIs
  <2> HIDE DEF next
  <2>4. \A i \in 0..k : p[i] = IF i = k THEN next ELSE q[i]
    OBVIOUS
  <2>5. p = [i \in 0..k |-> p[i]]
    OBVIOUS
  <2> HIDE DEF p
  <2>6. \A i \in 0..k : i = k \/ (i \in 0..(k - 1) /\ i # k)
    BY <2>1
  <2>7. p[0] = <<f>>
    BY <2>1, <2>2, <2>4
  <2>8. ASSUME NEW i \in 1..k
        PROVE  p[i] = Up(p[i - 1], parent, i)
    <3>1. i - 1 \in 0..(k - 1) /\ i - 1 # k /\ i \in 0..k /\ i - 1 \in 0..k
      BY <2>1
    <3>2. CASE i = k
      BY <2>4, <3>1, <3>2 DEF next
    <3>3. CASE i # k
      <4>1. i \in 1..(k - 1)
        BY <2>1, <3>3
      <4> QED BY <2>2, <2>4, <3>1, <3>3, <4>1
    <3> QED BY <3>2, <3>3
  <2>9. \A i \in 0..k : IsChain(p[i], f, parent, i)
    BY <2>2, <2>3, <2>4, <2>6
  <2>10. Good(p, k)
    BY <2>7, <2>8, <2>9
  <2> HIDE DEF Good
  <2> QED BY <2>1, <2>5, <2>10
<1> HIDE DEF S
<1>4. m \in S
  <2>1. \A k \in 0..m : k \in S
    <3> HIDE DEF m
    <3> QED BY <1>1, <1>2, <1>3, Along
  <2>2. m \in 0..m
    BY <1>1
  <2> QED BY <2>1, <2>2
<1>5. PICK q : q = [i \in 0..m |-> q[i]] /\ Good(q, m)
  BY <1>4 DEF S
<1>6. q = [i \in 0..m |-> IF i = 0 THEN <<f>> ELSE Up(q[i - 1], parent, i)]
  <2>1. \A i \in 0..m : i = 0 \/ i \in 1..m
    BY <1>1
  <2>2. \A i \in 0..m : q[i] = IF i = 0 THEN <<f>> ELSE Up(q[i - 1], parent, i)
    BY <1>5, <2>1
  <2> HIDE DEF Good, m
  <2> QED BY <1>5, <2>2
<1> DEFINE h == CHOOSE h : h = [i \in 0..(MaxDepth + 1) |->
                                  IF i = 0 THEN <<f>> ELSE Up(h[i - 1], parent, i)]
<1>7. Upwards(f, parent) = h[m]
  BY DEF Upwards, Up
<1>8. h = [i \in 0..m |-> IF i = 0 THEN <<f>> ELSE Up(h[i - 1], parent, i)]
  BY <1>6
<1> HIDE DEF h
<1>9. \A i \in 0..m : h[i] = q[i]
  <2> DEFINE P == {i \in 0..m : h[i] = q[i]}
  <2>1. 0 \in P /\ 0 \in 0..m
    BY <1>1, <1>6, <1>8
  <2>2. ASSUME NEW k \in (0 + 1)..m, k - 1 \in P
        PROVE  k \in P
    <3>1. k \in 0..m /\ k # 0
      BY <1>1
    <3>2. h[k] = Up(h[k - 1], parent, k)
      BY <1>8, <3>1
    <3>3. q[k] = Up(q[k - 1], parent, k)
      BY <1>6, <3>1
    <3> QED BY <2>2, <3>1, <3>2, <3>3
  <2> HIDE DEF P, m
  <2>3. \A k \in 0..m : k \in P
    BY <1>1, <2>1, <2>2, Along
  <2> QED BY <2>3 DEF P
<1>10. m \in 0..m
  BY <1>1
<1> QED BY <1>5, <1>7, <1>9, <1>10

LEMMA PlaceIs ==
    ASSUME NEW chain \in Seq(Frame), NEW f, On(f, chain)
    PROVE  /\ Place(f, chain) \in 1..Len(chain) /\ chain[Place(f, chain)] = f
           /\ \A i \in 1..Len(chain) : chain[i] = f => Place(f, chain) <= i
<1> DEFINE s == {i \in 1..Len(chain) : chain[i] = f}
<1>1. s \in SUBSET Nat /\ s # {}
  BY DEF On
<1>2. Place(f, chain) = Min(s)
  BY DEF Place
<1> HIDE DEF s
<1>3. Place(f, chain) \in s /\ \A i \in s : Place(f, chain) <= i
  BY <1>1, <1>2, MinIs
<1> QED BY <1>3 DEF s

(* The frames of a part of a chain, all of which have parents. *)
Climbs(part, parent) == part \in Seq(Frame) /\ \A i \in 1..Len(part) : parent[part[i]] \in Frame

LEMMA PartIs ==
    ASSUME NEW parent \in Parents, NEW f, NEW n \in Nat, NEW chain, IsChain(chain, f, parent, n),
           NEW k \in 1..Len(chain)
    PROVE  LET part == SubSeq(chain, 1, k - 1)
           IN  /\ Climbs(part, parent)
               /\ Len(part) = k - 1 /\ \A i \in 1..(k - 1) : part[i] = chain[i]
<1> DEFINE part == SubSeq(chain, 1, k - 1)
<1>1. Len(chain) \in Nat /\ chain \in Seq(Frame) /\ \A i \in 1..Len(chain) : chain[i] \in Frame
  BY Elements DEF IsChain
<1>2. \A i \in 1..(k - 1) : i \in 1..Len(chain) /\ i \in 1..(Len(chain) - 1) /\ i + 1 \in 1..Len(chain)
  BY <1>1
<1>3. part \in Seq(Frame) /\ Len(part) = k - 1 /\ \A i \in 1..(k - 1) : part[i] = chain[i]
  <2>1. \A i \in 1..(k - 1) : chain[i] \in Frame
    BY <1>1, <1>2
  <2>2. /\ part \in Seq(Frame)
        /\ Len(part) = IF 1 <= k - 1 THEN (k - 1) - 1 + 1 ELSE 0
        /\ \A i \in 1..((k - 1) - 1 + 1) : part[i] = chain[1 + i - 1]
    <3>1. 1 \in Int /\ k - 1 \in Int
      BY <1>1
    <3> QED BY <2>1, <3>1, SubSeqProperties
  <2> HIDE DEF part
  <2>3. (k - 1) - 1 + 1 = k - 1 /\ (~(1 <= k - 1) => k - 1 = 0)
    BY <1>1
  <2>4. \A i \in 1..(k - 1) : 1 + i - 1 = i
    BY <1>1
  <2> QED BY <2>2, <2>3, <2>4
<1> HIDE DEF part
<1>4. \A i \in 1..(k - 1) : parent[part[i]] \in Frame
  BY <1>1, <1>2, <1>3 DEF IsChain, Linked
<1> QED BY <1>3, <1>4 DEF part, Climbs

(* Wherever a walk ends, the frames that it gathered have parents. *)
LEMMA WalkAlongIs ==
    ASSUME NEW parent \in Parents, NEW source \in Frame, NEW target \in Frame, NEW time, NEW n \in Nat,
           NEW up, NEW down, IsChain(up, source, parent, n), IsChain(down, target, parent, n)
    PROVE  LET w == WalkAlong(target, source, up, down, time)
           IN  w.ending # "none" => w.time = time /\ Climbs(w.up, parent) /\ Climbs(w.down, parent)
<1> DEFINE w == WalkAlong(target, source, up, down, time)
           top == Last(up)
<1>1. up \in Seq(Frame) /\ down \in Seq(Frame) /\ Len(up) \in Nat \ {0}
  BY DEF IsChain
<1>2. Climbs(<<>>, parent)
  <2>1. <<>> \in Seq(Frame) /\ Len(<<>>) = 0
    OBVIOUS
  <2> QED BY <2>1 DEF Climbs
<1>3. /\ Climbs(Front(up), parent)
      /\ \A f : On(f, up) => Climbs(SubSeq(up, 1, Place(f, up) - 1), parent)
      /\ \A f : On(f, down) => Climbs(SubSeq(down, 1, Place(f, down) - 1), parent)
  <2>1. Len(up) \in 1..Len(up)
    BY <1>1
  <2>2. Climbs(Front(up), parent)
    BY <2>1, PartIs DEF Front
  <2>3. ASSUME NEW f, On(f, up)
        PROVE  Climbs(SubSeq(up, 1, Place(f, up) - 1), parent)
    BY <1>1, <2>3, PlaceIs, PartIs
  <2>4. ASSUME NEW f, On(f, down)
        PROVE  Climbs(SubSeq(down, 1, Place(f, down) - 1), parent)
    BY <1>1, <2>4, PlaceIs, PartIs
  <2> QED BY <2>2, <2>3, <2>4
<1>4. \/ w = NoWalk
      \/ On(target, up) /\ w = WalkOf("target above", SubSeq(up, 1, Place(target, up) - 1), <<>>, time)
      \/ On(source, down) /\ w = WalkOf("source above", <<>>, SubSeq(down, 1, Place(source, down) - 1), time)
      \/ On(top, down) /\ w = WalkOf("full path", Front(up), SubSeq(down, 1, Place(top, down) - 1), time)
  BY DEF WalkAlong
<1> HIDE DEF w, top
<1> DEFINE Fine == w.ending # "none" => w.time = time /\ Climbs(w.up, parent) /\ Climbs(w.down, parent)
<1>5. ASSUME w = NoWalk
      PROVE  Fine
  BY <1>5 DEF NoWalk, WalkOf
<1>6. ASSUME On(target, up), w = WalkOf("target above", SubSeq(up, 1, Place(target, up) - 1), <<>>, time)
      PROVE  Fine
  BY <1>2, <1>3, <1>6 DEF WalkOf
<1>7. ASSUME On(source, down), w = WalkOf("source above", <<>>, SubSeq(down, 1, Place(source, down) - 1), time)
      PROVE  Fine
  BY <1>2, <1>3, <1>7 DEF WalkOf
<1>8. ASSUME On(top, down), w = WalkOf("full path", Front(up), SubSeq(down, 1, Place(top, down) - 1), time)
      PROVE  Fine
  BY <1>2, <1>3, <1>8 DEF WalkOf
<1>9. Fine
  BY <1>4, <1>5, <1>6, <1>7, <1>8
<1> QED BY <1>9 DEF w

-----------------------------------------------------------------------------
(* What is gathered along a chain of which each frame has a pose.          *)

Has(b, time, chain) ==
    chain \in Seq(Frame) /\ \A i \in 1..Len(chain) : IsPose(GetData(b.cache[chain[i]], time).pose)

AccumOne(b, time, done, f) == Compose(GetData(b.cache[f], time).pose, done)

LEMMA AccumulateRuns ==
    ASSUME NEW b, NEW time, NEW chain, Has(b, time, chain)
    PROVE  \E r : /\ r[0] = Identity /\ \A i \in 0..Len(chain) : IsPose(r[i])
                  /\ \A i \in 1..Len(chain) : r[i] = AccumOne(b, time, r[i - 1], chain[i])
                  /\ Accumulate(b, time, chain) = r[Len(chain)]
<1> DEFINE n == Len(chain)
           pose(i) == GetData(b.cache[chain[i]], time).pose
           X == UNION {{pose(i)[k] : k \in 1..Len(pose(i))} : i \in 1..n}
           D == {v \in Seq(X) : Reduced(v)}
           g == [i \in 1..n |-> [d \in D |-> AccumOne(b, time, d, chain[i])]]
<1>1. n \in Nat /\ DOMAIN chain = 1..n /\ \A i \in 1..n : IsPose(pose(i))
  BY Elements DEF Has
<1>2. Identity \in D
  <2>1. (\A i \in 1..(0 - 1) : FALSE) /\ <<>> \in Seq(X) /\ Len(<<>>) = 0
    OBVIOUS
  <2> HIDE DEF X
  <2> QED BY <2>1 DEF Reduced, Identity
<1>3. ASSUME NEW i \in 1..n, NEW d \in D
      PROVE  AccumOne(b, time, d, chain[i]) \in D
  <2> DEFINE p == pose(i)
             Y == {p[k] : k \in 1..Len(p)}
  <2>1. PICK Z : p \in Seq(Z)
    BY <1>1 DEF IsPose
  <2>2. Y \subseteq X
    OBVIOUS
  <2>0. AccumOne(b, time, d, chain[i]) = Compose(p, d)
    BY DEF AccumOne
  <2> HIDE DEF p, X
  <2>3. p \in Seq(Y)
    <3>1. Len(p) \in Nat /\ p \in [1..Len(p) -> Z]
      BY <2>1, LenProperties
    <3>2. p = [k \in 1..Len(p) |-> p[k]] /\ \A k \in 1..Len(p) : p[k] \in Y
      BY <3>1
    <3>3. p \in [1..Len(p) -> Y]
      BY <3>2
    <3> HIDE DEF Y
    <3> QED BY <3>1, <3>3, SeqDef
  <2>4. p \in Seq(X)
    BY <2>2, <2>3, SeqMonotonic
  <2>5. p \o d \in Seq(X)
    BY <2>4, ConcatProperties
  <2>6. Cancelled(p \o d) \in D
    BY <2>5, CancelledIs
  <2> QED BY <2>0, <2>6 DEF Compose
<1>0. \A v \in D : IsPose(v)
  BY DEF IsPose
<1> HIDE DEF D
<1>4. g \in [1..n -> [D -> D]]
  BY <1>3
<1>5. PICK f \in [SUBSET (1..n) -> D] : Folds(n, Identity, g, f)
  BY <1>1, <1>2, <1>4, FoldExists
<1>6. f = [s \in SUBSET (1..n) |-> IF s = {} THEN Identity
                                   ELSE AccumOne(b, time, f[s \ {Max(s)}], chain[Max(s)])]
  <2>1. ASSUME NEW s \in SUBSET (1..n), s # {}
        PROVE  f[s] = AccumOne(b, time, f[s \ {Max(s)}], chain[Max(s)])
    <3>1. s \in SUBSET (0..n)
      BY <1>1
    <3>2. Max(s) \in 1..n
      BY <1>1, <2>1, <3>1, MaxIs
    <3>3. f[s \ {Max(s)}] \in D
      OBVIOUS
    <3> QED BY <1>5, <2>1, <3>2, <3>3 DEF Folds
  <2>2. f[{}] = Identity
    BY <1>5 DEF Folds
  <2> QED BY <2>1, <2>2
<1> HIDE DEF g
<1> DEFINE h == CHOOSE h : h = [s \in SUBSET (DOMAIN chain) |->
                                  IF s = {} THEN Identity
                                  ELSE AccumOne(b, time, h[s \ {Max(s)}], chain[Max(s)])]
<1>7. /\ Accumulate(b, time, chain) = h[1..n]
      /\ h = [s \in SUBSET (1..n) |-> IF s = {} THEN Identity
                                      ELSE AccumOne(b, time, h[s \ {Max(s)}], chain[Max(s)])]
  <2>1. Accumulate(b, time, chain) = h[DOMAIN chain]
    BY DEF Accumulate, FoldLeft, MapThenFoldSet, AccumOne
  <2>2. h = [s \in SUBSET (DOMAIN chain) |-> IF s = {} THEN Identity
                                          ELSE AccumOne(b, time, h[s \ {Max(s)}], chain[Max(s)])]
    BY <1>1, <1>6
  <2> QED BY <1>1, <2>1, <2>2
<1> HIDE DEF h
<1> DEFINE r == [i \in 0..n |-> h[1..i]]
<1>8. r[0] = Identity
  <2>1. 1..0 = {} /\ 0 \in 0..n
    BY <1>1
  <2> QED BY <1>7, <2>1
<1>9. ASSUME NEW i \in 1..n
      PROVE  r[i] = AccumOne(b, time, r[i - 1], chain[i])
  <2> DEFINE s == 1..i
  <2>1. s \in SUBSET (1..n) /\ s # {} /\ Max(s) = i /\ s \ {i} = 1..(i - 1)
    BY <1>1, FoldTurns
  <2> HIDE DEF s
  <2>2. h[s] = AccumOne(b, time, h[s \ {Max(s)}], chain[Max(s)])
    BY <1>7, <2>1
  <2>3. i \in 0..n /\ i - 1 \in 0..n
    BY <1>1
  <2> QED BY <2>1, <2>2, <2>3 DEF s
<1>10. Accumulate(b, time, chain) = r[n]
  BY <1>1, <1>7
<1> HIDE DEF r
<1>11. \A i \in 0..n : r[i] \in D
  <2> DEFINE P == {i \in 0..n : r[i] \in D}
  <2>1. 0 \in P /\ 0 \in 0..n
    BY <1>1, <1>2, <1>8
  <2>2. ASSUME NEW i \in (0 + 1)..n, i - 1 \in P
        PROVE  i \in P
    <3>1. i \in 1..n /\ i \in 0..n
      BY <1>1
    <3> QED BY <1>3, <1>9, <2>2, <3>1
  <2> HIDE DEF P
  <2>3. \A i \in 0..n : i \in P
    BY <1>1, <2>1, <2>2, Along
  <2> QED BY <2>3 DEF P
<1> QED BY <1>0, <1>8, <1>9, <1>10, <1>11

LEMMA AccumulateIs ==
    ASSUME NEW b, NEW time, NEW chain, Has(b, time, chain)
    PROVE  /\ IsPose(Accumulate(b, time, chain))
           /\ Len(chain) = 0 => Accumulate(b, time, chain) = Identity
           /\ Len(chain) = 1 => Accumulate(b, time, chain) = GetData(b.cache[chain[1]], time).pose
<1> DEFINE n == Len(chain)
<1>1. n \in Nat
  BY DEF Has
<1>2. PICK r : /\ r[0] = Identity /\ \A i \in 0..n : IsPose(r[i])
               /\ \A i \in 1..n : r[i] = AccumOne(b, time, r[i - 1], chain[i])
               /\ Accumulate(b, time, chain) = r[n]
  BY AccumulateRuns
<1>3. n \in 0..n
  BY <1>1
<1>4. ASSUME n = 1
      PROVE  r[1] = GetData(b.cache[chain[1]], time).pose
  <2>1. 1 \in 1..n /\ 1 - 1 = 0
    BY <1>4
  <2>2. r[1] = Compose(GetData(b.cache[chain[1]], time).pose, Identity)
    BY <1>2, <2>1 DEF AccumOne
  <2>3. IsPose(GetData(b.cache[chain[1]], time).pose)
    BY <2>1 DEF Has
  <2> QED BY <2>2, <2>3, ComposeWithIdentity
<1> HIDE DEF n
<1> QED BY <1>2, <1>3, <1>4 DEF n

-----------------------------------------------------------------------------
(* What can be looked up.                                                  *)

ParentsAt(b, time) == [f \in DOMAIN b.cache |-> ParentIn(b.cache[f], time, TRUE)]

(* A frame with a parent has a pose in it. *)
LEMMA ParentsAre ==
    ASSUME NEW E, Entries(E), NEW b \in BufferOver(E), NEW t \in Nat
    PROVE  /\ ParentsAt(b, t) \in Parents
           /\ \A f \in Frame : ParentsAt(b, t)[f] \in Frame =>
                 /\ b.cache[f].is # "nothing"
                 /\ IsEntry(GetData(b.cache[f], t)) /\ GetData(b.cache[f], t).parent = ParentsAt(b, t)[f]
<1>1. b.cache \in [Frame -> Filled(E)] /\ DOMAIN b.cache = Frame
  BY DEF BufferOver
<1>2. ASSUME NEW f \in Frame
      PROVE  LET c == b.cache[f]
                 p == ParentsAt(b, t)[f]
             IN  /\ p \in Frame \union {"nothing"}
                 /\ p \in Frame => /\ c.is # "nothing" /\ IsEntry(GetData(c, t))
                                   /\ GetData(c, t).parent = p
  <2> DEFINE c == b.cache[f]
             p == ParentsAt(b, t)[f]
             d == GetData(c, t)
  <2>1. p = IF c = NoCache THEN "nothing" ELSE IF d = Nothing THEN "nothing" ELSE d.parent
    BY <1>1 DEF ParentsAt, ParentIn
  <2>2. c \in Filled(E)
    BY <1>1
  <2>3. c.is = "nothing" => c = NoCache
    BY <2>2 DEF Filled, CacheOver, NoCache
  <2> HIDE DEF c, p
  <2>4. c # NoCache => d = Nothing \/ IsEntry(d)
    BY <2>2, <2>3, GetDataIs
  <2>5. "nothing" \notin Frame
    BY FrameAssumption
  <2> HIDE DEF d
  <2>6. p \in Frame \union {"nothing"}
    BY <2>1, <2>4 DEF IsEntry
  <2>7. ASSUME p \in Frame
        PROVE  c.is # "nothing" /\ IsEntry(d) /\ d.parent = p
    BY <2>1, <2>3, <2>4, <2>5, <2>7
  <2> QED BY <2>6, <2>7 DEF c, p, d
<1>3. ParentsAt(b, t) = [f \in Frame |-> ParentsAt(b, t)[f]]
  BY <1>1 DEF ParentsAt
<1> QED BY <1>2, <1>3 DEF Parents

LEMMA ClimbsHas ==
    ASSUME NEW E, Entries(E), NEW b \in BufferOver(E), NEW t \in Nat, NEW part,
           Climbs(part, ParentsAt(b, t))
    PROVE  Has(b, t, part)
<1>1. part \in Seq(Frame) /\ \A i \in 1..Len(part) : part[i] \in Frame /\ ParentsAt(b, t)[part[i]] \in Frame
  BY Elements DEF Climbs
<1>2. \A i \in 1..Len(part) : IsEntry(GetData(b.cache[part[i]], t))
  BY <1>1, ParentsAre
<1> QED BY <1>1, <1>2 DEF Has, IsEntry

LEMMA WalkIs ==
    ASSUME NEW E, Entries(E), NEW b \in BufferOver(E), NEW t \in Nat \ {0},
           NEW target \in Frame, NEW source \in Frame, target # source
    PROVE  /\ Walk(b, t, target, source, TRUE) =
                 WalkAlong(target, source, Upwards(source, ParentsAt(b, t)),
                           Upwards(target, ParentsAt(b, t)), t)
           /\ IsChain(Upwards(source, ParentsAt(b, t)), source, ParentsAt(b, t), MaxDepth + 1)
           /\ IsChain(Upwards(target, ParentsAt(b, t)), target, ParentsAt(b, t), MaxDepth + 1)
<1>1. Walk(b, t, target, source, TRUE) =
        WalkAlong(target, source, Upwards(source, ParentsAt(b, t)), Upwards(target, ParentsAt(b, t)), t)
  BY DEF Walk, WalkAt, ParentsAt
<1> QED BY <1>1, ParentsAre, UpwardsIs

(* What is looked up is a pose of which no neighbours cancel. *)
LEMMA LookupIsPose ==
    ASSUME NEW E, Entries(E), NEW b \in BufferOver(E), NEW t \in Nat \ {0},
           NEW target \in Frame, NEW source \in Frame
    PROVE  IsPose(LookupTransform(b, target, source, t).pose)
<1> DEFINE parent == ParentsAt(b, t)
           up == Upwards(source, parent)
           down == Upwards(target, parent)
           w == WalkAlong(target, source, up, down, t)
           look == LookupTransform(b, target, source, t)
<1>1. IsPose(Identity)
  <2>1. IsPose(<<1>>)
    BY SingleIs
  <2> QED BY <2>1, ComposeWithIdentity
<1>2. CASE target = source
  BY <1>1, <1>2 DEF LookupTransform
<1>3. CASE target # source
  <2>1. /\ Walk(b, t, target, source, TRUE) = w
        /\ IsChain(up, source, parent, MaxDepth + 1)
        /\ IsChain(down, target, parent, MaxDepth + 1)
    BY <1>3, WalkIs
  <2>2. look = IF target \notin b.known \/ source \notin b.known THEN NoTransform
               ELSE LookupAlong(b, w)
    BY <1>3, <2>1 DEF LookupTransform
  <2>3. parent \in Parents /\ MaxDepth + 1 \in Nat
    BY ParentsAre, BufferAssumption
  <2> HIDE DEF look, up, down, parent
  <2>4. w.ending # "none" => w.time = t /\ Climbs(w.up, parent) /\ Climbs(w.down, parent)
    BY <2>1, <2>3, WalkAlongIs
  <2> HIDE DEF w
  <2>5. w.ending # "none" => IsPose(Finalize(b, w))
    <3> SUFFICES ASSUME w.ending # "none"
                 PROVE  IsPose(Finalize(b, w))
      OBVIOUS
    <3>1. Has(b, w.time, w.up) /\ Has(b, w.time, w.down)
      BY <2>4, ClimbsHas DEF parent
    <3>2. IsPose(Accumulate(b, w.time, w.up)) /\ IsPose(Accumulate(b, w.time, w.down))
      BY <3>1, AccumulateIs
    <3>3. IsWord(Accumulate(b, w.time, w.up)) /\ IsWord(InverseOf(Accumulate(b, w.time, w.down)))
      BY <3>2, ComposeWithIdentity, InverseIs
    <3> QED BY <3>3, ComposeIs DEF Finalize
  <2>6. IsPose(look.pose)
    BY <1>1, <2>2, <2>5 DEF NoTransform, LookupAlong
  <2> QED BY <2>6 DEF look
<1> QED BY <1>2, <1>3

(* A frame whose parent is the target is looked up in one step. *)
LEMMA LookupInParent ==
    ASSUME NEW E, Entries(E), NEW b \in BufferOver(E), NEW t \in Nat \ {0},
           NEW target \in Frame, NEW source \in Frame, target # source,
           target \in b.known, source \in b.known, ParentsAt(b, t)[source] = target
    PROVE  LookupTransform(b, target, source, t) =
               [ok |-> TRUE, time |-> t, pose |-> GetData(b.cache[source], t).pose]
<1> DEFINE parent == ParentsAt(b, t)
           up == Upwards(source, parent)
           down == Upwards(target, parent)
           w == WalkAlong(target, source, up, down, t)
           look == LookupTransform(b, target, source, t)
           m == MaxDepth + 1
           pose == GetData(b.cache[source], t).pose
<1>1. /\ Walk(b, t, target, source, TRUE) = w
      /\ IsChain(up, source, parent, m) /\ IsChain(down, target, parent, m)
  BY WalkIs
<1>2. look = LookupAlong(b, w)
  BY <1>1 DEF LookupTransform
<1>3. parent \in Parents /\ m \in Nat /\ m >= 2 /\ MaxDepth \in Nat /\ MaxDepth = m - 1
  BY ParentsAre, BufferAssumption
<1>4. parent[source] = target /\ "nothing" \notin Frame
  BY FrameAssumption
<1>5. IsPose(pose)
  <2>1. IsEntry(GetData(b.cache[source], t))
    BY ParentsAre
  <2> QED BY <2>1 DEF IsEntry
<1> HIDE DEF look, up, down, parent, m, pose
<1>6. up \in Seq(Frame) /\ down \in Seq(Frame) /\ Len(up) \in 1..(m + 1) /\ Len(down) \in 1..(m + 1)
      /\ up[1] = source /\ down[1] = target
      /\ (Len(up) <= m => parent[up[Len(up)]] = "nothing")
  BY <1>1 DEF IsChain
<1>7. Len(up) >= 2 /\ up[2] = target
  <2> DEFINE l == Len(up)
  <2>0. l \in 1..(m + 1) /\ (l <= m => parent[up[l]] = "nothing")
    BY <1>6
  <2> HIDE DEF l
  <2>1. l # 1
    <3>1. 1 <= m
      BY <1>3
    <3> QED BY <1>4, <1>6, <2>0, <3>1
  <2>9. l >= 2 /\ 1 \in 1..(l - 1)
    BY <1>3, <2>0, <2>1
  <2>2. Len(up) >= 2 /\ 1 \in 1..(Len(up) - 1)
    BY <2>9 DEF l
  <2>3. parent[up[1]] = up[1 + 1]
    BY <1>1, <2>2 DEF IsChain, Linked
  <2> QED BY <1>4, <1>6, <2>2, <2>3
<1>8. On(target, up) /\ Place(target, up) = 2
  <2>1. 2 \in 1..Len(up) /\ 1 \in 1..Len(up)
    BY <1>3, <1>6, <1>7
  <2>2. On(target, up)
    BY <1>7, <2>1 DEF On
  <2>3. Place(target, up) \in 1..Len(up) /\ up[Place(target, up)] = target /\ Place(target, up) <= 2
    BY <1>6, <1>7, <2>1, <2>2, PlaceIs
  <2>4. Place(target, up) # 1
    BY <1>6, <2>3
  <2> QED BY <1>6, <2>2, <2>3, <2>4
<1> DEFINE one == SubSeq(up, 1, 1)
<1>9. one \in Seq(Frame) /\ Len(one) = 1 /\ one[1] = source
  <2>1. 2 \in 1..Len(up) /\ 2 - 1 = 1 /\ 1 \in 1..(2 - 1)
    BY <1>6, <1>7
  <2>2. Climbs(SubSeq(up, 1, 2 - 1), parent) /\ Len(SubSeq(up, 1, 2 - 1)) = 2 - 1
        /\ \A i \in 1..(2 - 1) : SubSeq(up, 1, 2 - 1)[i] = up[i]
    BY <1>1, <1>3, <2>1, PartIs
  <2> QED BY <1>6, <2>1, <2>2 DEF Climbs
<1>10. \E ending : ending # "none" /\ w = WalkOf(ending, one, <<>>, t)
  <2>1. CASE Len(up) > 2
    <3>1. w = WalkOf("target above", SubSeq(up, 1, Place(target, up) - 1), <<>>, t)
      BY <1>8, <2>1 DEF WalkAlong
    <3>2. Place(target, up) - 1 = 1
      BY <1>8
    <3> QED BY <3>1, <3>2
  <2>2. CASE ~(Len(up) > 2)
    <3>1. Len(up) = 2
      <4> DEFINE l == Len(up)
      <4>1. l \in 1..(m + 1) /\ l >= 2 /\ ~(l > 2)
        BY <1>6, <1>7, <2>2
      <4> HIDE DEF l
      <4>2. l = 2
        BY <1>3, <4>1
      <4> QED BY <4>2 DEF l
    <3>2. Last(up) = target /\ Front(up) = one
      BY <1>7, <3>1 DEF Last, Front
    <3>3. parent[target] = "nothing"
      BY <1>1, <1>3, <1>7, <3>1 DEF IsChain
    <3>4. Len(down) = 1
      <4> SUFFICES ASSUME Len(down) # 1
                   PROVE  FALSE
        OBVIOUS
      <4> DEFINE l == Len(down)
      <4>0. l \in 1..(m + 1) /\ l # 1
        BY <1>6
      <4> HIDE DEF l
      <4>3. 1 \in 1..(l - 1) /\ 2 \in 1..l
        BY <1>3, <4>0
      <4>1. 1 \in 1..(Len(down) - 1) /\ 2 \in 1..Len(down)
        BY <4>3 DEF l
      <4>2. parent[down[1]] = down[1 + 1] /\ down[2] \in Frame
        BY <1>1, <1>6, <4>1, Elements DEF IsChain, Linked
      <4> QED BY <1>4, <1>6, <3>3, <4>2
    <3>5. On(target, down) /\ Place(target, down) = 1
      <4>1. 1 \in 1..Len(down)
        BY <3>4
      <4>2. On(target, down)
        BY <1>6, <4>1 DEF On
      <4>3. Place(target, down) \in 1..Len(down)
        BY <1>6, <4>2, PlaceIs
      <4> QED BY <3>4, <4>2, <4>3
    <3>6. ~On(source, down)
      <4>1. \A i \in 1..Len(down) : i = 1
        BY <3>4
      <4> QED BY <1>6, <4>1 DEF On
    <3>7. ~(Len(up) > MaxDepth + 1) /\ ~(Place(target, up) < Len(up))
      BY <1>3, <1>8, <3>1
    <3>8. w = WalkOf("full path", one, SubSeq(down, 1, Place(target, down) - 1), t)
      BY <3>2, <3>5, <3>6, <3>7 DEF WalkAlong
    <3>9. SubSeq(down, 1, Place(target, down) - 1) = <<>>
      BY <3>5, SubSeqEmpty
    <3> QED BY <3>8, <3>9
  <2> QED BY <2>1, <2>2
<1> HIDE DEF w, one
<1>11. PICK ending : ending # "none" /\ w = WalkOf(ending, one, <<>>, t)
  BY <1>10
<1>12. Accumulate(b, t, one) = pose
  <2>1. \A i \in 1..1 : i = 1
    OBVIOUS
  <2>2. Has(b, t, one)
    BY <1>5, <1>9, <2>1 DEF Has, pose
  <2> QED BY <1>9, <2>2, AccumulateIs DEF pose
<1>13. Accumulate(b, t, <<>>) = Identity
  <2>1. <<>> \in Seq(Frame) /\ Len(<<>>) = 0
    OBVIOUS
  <2>2. Has(b, t, <<>>)
    BY <2>1 DEF Has
  <2> QED BY <2>1, <2>2, AccumulateIs
<1>14. Finalize(b, w) = pose
  <2>1. Finalize(b, w) = Compose(InverseOf(Accumulate(b, t, <<>>)), Accumulate(b, t, one))
    BY <1>11 DEF Finalize, WalkOf
  <2>2. InverseOf(Identity) = Identity
    BY <1>5, ComposeWithIdentity, InverseIs
  <2> QED BY <1>5, <1>12, <1>13, <2>1, <2>2, ComposeWithIdentity
<1>15. look = [ok |-> TRUE, time |-> t, pose |-> pose]
  BY <1>2, <1>11, <1>14 DEF LookupAlong, WalkOf
<1> QED BY <1>15 DEF look, pose

(* What is stored in a list, alone with its stamp and not too old, is what *)
(* a buffer of the lists gives at that stamp.                              *)
LEMMA Found ==
    ASSUME NEW E, Entries(E), NEW lists, \A p \in Pair : Listed(p, lists[p], E),
           NEW pair \in Pair, pair[1] # pair[2], ~lists[pair].static,
           \A p \in Pair : p[2] = pair[2] /\ lists[p].transforms # <<>> => p = pair,
           NEW x \in ToSet(lists[pair].transforms),
           \A y \in ToSet(lists[pair].transforms) :
              (y.stamp = x.stamp => y = x) /\ y.stamp <= x.stamp + CacheTime
    PROVE  LookupTransform(BufferOf(lists), pair[1], pair[2], x.stamp) =
               [ok |-> TRUE, time |-> x.stamp, pose |-> x.pose]
<1> DEFINE b == BufferOf(lists)
           own == OfList(pair, lists[pair])
           e == Entry(x.stamp, pair[1], x.pose)
           c == b.cache[pair[2]]
           t == x.stamp
<1>1. b \in BufferOver(E)
  BY BufferIs
<1>2. e \in own /\ e.stamp = t /\ e.parent = pair[1] /\ e.pose = x.pose
  BY DEF OfList, Entry
<1>3. \A d \in own : d.parent = pair[1] /\ d.stamp <= e.stamp + CacheTime /\ (d.stamp = e.stamp => d = e)
  BY DEF OfList, Entry
<1>4. IsThere(c, own, e)
  <2> HIDE DEF e
  <2> QED BY <1>2, <1>3, ListIsCached
<1>5. pair[1] \in Frame /\ pair[2] \in Frame
  <2>1. ToSet(Lists) \subseteq Frame \X Frame
    BY ListsAssumption, Elements
  <2> QED BY <2>1 DEF Pair
<1> HIDE DEF b, own, e, t
<1>6. c \in Filled(E) /\ c.is = "times" /\ e \in ToSet(c.list) /\ ToSet(c.list) \subseteq own
  BY <1>1, <1>4, <1>5 DEF IsThere, BufferOver
<1> HIDE DEF c
<1>7. e \in E
  <2>1. ToSet(c.list) \subseteq E
    BY <1>6, Elements DEF Filled, CacheOver
  <2> QED BY <1>6, <2>1
<1>8. IsEntry(e) /\ t \in Nat \ {0}
  BY <1>2, <1>7 DEF Entries
<1>9. GetData(c, t) = e
  <2>1. \A y \in ToSet(c.list) : y.stamp = e.stamp => y = e
    BY <1>3, <1>6
  <2> QED BY <1>2, <1>6, <2>1, GetDataFinds
<1>10. ParentsAt(b, t)[pair[2]] = pair[1]
  <2>1. DOMAIN b.cache = Frame
    BY <1>1 DEF BufferOver
  <2>2. c # NoCache
    BY <1>6 DEF NoCache
  <2>3. e # Nothing
    <3>1. e.is = "entry" /\ Nothing.is = "nothing"
      BY <1>8 DEF IsEntry, Entry, Nothing
    <3> QED BY <3>1
  <2>4. ParentIn(c, t, TRUE) = pair[1]
    BY <1>2, <1>9, <2>2, <2>3 DEF ParentIn
  <2> QED BY <1>5, <2>1, <2>4 DEF ParentsAt, c
<1>11. pair[1] \in b.known /\ pair[2] \in b.known
  BY <1>1, <1>2, <1>5, <1>6 DEF BufferOver, c
<1>12. LookupTransform(b, pair[1], pair[2], t) = [ok |-> TRUE, time |-> t, pose |-> GetData(c, t).pose]
  BY <1>1, <1>5, <1>8, <1>10, <1>11, LookupInParent DEF c
<1> QED BY <1>2, <1>9, <1>12 DEF b, t

(* A buffer of files of transforms with stamps and poses. *)
Sound(E) == \A x \in E : x.stamp \in Nat \ {0} /\ IsPose(x.pose)

EntriesOf(E) == {Entry(x.stamp, p[1], x.pose) : p \in Pair, x \in E}

LEMMA EntriesOfIs ==
    ASSUME NEW E, Sound(E), NEW lists \in [Pair -> StoredOver(E)]
    PROVE  /\ Entries(EntriesOf(E))
           /\ \A p \in Pair : Listed(p, lists[p], EntriesOf(E))
<1>1. \A p \in Pair : p[1] \in Frame
  <2>1. ToSet(Lists) \subseteq Frame \X Frame
    BY ListsAssumption, Elements
  <2> QED BY <2>1 DEF Pair
<1>2. Entries(EntriesOf(E))
  BY <1>1 DEF Entries, EntriesOf, IsEntry, Entry, Sound
<1>3. ASSUME NEW p \in Pair
      PROVE  Listed(p, lists[p], EntriesOf(E))
  <2>1. lists[p].transforms \in Seq(E)
    BY DEF StoredOver, FileOver
  <2>2. \A x \in E : Entry(x.stamp, p[1], x.pose) \in EntriesOf(E)
    BY DEF EntriesOf
  <2> QED BY <2>1, <2>2 DEF Listed
<1> QED BY <1>2, <1>3

-----------------------------------------------------------------------------
(* Files and stamps.  A stamp of 0 asks a buffer for what is latest, and   *)
(* stands for an entity that is not there.                                 *)

(* A file names its frames exactly if it has transforms, an entity has a   *)
(* stamp exactly if it is there, and no transform has the stamp 0.         *)
Formed ==
    \A p \in Pair :
        /\ stored[p].is \in {"missing", "empty", "list"}
        /\ stored[p].is = "list" <=> stored[p].transforms # <<>>
        /\ stored[p].is = "missing" <=> stamp[p] = 0
        /\ \A x \in ToSet(stored[p].transforms) : x.stamp \in Nat \ {0} /\ IsPose(x.pose)

StampsFit ==
    /\ stamp \in [Pair -> Nat]
    /\ \A p \in Pair : stored[p].is = "missing" <=> stamp[p] = 0

IInv ==
    /\ \E E : Sound(E) /\ stored \in [Pair -> StoredOver(E)]
    /\ StampsFit

LEMMA IInvFormed == IInv => Formed
<1> SUFFICES ASSUME IInv, NEW p \in Pair
             PROVE  /\ stored[p].is \in {"missing", "empty", "list"}
                    /\ stored[p].is = "list" <=> stored[p].transforms # <<>>
                    /\ stored[p].is = "missing" <=> stamp[p] = 0
                    /\ \A x \in ToSet(stored[p].transforms) : x.stamp \in Nat \ {0} /\ IsPose(x.pose)
  BY DEF Formed
<1>1. PICK E : Sound(E) /\ stored \in [Pair -> StoredOver(E)]
  BY DEF IInv
<1>2. stored[p] \in StoredOver(E)
  BY <1>1
<1>3. stored[p].transforms \in Seq(E)
  BY <1>2 DEF StoredOver, FileOver
<1>4. ToSet(stored[p].transforms) \subseteq E
  BY <1>3, Elements
<1> QED BY <1>1, <1>2, <1>4 DEF StoredOver, FileOver, Sound, IInv, StampsFit

LEMMA InitIInv == Init => IInv
<1> SUFFICES ASSUME Init PROVE IInv
  OBVIOUS
<1>1. Sound({}) /\ stored \in [Pair -> StoredOver({})]
  BY MissingIs DEF Init, Sound
<1>2. StampsFit
  BY MissingIs DEF Init, StampsFit
<1> QED BY <1>1, <1>2 DEF IInv

-----------------------------------------------------------------------------
(* The steps.                                                              *)

Loses == \E p \in Pair : ~(Holds(stored[p]) \subseteq Holds(stored[p])')

(* store_entities *)
LEMMA StoreEntitiesKeeps ==
    ASSUME IInv, NEW E, Sound(E), NEW gathered \in [Pair -> Gathered(E)], StoreEntities(gathered)
    PROVE  IInv' /\ ~Loses
<1>1. PICK F : Sound(F) /\ stored \in [Pair -> StoredOver(F)]
  BY DEF IInv
<1> DEFINE G == E \union F
           list(p) == ListOf(stored[p], gathered[p].static)
           file(p) == FileOf(Added(list(p), gathered[p].transforms, gathered[p].static))
           new == {p \in Pair : gathered[p].is # "missing"}
           earliest(p) == Min({x.stamp : x \in ToSet(gathered[p].transforms)})
<1>2. Sound(G)
  BY <1>1 DEF Sound
<1>3. \A p \in Pair : stored[p] \in StoredOver(G)
  <2>1. StoredOver(F) \subseteq StoredOver(G)
    BY FilesGrow
  <2> QED BY <1>1, <2>1
<1>4. \A p \in Pair : gathered[p].transforms \in Seq(E) /\ gathered[p].transforms \in Seq(G)
                      /\ gathered[p].static \in BOOLEAN
  <2>1. Seq(E) \subseteq Seq(G)
    BY SeqMonotonic
  <2> QED BY <2>1 DEF Gathered, StoredOver, FileOver
<1>5. stored' = [p \in Pair |-> IF p \in new THEN file(p) ELSE stored[p]]
  BY DEF StoreEntities
<1>6. stamp' = [p \in Pair |-> IF p \in new THEN earliest(p) ELSE stamp[p]]
  BY DEF StoreEntities
<1>7. ASSUME NEW p \in Pair
      PROVE  file(p) \in StoredOver(G) /\ file(p).is # "missing" /\ Holds(stored[p]) \subseteq Holds(file(p))
  <2>1. list(p) \in ListOver(G) /\ Holds(list(p)) = Holds(stored[p])
    BY <1>3, <1>4, ListOfIs
  <2>2. Added(list(p), gathered[p].transforms, gathered[p].static) \in ListOver(G)
        /\ Holds(list(p)) \subseteq Holds(Added(list(p), gathered[p].transforms, gathered[p].static))
    BY <1>4, <2>1, AddedIs
  <2> HIDE DEF list
  <2> QED BY <2>1, <2>2, FileOfIs
<1>8. ASSUME NEW p \in new
      PROVE  earliest(p) \in Nat \ {0}
  <2> DEFINE xs == gathered[p].transforms
             times == {x.stamp : x \in ToSet(xs)}
  <2>1. xs \in Seq(E) /\ xs # <<>>
    BY <1>4 DEF Gathered, StoredOver, FileOver
  <2>2. ToSet(xs) \subseteq E
    BY <2>1, Elements
  <2>3. ToSet(xs) # {}
    <3>1. Len(xs) \in Nat \ {0} /\ DOMAIN xs = 1..Len(xs)
      BY <2>1, EmptySeq, Elements
    <3>2. 1 \in DOMAIN xs
      BY <3>1
    <3> QED BY <3>2 DEF ToSet
  <2> HIDE DEF xs
  <2>4. times \in SUBSET (Nat \ {0}) /\ times # {}
    BY <2>2, <2>3 DEF Sound
  <2> HIDE DEF times
  <2>5. Min(times) \in times
    BY <2>4, MinIs
  <2> QED BY <2>4, <2>5 DEF times, xs
<1> HIDE DEF file, earliest
<1>9. stored' \in [Pair -> StoredOver(G)]
  BY <1>3, <1>5, <1>7
<1>10. StampsFit'
  <2>1. stamp' \in [Pair -> Nat]
    BY <1>6, <1>8 DEF IInv, StampsFit
  <2>2. ASSUME NEW p \in Pair
        PROVE  stored'[p].is = "missing" <=> stamp'[p] = 0
    <3>1. CASE p \in new
      <4>1. stored'[p] = file(p) /\ stamp'[p] = earliest(p)
        BY <1>5, <1>6, <3>1
      <4> QED BY <1>7, <1>8, <3>1, <4>1
    <3>2. CASE p \notin new
      <4>1. stored'[p] = stored[p] /\ stamp'[p] = stamp[p]
        BY <1>5, <1>6, <3>2
      <4> QED BY <4>1 DEF IInv, StampsFit
    <3> QED BY <3>1, <3>2
  <2> QED BY <2>1, <2>2 DEF StampsFit
<1>11. ~Loses
  <2>1. ASSUME NEW p \in Pair
        PROVE  Holds(stored[p]) \subseteq Holds(stored'[p])
    BY <1>5, <1>7
  <2> QED BY <2>1 DEF Loses, Holds
<1> QED BY <1>2, <1>9, <1>10, <1>11 DEF IInv

LEMMA NumberedIsPose == \A id : IsPose(Pose(id))
BY SingleIs DEF Pose

LEMMA NewPoseIs == \A i : IsPose(NewPose(i))
BY NumberedIsPose DEF NewPose

(* load_tfs and load_bags *)
LEMMA LoadTfsKeeps ==
    ASSUME IInv, NEW loaded \in Loaded, LoadTfs(WithPoses(loaded))
    PROVE  IInv' /\ ~Loses
<1> DEFINE xs == WithPoses(loaded)
           E == {Measured(xs[i]) : i \in DOMAIN xs}
<1> DEFINE From(n) ==
             {[i \in 1..n |-> [pair |-> at[i][1], stamp |-> at[i][2], static |-> at[i][3]]] :
                at \in [1..n -> Pair \X Stamps \X BOOLEAN]}
<1>0. Loaded = UNION {From(n) : n \in 1..MaxLoad}
  BY DEF Loaded
<1> HIDE DEF From
<1> PICK n \in 1..MaxLoad : loaded \in From(n)
  BY <1>0
<1>1. PICK at \in [1..n -> Pair \X Stamps \X BOOLEAN] :
        loaded = [i \in 1..n |-> [pair |-> at[i][1], stamp |-> at[i][2], static |-> at[i][3]]]
  BY DEF From
<1>2. n \in Nat
  BY JobsAssumption
<1>3. DOMAIN xs = 1..n
  BY <1>1 DEF WithPoses
<1>4. ASSUME NEW i \in 1..n
      PROVE  /\ xs[i].pair \in Pair /\ xs[i].static \in BOOLEAN /\ xs[i].stamp \in Nat \ {0}
             /\ Measured(xs[i]) \in E /\ IsPose(xs[i].pose)
  <2>1. loaded[i].pair \in Pair /\ loaded[i].stamp \in Stamps /\ loaded[i].static \in BOOLEAN
    BY <1>1
  <2>2. xs[i] = [pair |-> loaded[i].pair, stamp |-> loaded[i].stamp,
                 static |-> loaded[i].static, pose |-> NewPose(i)]
    BY <1>1 DEF WithPoses
  <2>3. loaded[i].stamp \in Nat \ {0}
    BY <2>1, StampsAssumption
  <2>4. Measured(xs[i]) \in E
    BY <1>3
  <2>5. IsPose(NewPose(i))
    BY NewPoseIs
  <2> HIDE DEF xs
  <2> QED BY <2>1, <2>2, <2>3, <2>4, <2>5
<1> HIDE DEF xs
<1>5. Sound(E)
  BY <1>3, <1>4 DEF Sound, Measured
<1>6. Gather(xs) \in [Pair -> Gathered(E)]
  BY <1>2, <1>3, <1>4, GatherIs
<1>7. StoreEntities(Gather(xs))
  BY DEF LoadTfs, xs
<1> QED BY <1>5, <1>6, <1>7, StoreEntitiesKeeps

(* mapit_add_tf on one pair, for one transform after the other *)
LEMMA AddingIs ==
    ASSUME IInv, NEW pair \in Pair, NEW static \in BOOLEAN, NEW file, NEW xs, NEW last,
           NEW E, Sound(E), xs \in Seq(E), xs # <<>>,
           \A F : stored[pair] \in StoredOver(F) => file \in StoredOver(F),
           last \in Nat \ {0},
           stored' = [stored EXCEPT ![pair] = AddAllTfs(file, xs, static)],
           stamp' = [stamp EXCEPT ![pair] = last]
    PROVE  IInv' /\ (file = stored[pair] => ~Loses)
<1>1. PICK F : Sound(F) /\ stored \in [Pair -> StoredOver(F)]
  BY DEF IInv
<1> DEFINE G == E \union F
           new == AddAllTfs(file, xs, static)
<1>2. Sound(G)
  BY <1>1 DEF Sound
<1>3. StoredOver(F) \subseteq StoredOver(G) /\ Seq(E) \subseteq Seq(G)
  BY FilesGrow, SeqMonotonic
<1>4. file \in StoredOver(G) /\ xs \in Seq(G) /\ \A p \in Pair : stored[p] \in StoredOver(G)
  BY <1>1, <1>3
<1>5. new \in Keeping(G, file) /\ new.is # "missing"
  BY <1>4, AddAllTfsIs
<1>6. new \in StoredOver(G) /\ Holds(file) \subseteq Holds(new)
  BY <1>5 DEF Keeping
<1> HIDE DEF new
<1>7. stored' = [stored EXCEPT ![pair] = new]
  BY DEF new
<1>8. \A p \in Pair : stored'[p] = IF p = pair THEN new ELSE stored[p]
  BY <1>1, <1>7
<1>9. stored' \in [Pair -> StoredOver(G)]
  BY <1>1, <1>4, <1>6, <1>7
<1>10. stamp' \in [Pair -> Nat] /\ \A p \in Pair : stamp'[p] = IF p = pair THEN last ELSE stamp[p]
  BY DEF IInv, StampsFit
<1>11. StampsFit'
  BY <1>5, <1>8, <1>10 DEF IInv, StampsFit
<1>12. ASSUME file = stored[pair]
       PROVE  ~Loses
  <2>1. \A p \in Pair : Holds(stored[p]) \subseteq Holds(stored'[p])
    BY <1>6, <1>8, <1>12
  <2> QED BY <2>1 DEF Loses, Holds
<1> QED BY <1>2, <1>9, <1>11, <1>12 DEF IInv

(* tf-add *)
LEMMA RegisterAndAddKeeps ==
    ASSUME IInv, NEW pair \in Pair, NEW static \in BOOLEAN, NEW inputs \in Inputs(static),
           RegisterAndAdd(pair, inputs, static)
    PROVE  IInv' /\ ~Loses
<1>1. PICK n \in 1..Len(inputs) :
        /\ stored' = [stored EXCEPT ![pair] =
                         AddAllTfs(@, [i \in 1..n |-> [stamp |-> inputs[i], pose |-> NewPose(i)]],
                                   static)]
        /\ stamp' = [stamp EXCEPT ![pair] = inputs[n]]
  BY DEF RegisterAndAdd
<1>2. PICK k \in Nat : inputs \in [1..k -> Clouds]
  BY JobsAssumption DEF Inputs
<1>3. inputs \in Seq(Clouds) /\ Len(inputs) = k
  BY <1>2
<1>4. n \in 1..k
  BY <1>3
<1>5. \A i \in 1..n : inputs[i] \in Nat \ {0}
  BY <1>2, <1>4, StampsAssumption
<1> DEFINE xs == [i \in 1..n |-> [stamp |-> inputs[i], pose |-> NewPose(i)]]
           E == {[stamp |-> inputs[i], pose |-> NewPose(i)] : i \in 1..n}
<1>6. xs \in Seq(E) /\ xs # <<>> /\ n \in Nat
  BY <1>2, <1>4
<1>7. Sound(E)
  BY <1>5, NewPoseIs DEF Sound
<1>8. stored' = [stored EXCEPT ![pair] = AddAllTfs(stored[pair], xs, static)]
  BY <1>1
<1>9. n \in 1..n
  BY <1>4, <1>2
<1> HIDE DEF xs, E
<1> QED BY <1>1, <1>5, <1>6, <1>7, <1>8, <1>9, AddingIs

(* mapit_remove_tfs leaves a file with what is outside, and that names its *)
(* frames if anything is left.                                             *)
Outside(xs, start, end) == {x \in xs : ~(x.stamp >= start /\ x.stamp <= end)}

LEMMA RemoveTfsIs ==
    ASSUME NEW E, NEW file \in StoredOver(E), NEW start, NEW end
    PROVE  LET new == RemoveTfs(file, start, end)
           IN  /\ new \in StoredOver(E)
               /\ Holds(new) = Outside(Holds(file), start, end)
               /\ file.is = "missing" => new = file
               /\ Holds(new) # {} => new.is = "list" /\ new.static = file.static
<1>0. file.transforms \in Seq(E) /\ ToSet(<<>>) = {}
  <2>1. ToSet(<<>>) = {}
    BY DEF ToSet
  <2> QED BY <2>1 DEF StoredOver, FileOver
<1>1. CASE file.is = "missing"
  <2>1. file.transforms = <<>> /\ RemoveTfs(file, start, end) = file
    BY <1>1 DEF StoredOver, RemoveTfs
  <2> QED BY <1>0, <2>1 DEF Holds, Outside
<1>2. CASE file.is # "missing"
  <2> DEFINE list == DeleteTransforms(file, start, end)
             new == FileOf(list)
  <2>1. file \in ListOver(E)
    BY DEF StoredOver, ListOver
  <2>2. /\ list \in ListOver(E) /\ list.is = file.is /\ list.static = file.static
        /\ Holds(list) = Outside(Holds(file), start, end)
    BY <2>1, DeleteTransformsIs DEF ListOver, Outside
  <2>3. new \in StoredOver(E) /\ Holds(new) = Holds(list)
    BY <2>2, FileOfIs
  <2>4. ASSUME Holds(new) # {}
        PROVE  new.is = "list" /\ new.static = file.static
    <3>1. list.transforms # <<>>
      BY <1>0, <2>3, <2>4 DEF Holds
    <3>2. new = list /\ list.is = "list"
      BY <2>2, <3>1 DEF FileOf, ListOver
    <3> QED BY <2>2, <3>2
  <2>5. RemoveTfs(file, start, end) = new
    BY <1>2 DEF RemoveTfs
  <2> HIDE DEF list, new
  <2> QED BY <1>2, <2>2, <2>3, <2>4, <2>5
<1> QED BY <1>1, <1>2

(* What tf-combine adds: transforms at the clouds, and just outside.       *)
CombinedFor(n, b, pair, inputs) ==
    [i \in DOMAIN inputs |->
        [stamp |-> inputs[i],
         pose |-> Compose(LookupTransform(b, pair[1], pair[2], inputs[i]).pose, Pose(10 * n + i))]]

AddedFor(n, b, pair, inputs, earliest, latest) ==
    CombinedFor(n, b, pair, inputs) \o JustOutside(b, pair, earliest, latest)

HasAdded(xs, new, k, earliest, latest) ==
    /\ \E E : Sound(E) /\ xs \in Seq(E)
    /\ xs # <<>> /\ Last(xs).stamp \in Nat \ {0}
    /\ \A i \in 1..k : new[i] \in ToSet(xs)
    /\ \A x \in ToSet(xs) : (\E i \in 1..k : x = new[i]) \/ x.stamp \in {earliest - 1, latest + 1}

LEMMA CombinedAllIs ==
    ASSUME NEW F, Entries(F), NEW b \in BufferOver(F), NEW pair \in Frame \X Frame,
           NEW k \in Nat \ {0}, NEW inputs \in [1..k -> Clouds],
           NEW earliest \in Nat, earliest > 1, NEW latest \in Nat, NEW n
    PROVE  HasAdded(AddedFor(n, b, pair, inputs, earliest, latest), CombinedFor(n, b, pair, inputs),
                    k, earliest, latest)
<1> DEFINE Kept(t) == LET old == LookupTransform(b, pair[1], pair[2], t)
                      IN  IF old.ok THEN <<[stamp |-> t, pose |-> old.pose]>> ELSE <<>>
           one == CombinedFor(n, b, pair, inputs)
           two == JustOutside(b, pair, earliest, latest)
           pose(i) == Compose(LookupTransform(b, pair[1], pair[2], inputs[i]).pose, Pose(10 * n + i))
           G == {[stamp |-> inputs[i], pose |-> pose(i)] : i \in 1..k}
           H == {[stamp |-> t, pose |-> LookupTransform(b, pair[1], pair[2], t).pose] :
                    t \in {earliest - 1, latest + 1}}
<1>1. one = [i \in 1..k |-> [stamp |-> inputs[i], pose |-> pose(i)]]
  BY DEF CombinedFor
<1>2. one \in Seq(G) /\ Len(one) = k
  <2> DEFINE e(i) == [stamp |-> inputs[i], pose |-> pose(i)]
  <2>1. one = [i \in 1..k |-> e(i)] /\ \A i \in 1..k : e(i) \in G
    BY <1>1
  <2> HIDE DEF e, one, G
  <2> QED BY <2>1
<1>3. two = Kept(earliest - 1) \o Kept(latest + 1)
  BY DEF JustOutside
<1>4. ASSUME NEW t \in {earliest - 1, latest + 1}
      PROVE  Kept(t) \in Seq(H)
  <2> DEFINE x == [stamp |-> t, pose |-> LookupTransform(b, pair[1], pair[2], t).pose]
  <2>1. x \in H
    OBVIOUS
  <2> HIDE DEF H
  <2>2. Kept(t) = <<x>> \/ Kept(t) = <<>>
    OBVIOUS
  <2> HIDE DEF Kept, x
  <2>3. <<x>> \in Seq(H) /\ <<>> \in Seq(H)
    BY <2>1
  <2> QED BY <2>2, <2>3
<1> HIDE DEF Kept
<1>5. two \in Seq(H)
  BY <1>3, <1>4, ConcatProperties
<1>6. Sound(G \union H)
  <2>1. \A i \in 1..k : inputs[i] \in Nat \ {0}
    BY StampsAssumption
  <2>2. earliest - 1 \in Nat \ {0} /\ latest + 1 \in Nat \ {0}
    OBVIOUS
  <2>3. \A t \in Nat \ {0} : IsPose(LookupTransform(b, pair[1], pair[2], t).pose)
    BY LookupIsPose
  <2>4. \A x \in H : x.stamp \in Nat \ {0} /\ IsPose(x.pose)
    BY <2>2, <2>3
  <2>5. \A i \in 1..k : IsPose(pose(i))
    <3>1. \A i \in 1..k : IsWord(LookupTransform(b, pair[1], pair[2], inputs[i]).pose) /\ IsWord(Pose(10 * n + i))
      BY <2>1, <2>3, NumberedIsPose, ComposeWithIdentity
    <3> QED BY <3>1, ComposeIs
  <2>6. \A x \in G : x.stamp \in Nat \ {0} /\ IsPose(x.pose)
    BY <2>1, <2>5
  <2> HIDE DEF G, H
  <2> QED BY <2>4, <2>6 DEF Sound
<1> HIDE DEF one, two, G, H
<1>7. one \in Seq(G \union H) /\ two \in Seq(G \union H)
  <2>1. Seq(G) \subseteq Seq(G \union H) /\ Seq(H) \subseteq Seq(G \union H)
    BY SeqMonotonic
  <2> QED BY <1>2, <1>5, <2>1
<1> DEFINE xs == one \o two
<1>8. xs \in Seq(G \union H) /\ Len(xs) = Len(one) + Len(two)
  BY <1>7, ConcatProperties
<1>9. Len(xs) \in Nat \ {0} /\ xs # <<>>
  <2>1. Len(two) \in Nat
    BY <1>5, LenProperties
  <2>2. Len(xs) \in Nat \ {0}
    BY <1>2, <1>8, <2>1
  <2>3. Len(<<>>) = 0
    OBVIOUS
  <2> QED BY <2>2, <2>3
<1>10. AddedFor(n, b, pair, inputs, earliest, latest) = xs
  BY DEF AddedFor, one, two
<1>12. ToSet(xs) = ToSet(one) \union ToSet(two)
  BY <1>7, Joined
<1> HIDE DEF xs
<1>11. Last(xs) \in G \union H
  <2>1. Len(xs) \in 1..Len(xs)
    BY <1>9
  <2> QED BY <1>8, <2>1, Elements DEF Last
<1>13. ToSet(one) = {one[i] : i \in 1..k}
  BY <1>2, Elements DEF ToSet
<1>14. ToSet(two) \subseteq H
  BY <1>5, Elements
<1>15. \A x \in H : x.stamp \in {earliest - 1, latest + 1}
  BY DEF H
<1>16. /\ \A i \in 1..k : one[i] \in ToSet(xs)
       /\ \A x \in ToSet(xs) : (\E i \in 1..k : x = one[i]) \/ x.stamp \in {earliest - 1, latest + 1}
  BY <1>12, <1>13, <1>14, <1>15
<1>17. \E E : Sound(E) /\ xs \in Seq(E)
  BY <1>6, <1>8
<1>18. Last(xs).stamp \in Nat \ {0}
  BY <1>6, <1>11 DEF Sound
<1>19. HasAdded(xs, one, k, earliest, latest)
  BY <1>9, <1>16, <1>17, <1>18 DEF HasAdded
<1> QED BY <1>10, <1>19 DEF one

(* The stamps of input clouds are between the earliest and the latest. *)
LEMMA InputsAre ==
    ASSUME NEW static \in BOOLEAN, NEW inputs \in Inputs(static)
    PROVE  LET earliest == Min(ToSet(inputs))
               latest == Max(ToSet(inputs))
           IN  \E k \in Nat \ {0} :
                  /\ inputs \in [1..k -> Clouds]
                  /\ earliest \in Nat /\ earliest > 1 /\ latest \in Nat
                  /\ \A i \in 1..k : /\ inputs[i] \in Nat \ {0}
                                     /\ inputs[i] >= earliest /\ inputs[i] <= latest
<1> DEFINE earliest == Min(ToSet(inputs))
           latest == Max(ToSet(inputs))
<1>2. PICK k \in Nat \ {0} : inputs \in [1..k -> Clouds]
  BY JobsAssumption DEF Inputs
<1>3. \A i \in 1..k : inputs[i] \in Nat /\ inputs[i] > 1
  <2>1. \A c \in Clouds : c \in Nat /\ c > 1
    BY StampsAssumption
  <2> QED BY <1>2, <2>1
<1>4. ToSet(inputs) \in SUBSET Nat /\ ToSet(inputs) # {} /\ \A t \in ToSet(inputs) : t > 1
  <2>1. 1 \in 1..k
    OBVIOUS
  <2> QED BY <1>2, <1>3, <2>1 DEF ToSet
<1>5. earliest \in Nat /\ earliest > 1 /\ \A t \in ToSet(inputs) : earliest <= t
  BY <1>4, MinIs
<1>6. latest \in Nat /\ \A t \in ToSet(inputs) : latest >= t
  <2> DEFINE Bounds == {m \in Nat : m > k \/ \E u \in Nat : \A i \in 1..m : inputs[i] <= u}
  <2>1. 0 \in Bounds
    <3>1. \A i \in 1..0 : inputs[i] <= 0
      OBVIOUS
    <3> QED BY <3>1
  <2>2. ASSUME NEW m \in Nat, m \in Bounds
        PROVE  m + 1 \in Bounds
    <3>0. m + 1 > k \/ (m + 1 \in 1..k /\ ~(m > k))
      OBVIOUS
    <3>1. CASE m + 1 > k
      BY <3>1
    <3>2. CASE m + 1 \in 1..k /\ ~(m > k)
      <4>1. PICK u \in Nat : \A i \in 1..m : inputs[i] <= u
        BY <2>2, <3>2
      <4>2. inputs[m + 1] \in Nat
        BY <1>3, <3>2
      <4> DEFINE v == u + inputs[m + 1]
      <4>3. ASSUME NEW i \in 1..(m + 1)
            PROVE  inputs[i] <= v
        <5>1. CASE i = m + 1
          BY <4>2, <5>1
        <5>2. CASE i # m + 1
          <6>1. i \in 1..m /\ i \in 1..k
            BY <3>2, <5>2
          <6>2. inputs[i] <= u /\ inputs[i] \in Nat
            BY <1>3, <4>1, <6>1
          <6> QED BY <4>2, <6>2
        <5> QED BY <5>1, <5>2
      <4>4. v \in Nat
        BY <4>2
      <4> HIDE DEF v
      <4> QED BY <4>3, <4>4
    <3> QED BY <3>0, <3>1, <3>2
  <2> HIDE DEF Bounds
  <2>3. k \in Bounds
    BY <2>1, <2>2, Induction
  <2>4. PICK u \in Nat : \A i \in 1..k : inputs[i] <= u
    BY <2>3 DEF Bounds
  <2>5. ToSet(inputs) \in SUBSET (0..u)
    BY <1>2, <1>3, <2>4 DEF ToSet
  <2> QED BY <1>4, <2>5, MaxIs
<1>7. \A i \in 1..k : inputs[i] \in ToSet(inputs)
  BY <1>2 DEF ToSet
<1> HIDE DEF earliest, latest
<1>8. \A i \in 1..k : inputs[i] \in Nat \ {0} /\ inputs[i] >= earliest /\ inputs[i] <= latest
  BY <1>3, <1>5, <1>6, <1>7
<1>9. inputs \in [1..k -> Clouds] /\ earliest \in Nat /\ earliest > 1 /\ latest \in Nat
  BY <1>2, <1>5, <1>6
<1> QED BY <1>8, <1>9 DEF earliest, latest

LEMMA CombinedAllAdds ==
    ASSUME NEW b, NEW pair, NEW inputs, NEW earliest, NEW latest
    PROVE  CombinedAll(b, pair, inputs, earliest, latest) = AddedFor(jobs + 1, b, pair, inputs, earliest, latest)
BY DEF CombinedAll, Combined, NewPose, AddedFor, CombinedFor

(* tf-combine *)
LEMMA RegisterAndCombineKeeps ==
    ASSUME IInv, NEW pair \in Pair, NEW static \in BOOLEAN, NEW inputs \in Inputs(static),
           RegisterAndCombine(pair, inputs, static)
    PROVE  IInv'
<1> DEFINE earliest == Min(ToSet(inputs))
           latest == Max(ToSet(inputs))
           xs == AddedFor(jobs + 1, BufferOf(stored), pair, inputs, earliest, latest)
           file == RemoveTfs(stored[pair], earliest, latest)
<1>1. stored' = [stored EXCEPT ![pair] = AddAllTfs(file, xs, static)]
      /\ stamp' = [stamp EXCEPT ![pair] = Last(xs).stamp]
  BY CombinedAllAdds DEF RegisterAndCombine, PutInstead
<1>2. PICK k \in Nat \ {0} : /\ inputs \in [1..k -> Clouds]
                              /\ earliest \in Nat /\ earliest > 1 /\ latest \in Nat
  BY InputsAre
<1>7. \A F : stored[pair] \in StoredOver(F) => file \in StoredOver(F)
  BY RemoveTfsIs
<1> HIDE DEF earliest, latest, file
<1>8. /\ \E E : Sound(E) /\ xs \in Seq(E)
      /\ xs # <<>> /\ Last(xs).stamp \in Nat \ {0}
  <2>1. PICK F : Sound(F) /\ stored \in [Pair -> StoredOver(F)]
    BY DEF IInv
  <2>2. Entries(EntriesOf(F)) /\ BufferOf(stored) \in BufferOver(EntriesOf(F))
    BY <2>1, EntriesOfIs, BufferIs
  <2>3. pair \in Frame \X Frame
    <3>1. ToSet(Lists) \subseteq Frame \X Frame
      BY ListsAssumption, Elements
    <3> QED BY <3>1 DEF Pair
  <2> DEFINE b == BufferOf(stored)
             n == jobs + 1
             all == AddedFor(n, b, pair, inputs, earliest, latest)
  <2>4. b \in BufferOver(EntriesOf(F))
    BY <2>2
  <2> HIDE DEF b, n
  <2>5. HasAdded(all, CombinedFor(n, b, pair, inputs), k, earliest, latest)
    BY <1>2, <2>2, <2>3, <2>4, CombinedAllIs
  <2>6. /\ \E E : Sound(E) /\ all \in Seq(E)
        /\ all # <<>> /\ Last(all).stamp \in Nat \ {0}
    BY <2>5 DEF HasAdded
  <2> QED BY <2>6 DEF b, n
<1> HIDE DEF xs
<1> QED BY <1>1, <1>7, <1>8, AddingIs

LEMMA DeleteListKeeps ==
    ASSUME IInv, NEW pair \in Pair, DeleteList(pair)
    PROVE  IInv'
<1>1. PICK E : Sound(E) /\ stored \in [Pair -> StoredOver(E)]
  BY DEF IInv
<1>2. stored' = [stored EXCEPT ![pair] = Missing] /\ stamp' = [stamp EXCEPT ![pair] = 0]
  BY DEF DeleteList
<1>3. stored' \in [Pair -> StoredOver(E)]
  BY <1>1, <1>2, MissingIs
<1>4. \A p \in Pair : /\ stored'[p] = IF p = pair THEN Missing ELSE stored[p]
                      /\ stamp'[p] = IF p = pair THEN 0 ELSE stamp[p]
  BY <1>1, <1>2 DEF IInv, StampsFit
<1>5. StampsFit'
  BY <1>2, <1>4, MissingIs DEF IInv, StampsFit
<1> QED BY <1>1, <1>3, <1>5 DEF IInv

LEMMA NextIInv == IInv /\ [Next]_vars => IInv'
<1> SUFFICES ASSUME IInv, [Next]_vars PROVE IInv'
  OBVIOUS
<1>1. CASE UNCHANGED vars
  BY <1>1 DEF vars, IInv, StampsFit
<1>2. CASE Next
  BY <1>2, LoadTfsKeeps, RegisterAndAddKeeps, RegisterAndCombineKeeps, DeleteListKeeps DEF Next
<1> QED BY <1>1, <1>2

LEMMA Inductive == Spec => []IInv
BY InitIInv, NextIInv, PTL DEF Spec

(* The files of the lists stay readable as what they are: a file without   *)
(* transforms names no frames, an entity without a stamp is not there, and *)
(* no transform gets the stamp 0, which asks for the latest                *)
(* (TransformStampedList::writeTfToStream, mapit_add_tf).                  *)
THEOREM ListsAreFormed == Spec => []Formed
BY Inductive, IInvFormed, PTL

(* Whatever was loaded, added, combined and deleted in whatever order, a   *)
(* stored transform of a frame with one parent is what lookupTransform     *)
(* gives at its stamp (BufferCore::lookupTransform, TimeCache::insertData, *)
(* findClosest).                                                           *)
THEOREM StoredTransformsAreFound == Spec => []StoredIsFound
<1>1. ASSUME IInv
      PROVE  StoredIsFound
  <2>1. PICK F : Sound(F) /\ stored \in [Pair -> StoredOver(F)]
    BY <1>1 DEF IInv
  <2>2. Entries(EntriesOf(F)) /\ \A p \in Pair : Listed(p, stored[p], EntriesOf(F))
    BY <2>1, EntriesOfIs
  <2> SUFFICES ASSUME NEW pair \in Pair, Alone(pair), ~stored[pair].static, pair[1] # pair[2],
                      NEW x \in ToSet(stored[pair].transforms),
                      InTime(pair, x.stamp),
                      \A y \in ToSet(stored[pair].transforms) : y.stamp = x.stamp => y = x
               PROVE  LookupTransform(BufferOf(stored), pair[1], pair[2], x.stamp).pose = x.pose
    BY DEF StoredIsFound, FoundIn, Buffer
  <2>3. \A p \in Pair : p[2] = pair[2] /\ stored[p].transforms # <<>> => p = pair
    BY DEF Alone
  <2>4. LookupTransform(BufferOf(stored), pair[1], pair[2], x.stamp) =
          [ok |-> TRUE, time |-> x.stamp, pose |-> x.pose]
    BY <2>2, <2>3, Found DEF InTime
  <2> QED BY <2>4
<1> QED BY <1>1, Inductive, PTL

(* What tf-combine did, as long as no other operator ran: the transforms   *)
(* from the first cloud to the last one were removed from what was stored  *)
(* before, and those that stand for them added.                            *)
CombineFits ==
    job.op = "combine" =>
        LET earliest == Min(ToSet(job.inputs))
            latest == Max(ToSet(job.inputs))
        IN  /\ job.pair \in Pair /\ job.static \in BOOLEAN /\ job.inputs \in Inputs(job.static)
            /\ \E E : Sound(E) /\ job.before \in [Pair -> StoredOver(E)]
            /\ stored = [job.before EXCEPT ![job.pair] =
                           AddAllTfs(RemoveTfs(@, earliest, latest),
                                     AddedFor(jobs, BufferOf(job.before), job.pair, job.inputs,
                                              earliest, latest),
                                     job.static)]

LEMMA NextCombineFits == IInv /\ CombineFits /\ [Next]_vars => CombineFits'
<1> SUFFICES ASSUME IInv, CombineFits, [Next]_vars PROVE CombineFits'
  OBVIOUS
<1>1. CASE UNCHANGED vars
  BY <1>1 DEF vars, CombineFits
<1>2. ASSUME NEW loaded \in Loaded, LoadTfs(WithPoses(loaded))
      PROVE  CombineFits'
  BY <1>2 DEF LoadTfs, NoJob, CombineFits
<1>3. ASSUME NEW pair \in Pair, NEW static \in BOOLEAN, NEW inputs \in Inputs(static),
             RegisterAndAdd(pair, inputs, static)
      PROVE  CombineFits'
  BY <1>3 DEF RegisterAndAdd, Registers, CombineFits
<1>4. ASSUME NEW pair \in Pair, NEW static \in BOOLEAN, NEW inputs \in Inputs(static),
             RegisterAndCombine(pair, inputs, static)
      PROVE  CombineFits'
  <2> DEFINE earliest == Min(ToSet(inputs))
             latest == Max(ToSet(inputs))
  <2>1. /\ jobs' = jobs + 1
        /\ job'.pair = pair /\ job'.inputs = inputs /\ job'.static = static /\ job'.before = stored
    BY <1>4 DEF RegisterAndCombine, Registers
  <2>2. stored' = [stored EXCEPT ![pair] =
                     AddAllTfs(RemoveTfs(@, earliest, latest),
                               AddedFor(jobs + 1, BufferOf(stored), pair, inputs, earliest, latest),
                               static)]
    BY <1>4, CombinedAllAdds DEF RegisterAndCombine, PutInstead
  <2>3. \E E : Sound(E) /\ stored \in [Pair -> StoredOver(E)]
    BY DEF IInv
  <2> QED BY <1>4, <2>1, <2>2, <2>3 DEF CombineFits
<1>5. ASSUME NEW pair \in Pair, DeleteList(pair)
      PROVE  CombineFits'
  BY <1>5 DEF DeleteList, NoJob, CombineFits
<1> QED BY <1>1, <1>2, <1>3, <1>4, <1>5 DEF Next

LEMMA InitCombineFits == Init => CombineFits
BY DEF Init, NoJob, CombineFits

(* What tf-combine leaves: what was outside, and what it added. *)
LEMMA CombineLeaves ==
    ASSUME IInv, CombineFits, job.op = "combine", ~job.static, LeavesSome,
           NEW k \in Nat \ {0}, NEW earliest \in Nat, NEW latest \in Nat,
           earliest = Min(ToSet(job.inputs)), latest = Max(ToSet(job.inputs)), earliest > 1,
           job.inputs \in [1..k -> Clouds]
    PROVE  LET old == job.before[job.pair]
               new == CombinedFor(jobs, BufferOf(job.before), job.pair, job.inputs)
           IN  /\ ~stored[job.pair].static
               /\ \A i \in 1..k : new[i] \in Holds(stored[job.pair])
               /\ \A x \in Holds(stored[job.pair]) :
                     \/ x \in Outside(Holds(old), earliest, latest)
                     \/ \E i \in 1..k : x = new[i]
                     \/ x.stamp \in {earliest - 1, latest + 1}
<1> DEFINE pair == job.pair
           inputs == job.inputs
           old == job.before[pair]
           b == BufferOf(job.before)
           new == CombinedFor(jobs, b, pair, inputs)
           xs == AddedFor(jobs, b, pair, inputs, earliest, latest)
           left == RemoveTfs(old, earliest, latest)
           all == AddAllTfs(left, xs, FALSE)
<1>1. PICK F : Sound(F) /\ job.before \in [Pair -> StoredOver(F)]
  BY DEF CombineFits
<1>2. pair \in Pair /\ pair \in Frame \X Frame
  <2>1. ToSet(Lists) \subseteq Frame \X Frame
    BY ListsAssumption, Elements
  <2> QED BY <2>1 DEF Pair, CombineFits
<1>3. job.static = FALSE /\ stored = [job.before EXCEPT ![pair] = all]
  BY DEF CombineFits
<1>4. Entries(EntriesOf(F)) /\ b \in BufferOver(EntriesOf(F))
  BY <1>1, EntriesOfIs, BufferIs
<1> HIDE DEF pair, inputs, b
<1>5. /\ \E E : Sound(E) /\ xs \in Seq(E)
      /\ xs # <<>>
      /\ \A i \in 1..k : new[i] \in ToSet(xs)
      /\ \A x \in ToSet(xs) : (\E i \in 1..k : x = new[i]) \/ x.stamp \in {earliest - 1, latest + 1}
  <2> DEFINE n == jobs
             with == AddedFor(n, b, pair, inputs, earliest, latest)
             at == CombinedFor(n, b, pair, inputs)
  <2>1. inputs \in [1..k -> Clouds]
    BY DEF inputs
  <2> HIDE DEF n
  <2>2. HasAdded(with, at, k, earliest, latest)
    BY <1>2, <1>4, <2>1, CombinedAllIs
  <2> HIDE DEF with, at
  <2>3. /\ \E E : Sound(E) /\ with \in Seq(E)
        /\ with # <<>>
        /\ \A i \in 1..k : at[i] \in ToSet(with)
        /\ \A x \in ToSet(with) : (\E i \in 1..k : x = at[i]) \/ x.stamp \in {earliest - 1, latest + 1}
    BY <2>2 DEF HasAdded
  <2> QED BY <2>3 DEF n, with, at
<1> HIDE DEF new, xs
<1>6. PICK E : Sound(E) /\ xs \in Seq(E)
  BY <1>5
<1>7. old \in StoredOver(E \union F) /\ xs \in Seq(E \union F)
  <2>1. StoredOver(F) \subseteq StoredOver(E \union F) /\ Seq(E) \subseteq Seq(E \union F)
    BY FilesGrow, SeqMonotonic
  <2> QED BY <1>1, <1>2, <1>6, <2>1
<1>8. /\ left \in StoredOver(E \union F) /\ Holds(left) = Outside(Holds(old), earliest, latest)
      /\ old.is = "missing" => left = old
      /\ Holds(left) # {} => left.is = "list" /\ left.static = old.static
  BY <1>7, RemoveTfsIs
<1>9. Takes(left, FALSE)
  <2>1. CASE old.is = "missing"
    BY <1>8, <2>1 DEF Takes
  <2>2. CASE old.is # "missing"
    <3>1. PICK x \in ToSet(old.transforms) : x.stamp < earliest \/ x.stamp > latest
      BY <2>2 DEF LeavesSome, pair
    <3>2. old.static = FALSE
      BY <1>7, <2>2 DEF LeavesSome, pair, StoredOver, FileOver
    <3>3. x.stamp \in Nat
      <4>1. old.transforms \in Seq(F)
        BY <1>1, <1>2 DEF StoredOver, FileOver
      <4> QED BY <1>1, <3>1, <4>1, Elements DEF Sound
    <3>4. x \in Holds(left)
      BY <1>8, <3>1, <3>3 DEF Holds, Outside
    <3> QED BY <1>8, <3>2, <3>4 DEF Takes
  <2> QED BY <2>1, <2>2
<1> HIDE DEF left
<1>10. /\ Takes(all, FALSE) /\ all.is # "missing"
       /\ Holds(all) = Holds(left) \union ToSet(xs)
  <2> DEFINE G == E \union F
             whole == AddAllTfs(left, xs, FALSE)
  <2>1. xs \in Seq(G) /\ left \in StoredOver(G)
    BY <1>7, <1>8
  <2> HIDE DEF G
  <2>2. Takes(whole, FALSE)
    BY <1>5, <1>9, <2>1, AddAllTfsIs
  <2>3. whole.is # "missing"
    BY <1>5, <1>9, <2>1, AddAllTfsIs
  <2>4. Holds(whole) = Holds(left) \union ToSet(xs)
    BY <1>5, <1>9, <2>1, AddAllTfsIs
  <2> QED BY <2>2, <2>3, <2>4
<1> HIDE DEF all
<1>11. stored[pair] = all /\ all.static = FALSE
  BY <1>1, <1>2, <1>3, <1>10 DEF Takes
<1>12. /\ \A i \in 1..k : new[i] \in Holds(all)
       /\ \A x \in Holds(all) : \/ x \in Outside(Holds(old), earliest, latest)
                                \/ \E i \in 1..k : x = new[i]
                                \/ x.stamp \in {earliest - 1, latest + 1}
  BY <1>5, <1>8, <1>10
<1> QED BY <1>11, <1>12 DEF new, old, b, pair, inputs

(* tf-combine gives, at each input cloud, the old transform with what was  *)
(* computed, for all lists, stamps and clouds, if something stays in the   *)
(* list (reg_local's operate_pairwise and mapit_add_tf).                   *)
THEOREM CombiningCombines == Spec => []CombinesInside
<1>1. ASSUME IInv, CombineFits
      PROVE  CombinesInside
  <2> DEFINE pair == job.pair
             inputs == job.inputs
             b == BufferOf(job.before)
             new == CombinedFor(jobs, b, pair, inputs)
  <2> SUFFICES ASSUME job.op = "combine", LeavesSome, ~job.static, Alone(pair), OneStampEach,
                      pair[1] # pair[2], NEW i \in DOMAIN inputs, InTime(pair, inputs[i])
               PROVE  OfPair(Buffer, pair)[inputs[i]].pose =
                        Compose(OfPair(OldBuffer, pair)[inputs[i]].pose, Computed(i))
    BY DEF CombinesInside, Combines, CombinedIn
  <2>1. PICK k \in Nat \ {0}, earliest \in Nat, latest \in Nat :
          /\ earliest = Min(ToSet(inputs)) /\ latest = Max(ToSet(inputs)) /\ earliest > 1
          /\ inputs \in [1..k -> Clouds]
          /\ \A j \in 1..k : inputs[j] \in Nat \ {0} /\ inputs[j] >= earliest /\ inputs[j] <= latest
    BY <1>1, InputsAre DEF CombineFits
  <2>2. /\ ~stored[pair].static
        /\ \A j \in 1..k : new[j] \in Holds(stored[pair])
        /\ \A x \in Holds(stored[pair]) : \/ x \in Outside(Holds(job.before[pair]), earliest, latest)
                                          \/ \E j \in 1..k : x = new[j]
                                          \/ x.stamp \in {earliest - 1, latest + 1}
    BY <1>1, <2>1, CombineLeaves
  <2> DEFINE t == inputs[i]
  <2>3. i \in 1..k /\ t \in Nat \ {0} /\ t >= earliest /\ t <= latest /\ t \in Times
    BY <2>1 DEF Times
  <2>4. \A j \in 1..k : /\ new[j].stamp = inputs[j]
                        /\ new[j].pose = Compose(LookupTransform(b, pair[1], pair[2], inputs[j]).pose,
                                                 Pose(10 * jobs + j))
    BY <2>1 DEF CombinedFor
  <2> HIDE DEF new, inputs, b, t
  <2>5. ASSUME NEW x \in Holds(stored[pair]), x.stamp = t
        PROVE  x = new[i]
    <3>1. x \notin Outside(Holds(job.before[pair]), earliest, latest)
      BY <2>3, <2>5 DEF Outside
    <3>2. PICK j \in 1..k : x = new[j]
      BY <2>1, <2>2, <2>3, <2>5, <3>1
    <3>3. inputs[j] = inputs[i]
      BY <2>4, <2>5, <3>2 DEF t
    <3>4. DOMAIN inputs = 1..k
      BY <2>1
    <3>5. j = i
      BY <2>3, <3>3, <3>4 DEF OneStampEach, inputs
    <3> QED BY <3>2, <3>5
  <2>6. new[i] \in Holds(stored[pair]) /\ new[i].stamp = t
    BY <2>2, <2>3, <2>4 DEF t
  <2>7. PICK F : Sound(F) /\ stored \in [Pair -> StoredOver(F)]
    BY <1>1 DEF IInv
  <2>8. Entries(EntriesOf(F)) /\ \A p \in Pair : Listed(p, stored[p], EntriesOf(F))
    BY <2>7, EntriesOfIs
  <2>9. pair \in Pair /\ \A p \in Pair : p[2] = pair[2] /\ stored[p].transforms # <<>> => p = pair
    BY <1>1 DEF Alone, CombineFits
  <2>10. \A y \in ToSet(stored[pair].transforms) :
            (y.stamp = new[i].stamp => y = new[i]) /\ y.stamp <= new[i].stamp + CacheTime
    BY <2>5, <2>6 DEF InTime, Holds, t
  <2> HIDE DEF pair
  <2>11. LookupTransform(BufferOf(stored), pair[1], pair[2], t) =
           [ok |-> TRUE, time |-> t, pose |-> new[i].pose]
    BY <2>2, <2>6, <2>8, <2>9, <2>10, Found DEF Holds
  <2>12. /\ OfPair(Buffer, pair)[t] = LookupTransform(BufferOf(stored), pair[1], pair[2], t)
         /\ OfPair(OldBuffer, pair)[t] = LookupTransform(b, pair[1], pair[2], t)
    BY <2>3 DEF OfPair, Buffer, OldBuffer, b
  <2>13. /\ OfPair(Buffer, pair)[t].pose = new[i].pose
         /\ new[i].pose = Compose(OfPair(OldBuffer, pair)[t].pose, Pose(10 * jobs + i))
    BY <2>3, <2>4, <2>11, <2>12 DEF t
  <2> QED BY <2>13 DEF Computed, t, pair
<1>2. Spec => []CombineFits
  <2>1. Init => CombineFits
    BY InitCombineFits
  <2>2. IInv /\ CombineFits /\ [Next]_vars => CombineFits'
    BY NextCombineFits
  <2> QED BY <2>1, <2>2, Inductive, PTL DEF Spec
<1> QED BY <1>1, <1>2, Inductive, PTL

(* load_tfs, load_bags and tf-add lose nothing that is stored, whatever    *)
(* frames and stamps they add and however lists and additions differ in    *)
(* being static (store_entities, mapit_add_tf).                            *)
THEOREM AddingLosesNothing == Spec => AddingKeeps
<1>1. ASSUME IInv, [Next]_vars
      PROVE  [job'.op \in {"load", "add"} =>
                \A p \in Pair : ToSet(stored[p].transforms) \subseteq ToSet(stored'[p].transforms)]_vars
  <2>1. CASE UNCHANGED vars
    BY <2>1
  <2>2. ASSUME ~Loses
        PROVE  \A p \in Pair : ToSet(stored[p].transforms) \subseteq ToSet(stored'[p].transforms)
    BY <2>2 DEF Loses, Holds
  <2>3. ASSUME NEW loaded \in Loaded, LoadTfs(WithPoses(loaded))
        PROVE  ~Loses
    BY <1>1, <2>3, LoadTfsKeeps
  <2>4. ASSUME NEW pair \in Pair, NEW static \in BOOLEAN, NEW inputs \in Inputs(static),
               RegisterAndAdd(pair, inputs, static)
        PROVE  ~Loses
    BY <1>1, <2>4, RegisterAndAddKeeps
  <2>5. ASSUME NEW pair \in Pair, NEW static \in BOOLEAN, NEW inputs \in Inputs(static),
               RegisterAndCombine(pair, inputs, static)
        PROVE  job'.op = "combine"
    BY <2>5 DEF RegisterAndCombine, Registers
  <2>6. ASSUME NEW pair \in Pair, DeleteList(pair)
        PROVE  job'.op = "delete"
    BY <2>6 DEF DeleteList, NoJob
  <2> QED BY <1>1, <2>1, <2>2, <2>3, <2>4, <2>5, <2>6 DEF Next
<1> QED BY <1>1, Inductive, PTL DEF Spec, AddingKeeps

=============================================================================
