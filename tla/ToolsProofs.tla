---------------------------- MODULE ToolsProofs ----------------------------
(***************************************************************************)
(* Proofs about Tools, for any processes, workspaces, paths and stamps: a  *)
(* commit comes after the one it was made from (Orders), a workspace moves *)
(* only from its commit to a child of it (HistoryGrows), and log, diff and *)
(* checkout2filesystem tell what is in the repository (Tells).             *)
(*                                                                         *)
(* A commit reads the file of its workspace first and writes it later.     *)
(* What it has read is still there (Fits), for the tools that may run      *)
(* beside it leave workspaces alone (Alone).  Two checkouts may both find  *)
(* that there is no workspace; the file of the first remains.              *)
(*                                                                         *)
(* The second part follows one tool at a time (Says).  The search of log   *)
(* holds one commit or none in its queue, the parent of what it printed    *)
(* last; what the search of diff has behind it has roots; what an export   *)
(* has not copied yet is still listed.  A commit that is made beside a log *)
(* adds to the history and takes nothing from it.  Listings, texts and the *)
(* ancestors of a commit are folds and recursive functions.                *)
(***************************************************************************)
EXTENDS Tools, WellFoundedInduction, SequenceTheorems, TLAPS

-----------------------------------------------------------------------------
(* Induction, as an argument about the least number for which something    *)
(* fails, and from it that there is the function which a fold stands for,  *)
(* and that what holds at each step holds at the end.                      *)

LEMMA Least ==
    ASSUME NEW T \in SUBSET Nat, T # {}
    PROVE  \E x \in T : \A y \in T : ~(y < x)
<1> DEFINE R == {ss \in Nat \X Nat : ss[1] < ss[2]}
<1>1. IsWellFoundedOn(R, Nat)
  BY NatLessThanWellFounded DEF OpToRel
<1>2. \A x, y \in Nat : y < x => <<y, x>> \in R
  OBVIOUS
<1> HIDE DEF R
<1>3. PICK x \in T : \A y \in T : ~(<<y, x>> \in R)
  BY <1>1, WFMin
<1> QED BY <1>2, <1>3

LEMMA Induction ==
    ASSUME NEW S, 0 \in S, \A n \in Nat : n \in S => n + 1 \in S
    PROVE  \A n \in Nat : n \in S
<1> SUFFICES ASSUME Nat \ S # {}
             PROVE  FALSE
  OBVIOUS
<1>1. PICK x \in Nat \ S : \A y \in Nat \ S : ~(y < x)
  BY Least
<1>2. x - 1 \in Nat /\ x - 1 < x /\ (x - 1) + 1 = x
  BY <1>1
<1> QED BY <1>1, <1>2

(* Min and Max are what their names say. *)
LEMMA MinIs ==
    ASSUME NEW s \in SUBSET Nat, s # {}
    PROVE  Min(s) \in s /\ \A y \in s : Min(s) <= y
<1>1. PICK x \in s : \A y \in s : ~(y < x)
  BY Least
<1>2. \A y \in s : x <= y
  BY <1>1
<1> QED BY <1>1, <1>2 DEF Min

LEMMA MaxIs ==
    ASSUME NEW n \in Nat, NEW s \in SUBSET (0..n), s # {}
    PROVE  Max(s) \in s /\ \A y \in s : Max(s) >= y
<1> DEFINE T == {n - x : x \in s}
<1>1. T \in SUBSET Nat /\ T # {}
  <2>1. \A x \in s : n - x \in Nat
    OBVIOUS
  <2> QED BY <2>1
<1> HIDE DEF T
<1>2. PICK m \in T : \A y \in T : ~(y < m)
  BY <1>1, Least
<1>3. PICK x \in s : m = n - x
  BY <1>2 DEF T
<1>4. ASSUME NEW y \in s
      PROVE  x >= y
  <2>1. n - y \in T /\ x \in Nat /\ y \in Nat
    BY <1>3 DEF T
  <2>2. ~(n - y < n - x)
    BY <1>2, <1>3, <2>1
  <2> QED BY <2>1, <2>2
<1> QED BY <1>3, <1>4 DEF Max

(* The function a fold of n elements stands for. *)
Folds(n, base, g, f) ==
    \A s \in SUBSET (1..n) : f[s] = IF s = {} THEN base ELSE g[Max(s)][f[s \ {Max(s)}]]

LEMMA FoldExists ==
    ASSUME NEW n \in Nat, NEW D, NEW base \in D, NEW g \in [1..n -> [D -> D]]
    PROVE  \E f \in [SUBSET (1..n) -> D] : Folds(n, base, g, f)
<1> DEFINE S == {m \in Nat : m > n \/ \E f \in [SUBSET (1..m) -> D] : Folds(m, base, g, f)}
<1>1. 0 \in S
  <2> DEFINE f == [s \in SUBSET (1..0) |-> base]
  <2>1. f \in [SUBSET (1..0) -> D] /\ Folds(0, base, g, f)
    BY DEF Folds
  <2> QED BY <2>1
<1>2. ASSUME NEW m \in Nat, m \in S
      PROVE  m + 1 \in S
  <2>0. m + 1 > n \/ m + 1 <= n
    OBVIOUS
  <2>1. CASE m + 1 > n
    BY <2>1
  <2>2. CASE m + 1 <= n
    <3>1. PICK f \in [SUBSET (1..m) -> D] : Folds(m, base, g, f)
      <4>1. ~(m + 1 > n) /\ ~(m > n)
        BY <2>2
      <4> QED BY <1>2, <4>1
    <3>2. m + 1 \in 1..n /\ g[m + 1] \in [D -> D]
      BY <2>2
    <3> DEFINE q == [s \in SUBSET (1..(m + 1)) |->
                       IF m + 1 \in s THEN g[m + 1][f[s \ {m + 1}]] ELSE f[s]]
    <3>3. ASSUME NEW s \in SUBSET (1..(m + 1))
          PROVE  /\ s \ {m + 1} \in SUBSET (1..m)
                 /\ m + 1 \notin s => s \in SUBSET (1..m)
      OBVIOUS
    <3>4. q \in [SUBSET (1..(m + 1)) -> D]
      <4>1. ASSUME NEW s \in SUBSET (1..(m + 1))
            PROVE  (IF m + 1 \in s THEN g[m + 1][f[s \ {m + 1}]] ELSE f[s]) \in D
        BY <3>1, <3>2, <3>3
      <4> QED BY <4>1
    <3>5. ASSUME NEW s \in SUBSET (1..(m + 1)), s # {}
          PROVE  q[s] = g[Max(s)][q[s \ {Max(s)}]]
      <4>1. CASE m + 1 \in s
        <5>1. s \in SUBSET (0..(m + 1)) /\ m + 1 \in Nat
          OBVIOUS
        <5>2. Max(s) = m + 1
          <6>1. Max(s) \in s /\ Max(s) >= m + 1
            BY ONLY <4>1, <5>1, <3>5, MaxIs
          <6>2. \A x \in s : x >= m + 1 => x = m + 1
            OBVIOUS
          <6> QED BY <6>1, <6>2
        <5>3. s \ {m + 1} \in SUBSET (1..(m + 1)) /\ m + 1 \notin s \ {m + 1}
          OBVIOUS
        <5>4. q[s \ {m + 1}] = f[s \ {m + 1}]
          BY <5>3
        <5>5. q[s] = g[m + 1][f[s \ {m + 1}]]
          BY <4>1
        <5> QED BY <5>2, <5>4, <5>5
      <4>2. CASE m + 1 \notin s
        <5>1. s \in SUBSET (1..m)
          BY <3>3, <4>2
        <5>2. f[s] = g[Max(s)][f[s \ {Max(s)}]]
          BY <3>1, <3>5, <5>1 DEF Folds
        <5>3. s \ {Max(s)} \in SUBSET (1..(m + 1)) /\ m + 1 \notin s \ {Max(s)}
          BY <4>2
        <5>4. q[s \ {Max(s)}] = f[s \ {Max(s)}] /\ q[s] = f[s]
          BY <4>2, <5>3
        <5> QED BY <5>2, <5>4
      <4> QED BY <4>1, <4>2
    <3>6. q[{}] = base
      <4>1. {} \in SUBSET (1..(m + 1)) /\ {} \in SUBSET (1..m) /\ m + 1 \notin {}
        OBVIOUS
      <4>2. f[{}] = base
        BY <3>1, <4>1 DEF Folds
      <4> QED BY <4>1, <4>2
    <3> HIDE DEF q
    <3>7. Folds(m + 1, base, g, q)
      BY <3>5, <3>6 DEF Folds
    <3> QED BY <3>4, <3>7
  <2> QED BY <2>0, <2>1, <2>2
<1> HIDE DEF S
<1>3. n \in S
  BY <1>1, <1>2, Induction
<1>4. ~(n > n)
  OBVIOUS
<1> QED BY <1>3, <1>4 DEF S

(* The same for what depends on how much is done. *)
LEMMA FoldGoesOn ==
    ASSUME NEW n \in Nat, NEW f, NEW P,
           <<0, f[{}]>> \in P,
           \A i \in 1..n : <<i - 1, f[1..(i - 1)]>> \in P => <<i, f[1..i]>> \in P
    PROVE  <<n, f[1..n]>> \in P
<1> DEFINE S == {m \in Nat : m > n \/ <<m, f[1..m]>> \in P}
<1>1. 0 \in S
  <2>1. 1..0 = {}
    OBVIOUS
  <2> QED BY <2>1
<1>2. ASSUME NEW m \in Nat, m \in S
      PROVE  m + 1 \in S
  <2>1. CASE m + 1 > n
    BY <2>1
  <2>2. CASE m + 1 <= n
    <3>1. m + 1 \in 1..n /\ (m + 1) - 1 = m /\ <<m, f[1..m]>> \in P
      BY <1>2, <2>2
    <3>2. <<m + 1, f[1..(m + 1)]>> \in P
      BY <3>1
    <3> QED BY <3>2
  <2> QED BY <2>1, <2>2
<1> HIDE DEF S
<1>3. n \in S
  BY <1>1, <1>2, Induction
<1>4. ~(n > n)
  OBVIOUS
<1> QED BY <1>3, <1>4 DEF S

(* The last element of what is done. *)
LEMMA FoldTurns ==
    ASSUME NEW n \in Nat, NEW i \in 1..n
    PROVE  /\ 1..i \in SUBSET (1..n) /\ 1..i # {}
           /\ Max(1..i) = i
           /\ (1..i) \ {i} = 1..(i - 1)
<1>1. 1..i \in SUBSET (0..n) /\ i \in 1..i
  OBVIOUS
<1>2. Max(1..i) \in 1..i /\ Max(1..i) >= i
  BY ONLY <1>1, n \in Nat, MaxIs
<1> QED BY <1>1, <1>2

LEMMA Elements ==
    ASSUME NEW E, NEW xs \in Seq(E)
    PROVE  /\ Len(xs) \in Nat /\ DOMAIN xs = 1..Len(xs)
           /\ \A i \in 1..Len(xs) : xs[i] \in E
           /\ ToSet(xs) \subseteq E
BY DEF ToSet

LEMMA Appended ==
    ASSUME NEW E, NEW xs \in Seq(E), NEW x \in E
    PROVE  /\ Append(xs, x) \in Seq(E)
           /\ Append(xs, x) # <<>>
           /\ ToSet(Append(xs, x)) = ToSet(xs) \union {x}
<1>1. Append(xs, x) \in Seq(E) /\ Append(xs, x) # <<>>
  BY AppendProperties
<1>2. /\ Len(xs) \in Nat /\ Len(Append(xs, x)) = Len(xs) + 1
      /\ \A i \in 1..Len(xs) : Append(xs, x)[i] = xs[i]
      /\ Append(xs, x)[Len(xs) + 1] = x
  BY AppendProperties
<1>3. DOMAIN xs = 1..Len(xs) /\ DOMAIN Append(xs, x) = 1..(Len(xs) + 1)
  BY <1>1, <1>2, Elements
<1>4. \A i \in 1..(Len(xs) + 1) : i \in 1..Len(xs) \/ i = Len(xs) + 1
  BY <1>2
<1>5. \A i \in 1..Len(xs) : i \in 1..(Len(xs) + 1)
  BY <1>2
<1>6. Len(xs) + 1 \in 1..(Len(xs) + 1)
  BY <1>2
<1> QED BY <1>1, <1>2, <1>3, <1>4, <1>5, <1>6 DEF ToSet

-----------------------------------------------------------------------------
(* The inductive invariant.                                                *)

Node ==
    {None, Tree} \union [is : {"entity"}, data : Data \union {NoData},
                         where : {"workspace", "store", "nofile"}]

(* Trees are at the paths of trees, and above everything that is there. *)
Whole(root) ==
    /\ \A p \in PathsOfWalk : IF p \in Folder THEN root[p] \in {None, Tree} ELSE root[p] # Tree
    /\ \A p, q \in PathsOfWalk : IsPrefix(p, q) /\ root[q] # None => root[p] # None

Root == {None} \union {root \in [PathsOfWalk -> Node] : Whole(root)}
File == [parent : 0..Len(commits), root : Root]

TypeOK ==
    /\ commits \in Seq([stamp : Time, parent : Nat, root : Root])
    /\ workspaces \in [Name -> {None} \union File]
    /\ DOMAIN tools = Tool

(* Each commit was made from an earlier one, or from none. *)
Orders == \A i \in Commit : commits[i].parent < i

Together(c, d) ==
    \/ c = "checkout" /\ d = "checkout"
    \/ c = "commit" /\ d = "log"
    \/ c = "log" /\ d = "commit"

Alone ==
    \A t, u \in Tool :
        t # u /\ tools[t].does.cmd # "nothing" /\ tools[u].does.cmd # "nothing"
        => Together(tools[t].does.cmd, tools[u].does.cmd)

(* What a tool keeps while it works. *)
Named == {"checkout", "commit", "execute", "export"}

Fits(t) ==
    LET c == tools[t].does
        name == tools[t].does.name
    IN  /\ {"does", "step"} \subseteq DOMAIN tools[t]
        /\ c.cmd = "nothing" => tools[t].step = "idle"
        /\ c.cmd \in Named => name \in Name
        /\ c.cmd = "checkout" => c.ref \in {Master, Unknown} \union Commit
        /\ Runs(t, "checkout", "create") => tools[t].parent \in 0..Len(commits)
        /\ Runs(t, "commit", "work") => workspaces[name] # None /\ tools[t].seen = workspaces[name]
        /\ Runs(t, "execute", "work") => workspaces[name] # None

IInv == TypeOK /\ Orders /\ Alone /\ \A t \in Tool : Fits(t)

-----------------------------------------------------------------------------
(* What a tool does next.                                                  *)

Others(t) ==
    /\ DOMAIN tools' = Tool
    /\ \A u \in Tool \ {t} : tools'[u] = tools[u]

(* A tool goes on with its command. *)
Moved(t, step) ==
    /\ Others(t)
    /\ {"does", "step"} \subseteq DOMAIN tools'[t]
    /\ tools'[t].does = tools[t].does
    /\ tools'[t].step = step

LEMMA SetTool ==
  ASSUME DOMAIN tools = Tool, NEW t \in Tool, NEW s, tools' = [tools EXCEPT ![t] = s]
  PROVE  Others(t) /\ tools'[t] = s
BY DEF Others

LEMMA GoesOn ==
  ASSUME DOMAIN tools = Tool, NEW t \in Tool, {"does", "step"} \subseteq DOMAIN tools[t],
         NEW state, "does" \notin DOMAIN state, Goes(t, state)
  PROVE  /\ Moved(t, IF "step" \in DOMAIN state THEN state.step ELSE tools[t].step)
         /\ \A f \in DOMAIN state : tools'[t][f] = state[f]
<1>1. Others(t) /\ tools'[t] = Over(state, tools[t]) BY SetTool DEF Goes
<1>2. /\ DOMAIN tools'[t] = DOMAIN state \union DOMAIN tools[t]
      /\ \A f \in DOMAIN tools'[t] :
            tools'[t][f] = IF f \in DOMAIN state THEN state[f] ELSE tools[t][f]
  BY <1>1 DEF Over
<1>3. \A f \in DOMAIN state : tools'[t][f] = state[f] BY <1>2
<1>4. "does" \in DOMAIN tools'[t] /\ "step" \in DOMAIN tools'[t] BY <1>2
<1>5. tools'[t]["does"] = tools[t]["does"] BY <1>2, <1>4
<1>6. tools'[t]["step"] = IF "step" \in DOMAIN state THEN state["step"] ELSE tools[t]["step"]
  BY <1>2, <1>4
<1> QED BY <1>1, <1>3, <1>4, <1>5, <1>6 DEF Moved

LEMMA EndsAt ==
  ASSUME DOMAIN tools = Tool, NEW t \in Tool, NEW how, "step" \in DOMAIN how,
         "does" \notin DOMAIN how, Ends(t, how)
  PROVE  Moved(t, how.step)
<1>1. Others(t) /\ tools'[t] = Over(how, [does |-> tools[t].does]) BY SetTool DEF Ends
<1>2. /\ DOMAIN tools'[t] = DOMAIN how \union {"does"}
      /\ \A f \in DOMAIN tools'[t] :
            tools'[t][f] = IF f \in DOMAIN how THEN how[f] ELSE [does |-> tools[t].does][f]
  BY <1>1 DEF Over
<1>3. tools'[t]["does"] = tools[t]["does"] /\ tools'[t]["step"] = how["step"] BY <1>2
<1> QED BY <1>1, <1>2, <1>3 DEF Moved

LEMMA ExitsAt ==
  ASSUME DOMAIN tools = Tool, NEW t \in Tool
  PROVE  /\ \A code, out : Exits(t, code, out) => Moved(t, "end")
         /\ Crashes(t) => Moved(t, "crash")
         /\ Aborts(t) => Moved(t, "abort")
<1>1. ASSUME NEW code, NEW out, Exits(t, code, out) PROVE Moved(t, "end")
  BY <1>1, EndsAt DEF Exits
<1>2. ASSUME Crashes(t) PROVE Moved(t, "crash") BY <1>2, EndsAt DEF Crashes
<1>3. ASSUME Aborts(t) PROVE Moved(t, "abort") BY <1>3, EndsAt DEF Aborts
<1> QED BY <1>1, <1>2, <1>3

-----------------------------------------------------------------------------
(* Tools that leave commits and workspaces alone.                          *)

LEMMA StaysAlone ==
  ASSUME Alone, NEW t \in Tool, NEW step, Moved(t, step)
  PROVE  Alone'
<1>1. \A u \in Tool : tools'[u].does = tools[u].does BY DEF Moved, Others
<1> QED BY <1>1 DEF Alone

LEMMA SameFits ==
  ASSUME NEW u \in Tool, Fits(u), tools'[u] = tools[u], UNCHANGED <<commits, workspaces>>
  PROVE  Fits(u)'
BY DEF Fits, Runs, Commit

LEMMA SameHistory ==
  ASSUME IInv, UNCHANGED <<commits, workspaces>>, DOMAIN tools' = Tool
  PROVE  TypeOK' /\ Orders'
BY DEF IInv, TypeOK, Orders, Commit, File

(* What none of the cases of Fits is about. *)
Quiet(cmd, step) ==
    /\ cmd # "nothing"
    /\ cmd = "checkout" => step # "create"
    /\ cmd \in {"commit", "execute"} => step # "work"

LEMMA QuietKeeps ==
  ASSUME IInv, NEW t \in Tool, NEW step, Moved(t, step), Quiet(tools[t].does.cmd, step),
         UNCHANGED <<commits, workspaces>>
  PROVE  IInv'
<1>1. TypeOK' /\ Orders' BY SameHistory DEF Moved, Others
<1>2. Alone' BY StaysAlone DEF IInv
<1>3. ASSUME NEW u \in Tool PROVE Fits(u)'
  <2>1. Fits(u) BY DEF IInv
  <2>2. CASE u # t BY <2>1, <2>2, SameFits DEF Moved, Others
  <2>3. CASE u = t BY <2>1, <2>3 DEF Moved, Quiet, Fits, Runs, Commit
  <2> QED BY <2>2, <2>3
<1> QED BY <1>1, <1>2, <1>3 DEF IInv

LEMMA Shape ==
  ASSUME IInv, NEW t \in Tool
  PROVE  /\ DOMAIN tools = Tool /\ {"does", "step"} \subseteq DOMAIN tools[t]
         /\ tools[t].step # "idle" => tools[t].does.cmd # "nothing"
         /\ Fits(t)
BY DEF IInv, TypeOK, Fits

LEMMA OpenKeeps ==
  ASSUME IInv, NEW t \in Tool, BadOptions(t) \/ NoRepository(t) \/ RemoteFails(t)
  PROVE  IInv'
<1>1. tools[t].step = "open" /\ UNCHANGED <<commits, workspaces>>
  BY DEF BadOptions, NoRepository, RemoteFails
<1>2. Exits(t, 1, None) \/ Crashes(t) BY DEF BadOptions, NoRepository, RemoteFails
<1>3. PICK step \in {"end", "crash"} : Moved(t, step) BY <1>2, Shape, ExitsAt
<1>4. Quiet(tools[t].does.cmd, step) BY <1>1, Shape DEF Quiet
<1> QED BY <1>1, <1>3, <1>4, QuietKeeps

LEMMA OpenWorkspaceKeeps ==
  ASSUME IInv, NEW t \in Tool, OpenWorkspace(t)
  PROVE  IInv'
<1> DEFINE c == tools[t].does
           state == [step |-> "work", seen |-> workspaces[c.name]]
<1>1. /\ tools[t].step = "open" /\ c.cmd \in {"commit", "execute", "export", "ls"}
      /\ UNCHANGED <<commits, workspaces>>
      /\ IF workspaces[c.name] = None THEN Exits(t, 1, None) ELSE Goes(t, state)
  BY DEF OpenWorkspace
<1>2. CASE workspaces[c.name] = None
  <2>1. Moved(t, "end") BY <1>1, <1>2, Shape, ExitsAt
  <2>2. Quiet(c.cmd, "end") BY <1>1 DEF Quiet
  <2> QED BY <1>1, <2>1, <2>2, QuietKeeps
<1>3. CASE workspaces[c.name] # None
  <2>1. DOMAIN state = {"step", "seen"} /\ state.step = "work" /\ state.seen = workspaces[c.name]
    OBVIOUS
  <2> HIDE DEF state
  <2>2. Goes(t, state) BY <1>1, <1>3
  <2>3. Moved(t, "work") /\ tools'[t].seen = workspaces[c.name]
    BY <2>1, <2>2, GoesOn, Shape
  <2>4. TypeOK' /\ Orders' BY <1>1, <2>3, SameHistory DEF Moved, Others
  <2>5. Alone' BY <2>3, StaysAlone DEF IInv
  <2>6. ASSUME NEW u \in Tool PROVE Fits(u)'
    <3>1. Fits(u) BY DEF IInv
    <3>2. CASE u # t BY <1>1, <2>3, <3>1, <3>2, SameFits DEF Moved, Others
    <3>3. CASE u = t BY <1>1, <1>3, <2>3, <3>1, <3>3 DEF Moved, Fits, Runs, Commit
    <3> QED BY <3>2, <3>3
  <2> QED BY <2>4, <2>5, <2>6 DEF IInv
<1> QED BY <1>2, <1>3

LEMMA LsKeeps ==
  ASSUME IInv, NEW t \in Tool, LsWorks(t) \/ LsAllWorks(t)
  PROVE  IInv'
<1>1. Runs(t, "ls", "work") \/ Runs(t, "lsAll", "open") BY DEF LsWorks, LsAllWorks
<1>2. UNCHANGED <<commits, workspaces>> BY DEF LsWorks, LsAllWorks
<1>3. \E out : Exits(t, 0, out) BY DEF LsWorks, LsAllWorks
<1>4. Moved(t, "end") BY <1>3, Shape, ExitsAt
<1>5. Quiet(tools[t].does.cmd, "end") BY <1>1 DEF Quiet, Runs
<1> QED BY <1>2, <1>4, <1>5, QuietKeeps

LEMMA LogKeeps ==
  ASSUME IInv, NEW t \in Tool, LogOpens(t) \/ LogSearches(t)
  PROVE  IInv'
<1>1. tools[t].does.cmd = "log" /\ UNCHANGED <<commits, workspaces>>
  BY DEF LogOpens, LogSearches, Runs
<1>2. \E step : Moved(t, step)
  <2>1. CASE \E code, out : Exits(t, code, out) BY <2>1, Shape, ExitsAt
  <2>2. ASSUME NEW queue, NEW out, Goes(t, [step |-> "search", queue |-> queue, out |-> out])
        PROVE  \E step : Moved(t, step)
    BY <2>2, Shape, GoesOn
  <2>3. ASSUME NEW queue, NEW out, Goes(t, [queue |-> queue, out |-> out])
        PROVE  \E step : Moved(t, step)
    BY <2>3, Shape, GoesOn
  <2>4. CASE LogOpens(t) BY <2>1, <2>2, <2>4 DEF LogOpens
  <2>5. CASE LogSearches(t) BY <2>1, <2>3, <2>5 DEF LogSearches
  <2> QED BY <2>4, <2>5
<1>3. \A step : Quiet("log", step) BY DEF Quiet
<1> QED BY <1>1, <1>2, <1>3, QuietKeeps

LEMMA DiffKeeps ==
  ASSUME IInv, NEW t \in Tool, DiffOpens(t) \/ DiffSearches(t)
  PROVE  IInv'
<1>1. tools[t].does.cmd = "diff" /\ UNCHANGED <<commits, workspaces>>
  BY DEF DiffOpens, DiffSearches, Runs
<1>2. \E step : Moved(t, step)
  <2>1. CASE Aborts(t) \/ \E code, out : Exits(t, code, out) BY <2>1, Shape, ExitsAt
  <2>2. ASSUME NEW step, NEW id, Goes(t, [step |-> step, visits |-> id])
        PROVE  \E s : Moved(t, s)
    BY <2>2, Shape, GoesOn
  <2>3. ASSUME NEW id, Goes(t, [visits |-> id]) PROVE \E s : Moved(t, s)
    BY <2>3, Shape, GoesOn
  <2>4. CASE DiffOpens(t) BY <2>1, <2>2, <2>4 DEF DiffOpens
  <2>5. CASE DiffSearches(t)
    <3> DEFINE commit == commits[tools[t].visits]
    <3>1. CASE ~NeedsRoot(commit) BY <2>1, <2>5, <3>1 DEF DiffSearches
    <3>2. CASE NeedsRoot(commit) /\ commit.parent # 0 BY <2>3, <2>5, <3>2 DEF DiffSearches
    <3>3. CASE NeedsRoot(commit) /\ commit.parent = 0
      BY <2>1, <2>2, <2>5, <3>3 DEF DiffSearches
    <3> QED BY <3>1, <3>2, <3>3
  <2> QED BY <2>4, <2>5
<1>3. \A step : Quiet("diff", step) BY DEF Quiet
<1> QED BY <1>1, <1>2, <1>3, QuietKeeps

LEMMA ExportKeeps ==
  ASSUME IInv, NEW t \in Tool,
         ExportStarts(t) \/ ExportMakesTree(t) \/ ExportCopies(t) \/ ExportEnds(t)
  PROVE  IInv'
<1>1. tools[t].does.cmd = "export" /\ UNCHANGED <<commits, workspaces>>
  BY DEF ExportStarts, ExportMakesTree, ExportCopies, ExportEnds, Runs
<1>2. (\E step : Moved(t, step)) \/ UNCHANGED tools
  <2>1. CASE ExportEnds(t) BY <2>1, Shape, ExitsAt DEF ExportEnds
  <2>2. CASE ExportStarts(t)
    <3>1. ASSUME NEW there, NEW todo, Goes(t, [step |-> "files", found |-> there, there |-> there,
                                               out |-> NoFiles, todo |-> todo])
          PROVE  \E step : Moved(t, step)
      BY <3>1, Shape, GoesOn
    <3> QED BY <2>2, <3>1 DEF ExportStarts
  <2>3. CASE ExportMakesTree(t)
    <3>1. ASSUME NEW todo, Goes(t, [there |-> TRUE, todo |-> todo]) PROVE \E step : Moved(t, step)
      BY <3>1, Shape, GoesOn
    <3> QED BY <2>3, <3>1 DEF ExportMakesTree
  <2>4. CASE ExportCopies(t)
    <3>1. ASSUME NEW todo, NEW out, Goes(t, [todo |-> todo, out |-> out])
          PROVE  \E step : Moved(t, step)
      BY <3>1, Shape, GoesOn
    <3>2. CASE Crashes(t)
      BY <3>2, Shape, ExitsAt
    <3> QED BY <2>4, <3>1, <3>2 DEF ExportCopies
  <2> QED BY <2>1, <2>2, <2>3, <2>4
<1>3. \A step : Quiet("export", step) BY DEF Quiet
<1>4. CASE \E step : Moved(t, step) BY <1>1, <1>3, <1>4, QuietKeeps
<1>5. CASE UNCHANGED tools
  <2>1. TypeOK' /\ Orders' BY <1>1, <1>5, SameHistory DEF IInv, TypeOK
  <2> QED BY <1>1, <1>5, <2>1, SameFits DEF IInv, Alone
<1> QED BY <1>2, <1>4, <1>5

-----------------------------------------------------------------------------
(* A tool is started, and is gone.                                         *)

LEMMA InvokeKeeps ==
  ASSUME IInv, NEW t \in Tool, Invoke(t)
  PROVE  IInv'
<1>1. tools[t] = Idle /\ UNCHANGED <<commits, workspaces>> BY DEF Invoke
<1>2. PICK c \in Commands :
        /\ \A u \in Tool \ {t} : tools[u] = Idle \/ Beside(c, tools[u].does)
        /\ tools' = [tools EXCEPT ![t] = [does |-> c, step |-> "open"]]
  BY DEF Invoke
<1>3. Others(t) /\ tools'[t] = [does |-> c, step |-> "open"] BY <1>2, SetTool, Shape
<1>4. TypeOK' /\ Orders' BY <1>1, <1>3, SameHistory DEF Others
<1>5. Alone'
  <2>1. ASSUME NEW u \in Tool \ {t}, tools[u].does.cmd # "nothing"
        PROVE  Together(c.cmd, tools[u].does.cmd) /\ Together(tools[u].does.cmd, c.cmd)
    <3>1. tools[u] # Idle BY <2>1 DEF Idle
    <3>2. Beside(c, tools[u].does) BY <1>2, <3>1
    <3> QED BY <3>2 DEF Beside, Together
  <2>2. tools'[t].does = c BY <1>3
  <2>3. \A u \in Tool \ {t} : tools'[u].does = tools[u].does BY <1>3 DEF Others
  <2> QED BY <2>1, <2>2, <2>3 DEF IInv, Alone
<1>6. ASSUME NEW u \in Tool PROVE Fits(u)'
  <2>1. Fits(u) BY DEF IInv
  <2>2. CASE u # t BY <1>1, <1>3, <2>1, <2>2, SameFits DEF Others
  <2>3. CASE u = t
    <3>1. /\ c.cmd # "nothing"
          /\ c.cmd \in Named => c.name \in Name
          /\ c.cmd = "checkout" => c.ref \in {Master, Unknown} \union Commit
      BY DEF Commands, Named
    <3> QED BY <1>1, <1>3, <2>3, <3>1 DEF Fits, Runs, Commit
  <2> QED BY <2>2, <2>3
<1> QED BY <1>4, <1>5, <1>6 DEF IInv

LEMMA IsGoneKeeps ==
  ASSUME IInv, NEW t \in Tool, IsGone(t)
  PROVE  IInv'
<1>1. tools' = [tools EXCEPT ![t] = Idle] /\ UNCHANGED <<commits, workspaces>> BY DEF IsGone
<1>2. Others(t) /\ tools'[t] = Idle BY <1>1, SetTool, Shape
<1>3. TypeOK' /\ Orders' BY <1>1, <1>2, SameHistory DEF Others
<1>4. Alone'
  <2>1. tools'[t].does.cmd = "nothing" BY <1>2 DEF Idle
  <2>2. \A u \in Tool \ {t} : tools'[u].does = tools[u].does BY <1>2 DEF Others
  <2> QED BY <2>1, <2>2 DEF IInv, Alone
<1>5. ASSUME NEW u \in Tool PROVE Fits(u)'
  <2>1. Fits(u) BY DEF IInv
  <2>2. CASE u # t BY <1>1, <1>2, <2>1, <2>2, SameFits DEF Others
  <2>3. CASE u = t BY <1>2, <2>3 DEF Fits, Runs, Idle, Named
  <2> QED BY <2>2, <2>3
<1> QED BY <1>3, <1>4, <1>5 DEF IInv

-----------------------------------------------------------------------------
(* checkout, commit and execute.                                           *)

(* Nobody who looks into the file of a workspace runs beside them. *)
LEMMA OthersFit ==
  ASSUME IInv, NEW t \in Tool, NEW step, Moved(t, step), tools[t].does.cmd \in Named,
         Len(commits') \in Nat, Len(commits') >= Len(commits)
  PROVE  \A u \in Tool \ {t} : Fits(u)'
<1> SUFFICES ASSUME NEW u \in Tool \ {t} PROVE Fits(u)' OBVIOUS
<1>1. Fits(u) /\ tools'[u] = tools[u] BY DEF IInv, Moved, Others
<1>2. tools[u].does.cmd \in {"nothing", "checkout", "log"}
  <2>1. CASE tools[u].does.cmd # "nothing"
    <3>1. tools[t].does.cmd # "nothing" BY DEF Named
    <3>2. Together(tools[t].does.cmd, tools[u].does.cmd) BY <2>1, <3>1 DEF IInv, Alone
    <3> QED BY <3>2 DEF Together, Named
  <2> QED BY <2>1
<1>3. Len(commits) \in Nat BY DEF IInv, TypeOK
<1>4. 1..Len(commits) \subseteq 1..Len(commits') /\ 0..Len(commits) \subseteq 0..Len(commits')
  BY <1>3
<1> QED BY <1>1, <1>2, <1>4 DEF Fits, Runs, Commit

LEMMA CheckoutLooksKeeps ==
  ASSUME IInv, NEW t \in Tool, CheckoutLooks(t)
  PROVE  IInv'
<1> DEFINE c == tools[t].does
           parent == IF c.ref = Master THEN 0 ELSE c.ref
           state == [step |-> "create", parent |-> parent]
<1>1. c.cmd = "checkout" /\ UNCHANGED <<commits, workspaces>> BY DEF CheckoutLooks, Runs
<1>2. CASE workspaces[c.name] # None \/ c.ref = Unknown
  <2>1. Exits(t, 1, None) BY <1>2 DEF CheckoutLooks
  <2>2. Moved(t, "end") BY <2>1, Shape, ExitsAt
  <2>3. Quiet(c.cmd, "end") BY <1>1 DEF Quiet
  <2> QED BY <1>1, <2>2, <2>3, QuietKeeps
<1>3. CASE ~(workspaces[c.name] # None \/ c.ref = Unknown)
  <2>1. parent \in 0..Len(commits)
    <3>1. Len(commits) \in Nat BY DEF IInv, TypeOK
    <3>2. c.ref \in {Master, Unknown} \union 1..Len(commits) BY <1>1 DEF IInv, Fits, Commit
    <3> QED BY <1>3, <3>1, <3>2
  <2>2. Goes(t, state) BY <1>3 DEF CheckoutLooks
  <2>3. DOMAIN state = {"step", "parent"} /\ state.step = "create" /\ state.parent = parent
    OBVIOUS
  <2> HIDE DEF state, parent
  <2>4. Moved(t, "create") /\ tools'[t].parent = parent BY <2>2, <2>3, GoesOn, Shape
  <2>5. TypeOK' /\ Orders' BY <1>1, <2>4, SameHistory DEF Moved, Others
  <2>6. Alone' BY <2>4, StaysAlone DEF IInv
  <2>7. ASSUME NEW u \in Tool PROVE Fits(u)'
    <3>1. Fits(u) BY DEF IInv
    <3>2. CASE u # t BY <1>1, <2>4, <3>1, <3>2, SameFits DEF Moved, Others
    <3>3. CASE u = t BY <1>1, <2>1, <2>4, <3>1, <3>3 DEF Moved, Fits, Runs, Commit
    <3> QED BY <3>2, <3>3
  <2> QED BY <2>5, <2>6, <2>7 DEF IInv
<1> QED BY <1>2, <1>3

LEMMA CheckoutCreatesKeeps ==
  ASSUME IInv, NEW t \in Tool, CheckoutCreates(t)
  PROVE  IInv'
<1> DEFINE name == tools[t].does.name
           content == [parent |-> tools[t].parent, root |-> None]
<1>1. /\ Runs(t, "checkout", "create") /\ Exits(t, 0, None) /\ UNCHANGED commits
      /\ workspaces' = [workspaces EXCEPT ![name] = IF @ = None THEN content ELSE @]
  BY DEF CheckoutCreates, CreateFile
<1>2. name \in Name /\ tools[t].parent \in 0..Len(commits)
  BY <1>1 DEF IInv, Fits, Runs, Named
<1>3. Moved(t, "end") BY <1>1, Shape, ExitsAt
<1>4. TypeOK'
  <2>1. content \in File BY <1>2 DEF File, Root
  <2> HIDE DEF content
  <2>2. workspaces' \in [Name -> {None} \union File] BY <1>1, <1>2, <2>1 DEF IInv, TypeOK
  <2> QED BY <1>1, <1>3, <2>2 DEF IInv, TypeOK, File, Moved, Others
<1>5. Orders' BY <1>1 DEF IInv, Orders, Commit
<1>6. Alone' BY <1>3, StaysAlone DEF IInv
<1>7. Len(commits') \in Nat /\ Len(commits') >= Len(commits) BY <1>1 DEF IInv, TypeOK
<1>8. tools[t].does.cmd = "checkout" BY <1>1 DEF Runs
<1>9. \A u \in Tool \ {t} : Fits(u)' BY <1>3, <1>7, <1>8, OthersFit DEF Named
<1>10. Fits(t)' BY <1>1, <1>3, <1>8, Shape DEF Fits, Moved, Runs, Commit
<1> QED BY <1>4, <1>5, <1>6, <1>9, <1>10 DEF IInv

LEMMA PersistentKeeps ==
  ASSUME NEW root \in Root
  PROVE  PersistentRoot(root) \in Root
<1>1. ASSUME NEW node \in Node
      PROVE  /\ Persistent(node) \in Node
             /\ node = None => Persistent(node) = None
             /\ Persistent(node) = Tree <=> node = Tree
  <2>1. CASE IsEntity(node) BY <2>1 DEF IsEntity, Persistent, Node, Tree
  <2>2. CASE ~IsEntity(node) BY <2>2 DEF Persistent, IsEntity
  <2> QED BY <2>1, <2>2
<1>2. CASE root # None
  <2> DEFINE new == [p \in PathsOfWalk |-> Persistent(root[p])]
  <2>1. root \in [PathsOfWalk -> Node] /\ Whole(root) BY <1>2 DEF Root
  <2>2. \A p \in PathsOfWalk : new[p] = Persistent(root[p]) /\ root[p] \in Node BY <2>1
  <2>3. new \in [PathsOfWalk -> Node] BY <1>1, <2>1
  <2> HIDE DEF new
  <2>4. ASSUME NEW p \in PathsOfWalk
        PROVE  IF p \in Folder THEN new[p] \in {None, Tree} ELSE new[p] # Tree
    BY <1>1, <2>1, <2>2 DEF Whole
  <2>5. ASSUME NEW p \in PathsOfWalk, NEW q \in PathsOfWalk, IsPrefix(p, q), new[q] # None
        PROVE  new[p] # None
    <3>1. root[p] # None BY <1>1, <2>1, <2>2, <2>5 DEF Whole
    <3>2. CASE p = q BY <2>5, <3>2
    <3>3. CASE p # q
      <4>1. p \in Folder BY <2>5, <3>3, WalkAssumption DEF IsStrictPrefix
      <4>2. root[p] = Tree BY <2>1, <3>1, <4>1 DEF Whole
      <4> QED BY <1>1, <2>2, <4>2, NoneAssumption
    <3> QED BY <3>2, <3>3
  <2>6. new \in Root BY <2>3, <2>4, <2>5 DEF Root, Whole
  <2> QED BY <1>2, <2>6 DEF PersistentRoot, new
<1> QED BY <1>2 DEF PersistentRoot, Root

(* What is below what is below a path is below that path. *)
LEMMA PrefixIs ==
  ASSUME NEW p \in PathsOfWalk, NEW q \in PathsOfWalk
  PROVE  /\ Len(p) \in Nat \ {0} /\ Len(q) \in Nat
         /\ IsPrefix(p, q) <=> Len(p) <= Len(q) /\ \A i \in 1..Len(p) : p[i] = q[i]
         /\ p = q <=> Len(p) = Len(q) /\ \A i \in 1..Len(p) : p[i] = q[i]
<1>1. p \in Seq(Segment) /\ q \in Seq(Segment) /\ p # <<>> BY WalkAssumption
<1>2. Len(p) \in Nat \ {0} /\ Len(q) \in Nat BY <1>1, LenProperties, EmptySeq
<1>3. SubSeq(p, 1, Len(p)) = [i \in 1..Len(p) |-> p[i]] BY <1>1, <1>2
<1>4. ASSUME Len(p) <= Len(q) PROVE SubSeq(q, 1, Len(p)) = [i \in 1..Len(p) |-> q[i]]
  BY <1>1, <1>2, <1>4
<1>5. p = [i \in 1..Len(p) |-> p[i]] /\ q = [i \in 1..Len(q) |-> q[i]] BY <1>1
<1>6. [i \in 1..Len(p) |-> p[i]] = [i \in 1..Len(p) |-> q[i]] <=> \A i \in 1..Len(p) : p[i] = q[i]
  OBVIOUS
<1>7. IsPrefix(p, q) <=> Len(p) <= Len(q) /\ \A i \in 1..Len(p) : p[i] = q[i]
  BY <1>3, <1>4, <1>6 DEF IsPrefix
<1> QED BY <1>2, <1>5, <1>6, <1>7

LEMMA PrefixOfPrefix ==
  ASSUME NEW p \in PathsOfWalk, NEW q \in PathsOfWalk, NEW r \in PathsOfWalk,
         IsPrefix(p, q), IsStrictPrefix(q, r)
  PROVE  IsStrictPrefix(p, r)
<1>1. IsPrefix(p, r) BY PrefixIs DEF IsStrictPrefix
<1>2. p # r
  <2>1. SUFFICES ASSUME p = r PROVE FALSE OBVIOUS
  <2>2. Len(q) = Len(r) /\ \A i \in 1..Len(q) : q[i] = r[i] BY <2>1, PrefixIs DEF IsStrictPrefix
  <2> QED BY <2>2, PrefixIs DEF IsStrictPrefix
<1> QED BY <1>1, <1>2 DEF IsStrictPrefix

(* An operator writes what its entity is in below trees. *)
LEMMA WithNodeKeeps ==
  ASSUME NEW root \in [PathsOfWalk -> Node], Whole(root),
         NEW path \in PathsOfWalk \ Folder, NEW node \in Node \ {Tree}
  PROVE  WithNode(root, path, node) \in Root
<1> DEFINE new == WithNode(root, path, node)
<1>1. new \in [PathsOfWalk -> Node] BY DEF WithNode, Node
<1>2. \A p \in PathsOfWalk :
        new[p] = IF p = path THEN node
                 ELSE IF p \in Folder /\ IsStrictPrefix(p, path) THEN Tree ELSE root[p]
  BY DEF WithNode
<1> HIDE DEF new
<1>3. ASSUME NEW p \in PathsOfWalk
      PROVE  IF p \in Folder THEN new[p] \in {None, Tree} ELSE new[p] # Tree
  BY <1>2 DEF Whole
<1>4. ASSUME NEW p \in PathsOfWalk, NEW q \in PathsOfWalk, IsPrefix(p, q), new[q] # None
      PROVE  new[p] # None
  <2>1. CASE p = q BY <1>4, <2>1
  <2>2. CASE p # q
    <3>1. p \in Folder /\ p # path BY <1>4, <2>2, WalkAssumption DEF IsStrictPrefix
    <3>2. CASE IsStrictPrefix(p, path) BY <1>2, <3>1, <3>2, NoneAssumption
    <3>3. CASE ~IsStrictPrefix(p, path)
      <4>1. q # path BY <1>4, <2>2, <3>3 DEF IsStrictPrefix
      <4>2. ~IsStrictPrefix(q, path) BY <1>4, <3>3, PrefixOfPrefix
      <4>3. root[q] # None BY <1>2, <1>4, <4>1, <4>2
      <4>4. root[p] # None BY <1>4, <4>3 DEF Whole
      <4> QED BY <1>2, <3>1, <3>3, <4>4
    <3> QED BY <3>2, <3>3
  <2> QED BY <2>1, <2>2
<1>5. new \in Root BY <1>1, <1>3, <1>4 DEF Root, Whole
<1> QED BY <1>5 DEF new

(* What a commit makes, and of what. *)
LEMMA Commits ==
  ASSUME IInv, NEW t \in Tool, CommitWorks(t)
  PROVE  /\ tools[t].does.cmd = "commit" /\ Moved(t, "end")
         /\ tools[t].does.name \in Name
         /\ workspaces[tools[t].does.name] \in File
         /\ \E commit \in [stamp : Time, parent : Nat, root : Root], id \in 1..Len(commits') :
               /\ commit.parent = workspaces[tools[t].does.name].parent
               /\ commits' = WithCommit(commit)
               /\ commits'[id] = commit
               /\ workspaces' = [workspaces EXCEPT ![tools[t].does.name] =
                                    [parent |-> id, root |-> commit.root]]
<1> DEFINE name == tools[t].does.name
<1>1. Runs(t, "commit", "work") BY DEF CommitWorks
<1>2. /\ name \in Name /\ workspaces[name] # None /\ tools[t].seen = workspaces[name]
  BY <1>1 DEF IInv, Fits, Runs, Named
<1>3. workspaces[name] \in File BY <1>2 DEF IInv, TypeOK
<1>4. PICK stamp \in Time :
        LET commit == CommitOf(stamp, tools[t].seen)
            id == CHOOSE i \in DOMAIN WithCommit(commit) : WithCommit(commit)[i] = commit
        IN  /\ commits' = WithCommit(commit)
            /\ workspaces' = [workspaces EXCEPT ![name] = [parent |-> id, root |-> commit.root]]
            /\ Exits(t, 0, None)
  BY DEF CommitWorks
<1> DEFINE commit == CommitOf(stamp, tools[t].seen)
           id == CHOOSE i \in DOMAIN WithCommit(commit) : WithCommit(commit)[i] = commit
<1>5. commit \in [stamp : Time, parent : Nat, root : Root] /\ commit.parent = workspaces[name].parent
  <2>1. workspaces[name].parent \in Nat /\ workspaces[name].root \in Root BY <1>3 DEF File
  <2>2. PersistentRoot(workspaces[name].root) \in Root BY <2>1, PersistentKeeps
  <2> QED BY <1>2, <2>1, <2>2 DEF CommitOf
<1> HIDE DEF commit
<1>6. /\ WithCommit(commit) \in Seq([stamp : Time, parent : Nat, root : Root])
      /\ \E i \in DOMAIN WithCommit(commit) : WithCommit(commit)[i] = commit
  <2>1. commits \in Seq([stamp : Time, parent : Nat, root : Root]) BY DEF IInv, TypeOK
  <2>2. CASE commit \in Range(commits) BY <2>1, <2>2 DEF WithCommit, Range
  <2>3. CASE commit \notin Range(commits)
    <3>1. WithCommit(commit) = Append(commits, commit) BY <2>3 DEF WithCommit
    <3>2. /\ Append(commits, commit) \in Seq([stamp : Time, parent : Nat, root : Root])
          /\ Len(commits) + 1 \in DOMAIN Append(commits, commit)
          /\ Append(commits, commit)[Len(commits) + 1] = commit
      BY <1>5, <2>1
    <3> QED BY <3>1, <3>2
  <2> QED BY <2>2, <2>3
<1>7. id \in DOMAIN WithCommit(commit) /\ WithCommit(commit)[id] = commit BY <1>6
<1> HIDE DEF id
<1>8. /\ commits' = WithCommit(commit)
      /\ workspaces' = [workspaces EXCEPT ![name] = [parent |-> id, root |-> commit.root]]
      /\ Exits(t, 0, None)
  BY <1>4 DEF commit, id
<1>9. id \in 1..Len(commits') /\ commits'[id] = commit
  <2>1. commits' \in Seq([stamp : Time, parent : Nat, root : Root]) BY <1>6, <1>8
  <2> QED BY <1>7, <1>8, <2>1
<1>10. Moved(t, "end") BY <1>8, Shape, ExitsAt
<1> QED BY <1>1, <1>2, <1>3, <1>5, <1>8, <1>9, <1>10 DEF Runs

(* Commits are only added. *)
LEMMA CommitGrows ==
  ASSUME IInv, NEW commit \in [stamp : Time, parent : Nat, root : Root],
         commits' = WithCommit(commit)
  PROVE  /\ commits' \in Seq([stamp : Time, parent : Nat, root : Root])
         /\ Len(commits') \in Nat /\ Len(commits') >= Len(commits)
         /\ \A i \in 1..Len(commits') :
               \/ i \in 1..Len(commits) /\ commits'[i] = commits[i]
               \/ i = Len(commits) + 1 /\ commits'[i] = commit
<1> DEFINE Made == [stamp : Time, parent : Nat, root : Root]
<1>1. commits \in Seq(Made) /\ Len(commits) \in Nat BY DEF IInv, TypeOK
<1>2. CASE commit \in Range(commits) BY <1>1, <1>2 DEF WithCommit
<1>3. CASE commit \notin Range(commits)
  <2>1. commits' = Append(commits, commit) BY <1>3 DEF WithCommit
  <2>2. /\ commits' \in Seq(Made) /\ Len(commits') = Len(commits) + 1
        /\ commits'[Len(commits) + 1] = commit
        /\ \A i \in 1..Len(commits) : commits'[i] = commits[i]
    BY <1>1, <2>1
  <2> QED BY <1>1, <2>1, <2>2
<1> QED BY <1>2, <1>3

LEMMA CommitKeeps ==
  ASSUME IInv, NEW t \in Tool, CommitWorks(t)
  PROVE  IInv'
<1> DEFINE name == tools[t].does.name
           Made == [stamp : Time, parent : Nat, root : Root]
<1>1. /\ tools[t].does.cmd = "commit" /\ Moved(t, "end")
      /\ name \in Name /\ workspaces[name] \in File
  BY Commits
<1>2. PICK commit \in Made, id \in 1..Len(commits') :
        /\ commit.parent = workspaces[name].parent
        /\ commits' = WithCommit(commit)
        /\ commits'[id] = commit
        /\ workspaces' = [workspaces EXCEPT ![name] = [parent |-> id, root |-> commit.root]]
  BY Commits
<1>3. commits \in Seq(Made) /\ Len(commits) \in Nat BY DEF IInv, TypeOK
<1>4. /\ commits' \in Seq(Made) /\ Len(commits') \in Nat /\ Len(commits') >= Len(commits)
      /\ \A i \in 1..Len(commits') :
            \/ i \in 1..Len(commits) /\ commits'[i] = commits[i]
            \/ i = Len(commits) + 1 /\ commits'[i] = commit
  BY <1>2, CommitGrows
<1>5. commit.parent \in 0..Len(commits) /\ commit.root \in Root BY <1>1, <1>2 DEF File
<1>6. TypeOK'
  <2>1. 0..Len(commits) \subseteq 0..Len(commits') BY <1>3, <1>4
  <2>2. File \subseteq File' BY <2>1 DEF File
  <2>3. [parent |-> id, root |-> commit.root] \in File' BY <1>4, <1>5 DEF File
  <2>4. workspaces \in [Name -> {None} \union File'] BY <2>2 DEF IInv, TypeOK
  <2>5. workspaces' \in [Name -> {None} \union File'] BY <1>1, <1>2, <2>3, <2>4
  <2> QED BY <1>1, <1>4, <2>5 DEF TypeOK, Moved, Others
<1>7. Orders'
  <2>1. SUFFICES ASSUME NEW i \in 1..Len(commits') PROVE commits'[i].parent < i
    BY DEF Orders, Commit
  <2>2. CASE i \in 1..Len(commits) /\ commits'[i] = commits[i]
    BY <2>2 DEF IInv, Orders, Commit
  <2>3. CASE i = Len(commits) + 1 /\ commits'[i] = commit BY <1>3, <1>5, <2>3
  <2> QED BY <1>4, <2>2, <2>3
<1>8. Alone' BY <1>1, StaysAlone DEF IInv
<1>9. \A u \in Tool \ {t} : Fits(u)' BY <1>1, <1>4, OthersFit DEF Named
<1>10. Fits(t)' BY <1>1, Shape DEF Fits, Moved, Runs
<1> QED BY <1>6, <1>7, <1>8, <1>9, <1>10 DEF IInv

LEMMA ExecuteKeeps ==
  ASSUME IInv, NEW t \in Tool, ExecuteWorks(t)
  PROVE  /\ IInv'
         /\ \A n \in Name : workspaces[n] # None => workspaces'[n].parent = workspaces[n].parent
<1> DEFINE name == tools[t].does.name
           root == RootOf(workspaces[name])
<1>1. Runs(t, "execute", "work") /\ UNCHANGED commits BY DEF ExecuteWorks
<1>2. \E code \in {0, 1} : Exits(t, code, None) BY DEF ExecuteWorks
<1>3. Moved(t, "end") BY <1>2, Shape, ExitsAt
<1>4. name \in Name /\ workspaces[name] \in File
  BY <1>1 DEF IInv, TypeOK, Fits, Runs, Named
<1>5. root \in [PathsOfWalk -> Node] /\ Whole(root)
  <2>1. CASE workspaces[name].root = None
    <3>1. root = [p \in PathsOfWalk |-> None] BY <2>1 DEF RootOf
    <3> HIDE DEF root
    <3> QED BY <3>1, NoneAssumption DEF Whole, Node
  <2>2. CASE workspaces[name].root # None BY <1>4, <2>2 DEF RootOf, File, Root
  <2> QED BY <2>1, <2>2
<1>6. /\ workspaces' \in [Name -> {None} \union File]
      /\ \A n \in Name : workspaces[n] # None => workspaces'[n].parent = workspaces[n].parent
  <2>1. CASE UNCHANGED workspaces BY <2>1 DEF IInv, TypeOK
  <2>2. ASSUME NEW p \in PathsOfWalk \ Folder, NEW node \in Written(root[p]),
               workspaces' = [workspaces EXCEPT ![name].root = WithNode(root, p, node)]
        PROVE  /\ workspaces' \in [Name -> {None} \union File]
               /\ \A n \in Name : workspaces[n] # None => workspaces'[n].parent = workspaces[n].parent
    <3>1. node \in Node \ {Tree}
      <4> USE NoneAssumption DEF Tree
      <4>1. root[p] \in Node BY <1>5, <2>2
      <4>2. CASE node \in {EntityOf(d, "workspace") : d \in Data} BY <4>2 DEF EntityOf, Node
      <4>3. CASE IsEntity(root[p])
                 /\ node \in {None, IF root[p].where = "workspace" THEN root[p]
                                    ELSE EntityOf(root[p].data, "nofile")}
        <5>1. CASE node = None BY <5>1 DEF Node
        <5>2. CASE node = root[p] BY <4>1, <4>3, <5>2 DEF IsEntity
        <5>3. CASE node = EntityOf(root[p].data, "nofile")
          <6>1. root[p].data \in Data \union {NoData} BY <4>1, <4>3 DEF Node, IsEntity
          <6> QED BY <5>3, <6>1 DEF EntityOf, Node
        <5> QED BY <4>3, <5>1, <5>2, <5>3
      <4>4. CASE node \in {EntityOf(NoData, "nofile")} BY <4>4 DEF EntityOf, Node
      <4> QED BY <2>2, <4>2, <4>3, <4>4 DEF Written
    <3>2. WithNode(root, p, node) \in Root BY <1>5, <2>2, <3>1, WithNodeKeeps
    <3>3. /\ workspaces'[name] = [workspaces[name] EXCEPT !.root = WithNode(root, p, node)]
          /\ \A n \in Name \ {name} : workspaces'[n] = workspaces[n]
          /\ DOMAIN workspaces' = Name
      BY <1>4, <2>2 DEF IInv, TypeOK
    <3>4. workspaces'[name] \in File /\ workspaces'[name].parent = workspaces[name].parent
      BY <1>4, <3>2, <3>3 DEF File
    <3>5. \A n \in Name : workspaces'[n] \in {None} \union File
      BY <3>3, <3>4 DEF IInv, TypeOK
    <3>6. workspaces' = [n \in Name |-> workspaces'[n]] BY <2>2 DEF IInv, TypeOK
    <3> QED BY <3>3, <3>4, <3>5, <3>6
  <2> QED BY <2>1, <2>2 DEF ExecuteWorks
<1>7. TypeOK' BY <1>1, <1>3, <1>6 DEF IInv, TypeOK, File, Moved, Others
<1>8. Orders' /\ Alone' BY <1>1, <1>3, StaysAlone DEF IInv, Orders, Commit
<1>9. tools[t].does.cmd = "execute" BY <1>1 DEF Runs
<1>10. Len(commits') \in Nat /\ Len(commits') >= Len(commits) BY <1>1 DEF IInv, TypeOK
<1>11. \A u \in Tool \ {t} : Fits(u)' BY <1>3, <1>9, <1>10, OthersFit DEF Named
<1>12. Fits(t)' BY <1>3, <1>9, Shape DEF Fits, Moved, Runs
<1> QED BY <1>6, <1>7, <1>8, <1>11, <1>12 DEF IInv

-----------------------------------------------------------------------------
LEMMA InitIInv == Init => IInv
<1> SUFFICES ASSUME Init PROVE IInv OBVIOUS
<1>1. commits = <<>> /\ Len(commits) = 0 BY DEF Init
<1>2. TypeOK BY <1>1 DEF Init, TypeOK, File
<1>3. Orders BY <1>1 DEF Orders, Commit
<1>4. \A t \in Tool : tools[t] = Idle BY DEF Init
<1>5. Alone BY <1>4 DEF Alone, Idle
<1>6. \A t \in Tool : Fits(t) BY <1>4 DEF Fits, Idle, Runs, Named
<1> QED BY <1>2, <1>3, <1>5, <1>6 DEF IInv

LEMMA NextIInv == IInv /\ [Next]_vars => IInv'
<1> SUFFICES ASSUME IInv, [Next]_vars PROVE IInv' OBVIOUS
<1>1. CASE UNCHANGED vars
  <2>1. UNCHANGED <<commits, workspaces, tools>> BY <1>1 DEF vars
  <2>2. TypeOK' /\ Orders' BY <2>1, SameHistory DEF IInv, TypeOK
  <2> QED BY <2>1, <2>2, SameFits DEF IInv, Alone
<1>2. ASSUME NEW t \in Tool, Invoke(t) \/ IsGone(t) PROVE IInv'
  BY <1>2, InvokeKeeps, IsGoneKeeps
<1>3. ASSUME NEW t \in Tool, Step(t) PROVE IInv'
  BY <1>3, OpenKeeps, CheckoutLooksKeeps, CheckoutCreatesKeeps, OpenWorkspaceKeeps, CommitKeeps,
     ExecuteKeeps, LsKeeps, LogKeeps, DiffKeeps, ExportKeeps
  DEF Step
<1> QED BY <1>1, <1>2, <1>3 DEF Next

(* Tool by tool: who changes a workspace that is there? *)
LEMMA NextGrows ==
  ASSUME IInv, [Next]_vars, NEW n \in Name, workspaces[n] # None
  PROVE  LET old == workspaces[n].parent
             new == workspaces'[n].parent
         IN  new = old \/ (new # 0 /\ commits'[new].parent = old)
<1>1. CASE UNCHANGED workspaces BY <1>1
<1>2. ASSUME NEW t \in Tool, CheckoutCreates(t) PROVE workspaces'[n].parent = workspaces[n].parent
  <2>1. \E c : workspaces' = [workspaces EXCEPT ![tools[t].does.name] = IF @ = None THEN c ELSE @]
    BY <1>2 DEF CheckoutCreates, CreateFile
  <2>2. workspaces'[n] = workspaces[n] BY <2>1 DEF IInv, TypeOK
  <2> QED BY <2>2
<1>3. ASSUME NEW t \in Tool, ExecuteWorks(t) PROVE workspaces'[n].parent = workspaces[n].parent
  BY <1>3, ExecuteKeeps
<1>4. ASSUME NEW t \in Tool, CommitWorks(t)
      PROVE  \/ workspaces'[n].parent = workspaces[n].parent
             \/ /\ workspaces'[n].parent # 0
                /\ commits'[workspaces'[n].parent].parent = workspaces[n].parent
  <2> DEFINE name == tools[t].does.name
  <2>1. PICK commit \in [stamp : Time, parent : Nat, root : Root], id \in 1..Len(commits') :
          /\ commit.parent = workspaces[name].parent
          /\ commits'[id] = commit
          /\ workspaces' = [workspaces EXCEPT ![name] = [parent |-> id, root |-> commit.root]]
    BY <1>4, Commits
  <2>2. workspaces \in [Name -> {None} \union File] BY DEF IInv, TypeOK
  <2>3. CASE n = name
    <3>1. workspaces'[n] = [parent |-> id, root |-> commit.root] BY <2>1, <2>2, <2>3
    <3>2. workspaces'[n].parent = id BY <3>1
    <3>3. id # 0 BY <2>1
    <3> QED BY <2>1, <2>3, <3>2, <3>3
  <2>4. CASE n # name
    <3>1. workspaces'[n] = workspaces[n] BY <2>1, <2>2, <2>4
    <3> QED BY <3>1
  <2> QED BY <2>3, <2>4
<1>5. ASSUME NEW t \in Tool, Step(t), ~CheckoutCreates(t), ~CommitWorks(t), ~ExecuteWorks(t)
      PROVE  UNCHANGED workspaces
  BY <1>5 DEF Step, BadOptions, NoRepository, RemoteFails, CheckoutLooks, OpenWorkspace, LsWorks,
              LsAllWorks, LogOpens, LogSearches, DiffOpens, DiffSearches, ExportStarts,
              ExportMakesTree, ExportCopies, ExportEnds
<1>6. ASSUME NEW t \in Tool, Invoke(t) \/ IsGone(t) PROVE UNCHANGED workspaces
  BY <1>6 DEF Invoke, IsGone
<1> QED BY <1>1, <1>2, <1>3, <1>4, <1>5, <1>6 DEF Next, vars

-----------------------------------------------------------------------------
LEMMA Inductive == Spec => []IInv
<1>1. Init => IInv BY InitIInv
<1>2. IInv /\ [Next]_vars => IInv' BY NextIInv
<1> QED BY <1>1, <1>2, PTL DEF Spec

(* The history of commits has no cycle: each was made from an earlier one  *)
(* (commit.cpp, RepositoryImpl::createCommit by way of getParentIds).  The *)
(* searches of log and diff end because of that.                           *)
THEOREM HistoryIsOrdered == Spec => []Orders
<1>1. IInv => Orders BY DEF IInv
<1> QED BY <1>1, Inductive, PTL

(* A workspace moves on from its commit to a child of it, and never goes   *)
(* anywhere else, whatever tools were started beside the one that moves it *)
(* (repositoryimpl.cpp, createWorkspace; commit.cpp).                      *)
THEOREM WorkspacesMoveOn == Spec => HistoryGrows
<1>1. IInv /\ [Next]_vars =>
        \A n \in Name : workspaces[n] # None =>
          LET old == workspaces[n].parent
              new == workspaces'[n].parent
          IN  new = old \/ (new # 0 /\ commits'[new].parent = old)
  BY NextGrows
<1> QED BY <1>1, Inductive, PTL DEF Spec, HistoryGrows

-----------------------------------------------------------------------------
(* What a tool keeps, beyond its command and its step.                     *)

LEMMA GoesKeeps ==
  ASSUME DOMAIN tools = Tool, NEW t \in Tool, {"does", "step"} \subseteq DOMAIN tools[t],
         NEW state, "does" \notin DOMAIN state, Goes(t, state)
  PROVE  /\ \A f \in DOMAIN state : f \in DOMAIN tools'[t] /\ tools'[t][f] = state[f]
         /\ \A f \in DOMAIN tools[t] \ DOMAIN state :
               f \in DOMAIN tools'[t] /\ tools'[t][f] = tools[t][f]
<1>1. tools'[t] = Over(state, tools[t]) BY SetTool DEF Goes
<1>2. /\ DOMAIN tools'[t] = DOMAIN state \union DOMAIN tools[t]
      /\ \A f \in DOMAIN tools'[t] :
            tools'[t][f] = IF f \in DOMAIN state THEN state[f] ELSE tools[t][f]
  BY <1>1 DEF Over
<1> QED BY <1>2

LEMMA ExitKeeps ==
  ASSUME DOMAIN tools = Tool, NEW t \in Tool, NEW code, NEW out, Exits(t, code, out)
  PROVE  tools'[t].code = code /\ tools'[t].out = out
<1> DEFINE how == [step |-> "end", code |-> code, out |-> out]
<1>1. DOMAIN how = {"step", "code", "out"} /\ how["code"] = code /\ how["out"] = out OBVIOUS
<1>2. tools'[t] = Over(how, [does |-> tools[t].does]) BY SetTool DEF Exits, Ends
<1> HIDE DEF how
<1>3. \A f \in {"code", "out"} : f \in DOMAIN tools'[t] /\ tools'[t][f] = how[f]
  BY <1>1, <1>2 DEF Over
<1> QED BY <1>1, <1>3

-----------------------------------------------------------------------------
(* log: its queue never holds more than one commit.                        *)

EntryOf(history) == [id : Name \union Nat, stamp : Nat, parent : 0..Len(history)]
Entry == EntryOf(commits)

OneQueued(queue, x) == queue = [s \in {x.stamp} |-> <<x>>]

Chained(history, ref, shown) ==
    /\ shown \in Seq(EntryOf(history)) /\ shown # <<>>
    /\ shown[1].id = ref
    /\ \A i \in 2..Len(shown) : shown[i].id = shown[i - 1].parent

EndsWell(history, shown) ==
    Last(shown).parent = 0 \/ history[Last(shown).parent].stamp = Last(shown).stamp

LEMMA EnqueueIs ==
  ASSUME NEW id
  PROVE  OneQueued(Enqueue(NoQueue, id), Queued(id))
<1> DEFINE q == Queued(id)
<1>1. Enqueue(NoQueue, id) = Over(At(q.stamp, Append(<<>>, q)), NoQueue) BY DEF Enqueue, NoQueue
<1>2. Append(<<>>, q) = <<q>> OBVIOUS
<1> HIDE DEF q
<1>3. Over(At(q.stamp, <<q>>), NoQueue) = [s \in {q.stamp} |-> <<q>>] BY DEF NoQueue, Over, At
<1> QED BY <1>1, <1>2, <1>3 DEF OneQueued, q

LEMMA QueuedIs ==
  ASSUME IInv, NEW id \in Name \union Commit, id \in Name => workspaces[id] # None
  PROVE  /\ Queued(id) \in Entry /\ Queued(id).id = id
         /\ id \in Commit => Queued(id).stamp = commits[id].stamp
<1>1. CASE id \in Name
  <2>1. workspaces[id] \in File BY <1>1 DEF IInv, TypeOK
  <2> QED BY <1>1, <2>1, NameAssumption DEF Queued, Entry, EntryOf, File, Commit
<1>2. CASE id \in Commit
  <2>1. id \notin Name /\ id \in Nat BY <1>2, NameAssumption DEF Commit
  <2> DEFINE Made == [stamp : Time, parent : Nat, root : Root]
  <2>2. commits \in Seq(Made) BY DEF IInv, TypeOK
  <2> HIDE DEF Made
  <2>3. commits[id] \in Made /\ Len(commits) \in Nat /\ id <= Len(commits)
    BY <1>2, <2>2, ElementOfSeq, LenProperties DEF Commit
  <2>4. commits[id].parent < id BY <1>2 DEF IInv, Orders
  <2>5. commits[id].stamp \in Time /\ commits[id].parent \in Nat BY <2>3 DEF Made
  <2>6. commits[id].stamp \in Nat BY <2>5, TimeAssumption
  <2>7. commits[id].parent \in 0..Len(commits) BY <2>1, <2>3, <2>4, <2>5
  <2> QED BY <2>1, <2>6, <2>7 DEF Queued, Entry, EntryOf
<1> QED BY <1>1, <1>2

(* A fold of one element. *)
LEMMA OneTurn ==
  ASSUME NEW queue, NEW x
  PROVE  FoldLeft(WithParent, queue, <<x>>) = WithParent(queue, x)
<1> DEFINE xs == <<x>>
           f == [s \in SUBSET {1} |-> IF s = {} THEN queue ELSE WithParent(queue, x)]
<1>1. DOMAIN xs = {1} /\ xs[1] = x OBVIOUS
<1> HIDE DEF xs
<1>2. Max({1}) = 1 BY DEF Max
<1>3. \A s \in SUBSET {1} : s = {} \/ s = {1} OBVIOUS
<1>4. f = [s \in SUBSET {1} |-> IF s = {} THEN queue ELSE WithParent(f[s \ {Max(s)}], xs[Max(s)])]
  <2>1. {1} \ {Max({1})} = {} /\ f[{}] = queue BY <1>2
  <2> HIDE DEF f
  <2>2. \A s \in SUBSET {1} : s # {} => WithParent(f[s \ {Max(s)}], xs[Max(s)]) = WithParent(queue, x)
    BY <1>1, <1>2, <1>3, <2>1
  <2> QED BY <2>2 DEF f
<1> HIDE DEF f
<1> DEFINE h == CHOOSE h : h = [s \in SUBSET (DOMAIN xs) |->
                                  IF s = {} THEN queue ELSE WithParent(h[s \ {Max(s)}], xs[Max(s)])]
<1>5. /\ FoldLeft(WithParent, queue, xs) = h[{1}]
      /\ h = [s \in SUBSET {1} |-> IF s = {} THEN queue ELSE WithParent(h[s \ {Max(s)}], xs[Max(s)])]
  <2>1. FoldLeft(WithParent, queue, xs) = h[DOMAIN xs] BY DEF FoldLeft, MapThenFoldSet
  <2>2. h = [s \in SUBSET (DOMAIN xs) |->
               IF s = {} THEN queue ELSE WithParent(h[s \ {Max(s)}], xs[Max(s)])]
    BY <1>1, <1>4
  <2> QED BY <1>1, <2>1, <2>2
<1> HIDE DEF h
<1>6. {} \in SUBSET {1} /\ {1} \in SUBSET {1} /\ {1} # {} /\ {1} \ {1} = {} OBVIOUS
<1>7. h[{}] = queue BY <1>5, <1>6
<1>8. h[{1}] = WithParent(h[{}], x) BY <1>1, <1>2, <1>5, <1>6
<1> QED BY <1>5, <1>7, <1>8 DEF xs

(* A parent of another stamp replaces the commit in the queue; one of the  *)
(* same stamp is lost.                                                     *)
LEMMA VisitedIs ==
  ASSUME NEW queue, NEW x \in Entry, OneQueued(queue, x)
  PROVE  /\ queue # NoQueue /\ queue[Oldest(queue)] = <<x>>
         /\ x.parent = 0 => Visited(queue) = NoQueue
         /\ x.parent # 0 /\ Queued(x.parent).stamp = x.stamp => Visited(queue) = NoQueue
         /\ x.parent # 0 /\ Queued(x.parent).stamp # x.stamp =>
              OneQueued(Visited(queue), Queued(x.parent))
<1> DEFINE s == x.stamp
           p == Queued(x.parent)
<1>1. s \in Nat /\ DOMAIN queue = {s} /\ queue[s] = <<x>> BY DEF OneQueued, Entry, EntryOf
<1>2. Oldest(queue) = s BY <1>1, MinIs DEF Oldest
<1>3. queue # NoQueue BY <1>1 DEF NoQueue
<1>4. Visited(queue) = LET all == WithParent(queue, x)
                       IN  [u \in {v \in DOMAIN all : v # s} |-> all[u]]
  BY <1>1, <1>2, OneTurn DEF Visited, RestrictDomain, Restrict
<1>5. CASE x.parent = 0
  <2>1. WithParent(queue, x) = queue BY <1>5 DEF WithParent
  <2> QED BY <1>1, <1>2, <1>3, <1>4, <1>5, <2>1 DEF NoQueue
<1>6. CASE x.parent # 0
  <2>1. WithParent(queue, x) = Enqueue(queue, x.parent) BY <1>6 DEF WithParent
  <2>2. CASE p.stamp = s
    <3>1. Enqueue(queue, x.parent) = Over(At(s, Append(<<x>>, p)), queue) BY <1>1, <2>2 DEF Enqueue
    <3>2. DOMAIN Enqueue(queue, x.parent) = {s} BY <1>1, <3>1 DEF Over, At
    <3> QED BY <1>1, <1>2, <1>3, <1>4, <1>6, <2>1, <2>2, <3>2 DEF NoQueue
  <2>3. CASE p.stamp # s
    <3>1. Enqueue(queue, x.parent) = Over(At(p.stamp, Append(<<>>, p)), queue)
      BY <1>1, <2>3 DEF Enqueue
    <3>2. Append(<<>>, p) = <<p>> OBVIOUS
    <3> HIDE DEF p, s
    <3>3. DOMAIN Enqueue(queue, x.parent) = {p.stamp, s}
          /\ Enqueue(queue, x.parent)[p.stamp] = <<p>>
      BY <1>1, <3>1, <3>2 DEF Over, At
    <3>4. {v \in {p.stamp, s} : v # s} = {p.stamp} BY <2>3
    <3>5. Visited(queue) = [u \in {p.stamp} |-> <<p>>] BY <1>4, <2>1, <3>3, <3>4
    <3> QED BY <1>1, <1>2, <1>3, <1>6, <2>3, <3>5 DEF OneQueued, p, s
  <2> QED BY <2>2, <2>3
<1> QED BY <1>5, <1>6

-----------------------------------------------------------------------------
(* diff: a commit and all that it comes from, and what differs.            *)

IsAncestors(n, f) ==
    \A i \in 0..n : f[i] = IF i = 0 THEN {} ELSE {i} \union f[commits[i].parent]

(* The history is ordered, so that there are such sets. *)
LEMMA AncestorsExist ==
  ASSUME IInv
  PROVE  \E f \in [0..Len(commits) -> SUBSET Nat] : IsAncestors(Len(commits), f)
<1> DEFINE n == Len(commits)
           S == {m \in Nat : m > n \/ \E f \in [0..m -> SUBSET Nat] : IsAncestors(m, f)}
<1>1. n \in Nat /\ \A i \in 1..n : commits[i].parent \in Nat /\ commits[i].parent < i
  <2> DEFINE Made == [stamp : Time, parent : Nat, root : Root]
  <2>1. commits \in Seq(Made) BY DEF IInv, TypeOK
  <2> HIDE DEF Made
  <2>2. n \in Nat /\ \A i \in 1..n : commits[i] \in Made
    BY <2>1, ElementOfSeq, LenProperties
  <2> QED BY <2>2 DEF Made, IInv, Orders, Commit
<1>2. 0 \in S
  <2> DEFINE f == [i \in 0..0 |-> {}]
  <2>1. f \in [0..0 -> SUBSET Nat] /\ IsAncestors(0, f) BY DEF IsAncestors
  <2> QED BY <2>1
<1>3. ASSUME NEW m \in Nat, m \in S
      PROVE  m + 1 \in S
  <2> HIDE DEF n
  <2>1. CASE m + 1 > n BY <2>1
  <2>2. CASE m + 1 <= n
    <3>1. PICK f \in [0..m -> SUBSET Nat] : IsAncestors(m, f) BY <1>1, <1>3, <2>2
    <3> DEFINE new == {m + 1} \union f[commits[m + 1].parent]
               q == [i \in 0..(m + 1) |-> IF i = m + 1 THEN new ELSE f[i]]
    <3>2. commits[m + 1].parent \in 0..m BY <1>1, <2>2
    <3>3. new \in SUBSET Nat BY <3>2
    <3>4. q \in [0..(m + 1) -> SUBSET Nat]
      <4> HIDE DEF new
      <4> QED BY <3>3
    <3>5. ASSUME NEW i \in 0..(m + 1)
          PROVE  q[i] = IF i = 0 THEN {} ELSE {i} \union q[commits[i].parent]
      <4>1. CASE i = m + 1
        <5>1. q[i] = new BY <4>1
        <5>2. q[commits[m + 1].parent] = f[commits[m + 1].parent] BY <3>2
        <5>3. i # 0 BY <4>1
        <5> HIDE DEF q
        <5>4. q[m + 1] = {m + 1} \union q[commits[m + 1].parent] BY <4>1, <5>1, <5>2
        <5> QED BY <4>1, <5>3, <5>4
      <4>2. CASE i # m + 1
        <5>1. i \in 0..m /\ q[i] = f[i] BY <4>2
        <5>2. f[i] = IF i = 0 THEN {} ELSE {i} \union f[commits[i].parent]
          BY <3>1, <5>1 DEF IsAncestors
        <5>3. i # 0 => commits[i].parent \in 0..m BY <1>1, <2>2, <5>1
        <5>4. i # 0 => q[commits[i].parent] = f[commits[i].parent] BY <5>3
        <5> QED BY <5>1, <5>2, <5>4
      <4> QED BY <4>1, <4>2
    <3> HIDE DEF q
    <3>6. IsAncestors(m + 1, q) BY <3>5 DEF IsAncestors
    <3> QED BY <3>4, <3>6
  <2> QED BY <1>1, <2>1, <2>2
<1> HIDE DEF S
<1>4. n \in S BY <1>1, <1>2, <1>3, Induction
<1>5. ~(n > n) BY <1>1
<1> QED BY <1>4, <1>5 DEF S

LEMMA AncestorsAre ==
  ASSUME IInv
  PROVE  /\ Ancestors(0) = {}
         /\ \A i \in Commit : Ancestors(i) = {i} \union Ancestors(commits[i].parent)
<1> DEFINE n == Len(commits)
           Is(f) == f = [i \in 0..n |-> IF i = 0 THEN {} ELSE {i} \union f[commits[i].parent]]
           from == CHOOSE f : Is(f)
<1>1. PICK f \in [0..n -> SUBSET Nat] : IsAncestors(n, f) BY AncestorsExist
<1>2. Is(f) BY <1>1 DEF IsAncestors
<1>3. \A id : Ancestors(id) = from[id] BY DEF Ancestors
<1> HIDE DEF Is
<1>4. Is(from) BY <1>2
<1> HIDE DEF from
<1>5. \A i \in 0..n : from[i] = IF i = 0 THEN {} ELSE {i} \union from[commits[i].parent]
  BY <1>4 DEF Is
<1>6. n \in Nat BY DEF IInv, TypeOK
<1>7. 0 \in 0..n /\ \A i \in Commit : i \in 0..n /\ i # 0 BY <1>6 DEF Commit
<1> QED BY <1>3, <1>5, <1>7

(* The text of a tree tells all that is in it. *)
LEMMA TextIs ==
  ASSUME NEW root \in [PathsOfWalk -> Node], Whole(root),
         NEW p \in {<<>>} \union PathsOfWalk
  PROVE  Text(root, p) = [q \in {x \in PathsOfWalk : IsPrefix(p, x) /\ root[x] # None} |-> root[q]]
<1> DEFINE There == {x \in PathsOfWalk : IsPrefix(p, x) /\ root[x] # None}
<1>1. CASE p \in {<<>>} \union {x \in PathsOfWalk : root[x] # None}
  BY <1>1 DEF Text, TextMap
<1>2. CASE p \notin {<<>>} \union {x \in PathsOfWalk : root[x] # None}
  <2>1. Text(root, p) = NoText BY <1>2 DEF Text, TextMap
  <2>2. There = {} BY <1>2 DEF Whole
  <2>3. [q \in There |-> root[q]] = [q \in {} |-> None] BY <2>2
  <2> HIDE DEF There
  <2> QED BY <2>1, <2>3 DEF NoText, There
<1> QED BY <1>1, <1>2

LEMMA DifferencesTell ==
  ASSUME NEW from \in [PathsOfWalk -> Node], Whole(from),
         NEW to \in [PathsOfWalk -> Node], Whole(to)
  PROVE  LET shown == Differences(from, to)
         IN  /\ \A p \in PathsOfWalk : p \in DOMAIN shown <=> {from[p], to[p]} # {None}
             /\ \A p \in DOMAIN shown :
                   shown[p][1] # shown[p][2]
                   <=> \E q \in PathsOfWalk : IsPrefix(p, q) /\ from[q] # to[q]
<1> DEFINE shown == Differences(from, to)
<1>1. /\ DOMAIN shown = {<<>>} \union {p \in PathsOfWalk : from[p] # None \/ to[p] # None}
      /\ \A p \in DOMAIN shown : shown[p] = <<Text(from, p), Text(to, p)>>
  BY DEF Differences, TextMap
<1> HIDE DEF shown
<1>2. ASSUME NEW p \in PathsOfWalk
      PROVE  p \in DOMAIN shown <=> {from[p], to[p]} # {None}
  <2>1. p # <<>> BY WalkAssumption
  <2> QED BY <1>1, <2>1
<1>3. ASSUME NEW p \in DOMAIN shown
      PROVE  shown[p][1] # shown[p][2]
             <=> \E q \in PathsOfWalk : IsPrefix(p, q) /\ from[q] # to[q]
  <2> DEFINE F == {x \in PathsOfWalk : IsPrefix(p, x) /\ from[x] # None}
             T == {x \in PathsOfWalk : IsPrefix(p, x) /\ to[x] # None}
  <2>1. p \in {<<>>} \union PathsOfWalk BY <1>1
  <2>2. shown[p][1] = [q \in F |-> from[q]] /\ shown[p][2] = [q \in T |-> to[q]]
    <3>1. shown[p][1] = Text(from, p) /\ shown[p][2] = Text(to, p) BY <1>1
    <3> QED BY <2>1, <3>1, TextIs
  <2>3. ASSUME \A q \in PathsOfWalk : IsPrefix(p, q) => from[q] = to[q]
        PROVE  [q \in F |-> from[q]] = [q \in T |-> to[q]]
    <3>1. F = T BY <2>3
    <3>2. \A q \in F : from[q] = to[q] BY <2>3
    <3> HIDE DEF F, T
    <3> QED BY <3>1, <3>2
  <2>4. ASSUME [q \in F |-> from[q]] = [q \in T |-> to[q]],
               NEW q \in PathsOfWalk, IsPrefix(p, q)
        PROVE  from[q] = to[q]
    <3>1. F = T
      <4>1. DOMAIN [x \in F |-> from[x]] = F /\ DOMAIN [x \in T |-> to[x]] = T OBVIOUS
      <4> HIDE DEF F, T
      <4> QED BY <2>4, <4>1
    <3>2. CASE q \in F
      <4>1. [x \in F |-> from[x]][q] = from[q] BY <3>2
      <4>2. [x \in T |-> to[x]][q] = to[q] BY <3>1, <3>2
      <4> HIDE DEF F, T
      <4> QED BY <2>4, <4>1, <4>2
    <3>3. CASE q \notin F
      <4>1. from[q] = None BY <2>4, <3>3
      <4>2. to[q] = None BY <2>4, <3>1, <3>3
      <4> QED BY <4>1, <4>2
    <3> QED BY <3>2, <3>3
  <2> HIDE DEF F, T
  <2> QED BY <2>2, <2>3, <2>4
<1> QED BY <1>2, <1>3 DEF shown

-----------------------------------------------------------------------------
(* checkout2filesystem: the search shows all that is there.                *)

There(root) == {p \in PathsOfWalk : root[p] # None}

LEMMA ListingIs ==
  ASSUME NEW root \in Root
  PROVE  /\ Listing(root, <<>>, TRUE) \in Seq(PathsOfWalk)
         /\ root = None => Listing(root, <<>>, TRUE) = <<>>
         /\ root # None => ToSet(Listing(root, <<>>, TRUE)) = There(root)
<1>1. CASE root = None
  <2>1. Listing(root, <<>>, TRUE) = <<>> BY <1>1 DEF Listing
  <2>2. <<>> \in Seq(PathsOfWalk) OBVIOUS
  <2> QED BY <1>1, <2>1, <2>2
<1>2. CASE root # None
  <2> DEFINE n == Len(Walk)
             Show(shown, p) ==
               IF /\ root[p] # None
                  /\ \/ <<>> = p
                     \/ IsStrictPrefix(<<>>, p) /\ (TRUE \/ (<<>> = <<>> /\ Len(p) = 1))
               THEN Append(shown, p) ELSE shown
             D == Seq(PathsOfWalk)
             g == [i \in 1..n |-> [d \in D |-> Show(d, Walk[i])]]
             P == {md \in Nat \X D :
                     ToSet(md[2]) = {Walk[j] : j \in {k \in 1..md[1] : root[Walk[k]] # None}}}
  <2>1. n \in Nat /\ DOMAIN Walk = 1..n /\ \A i \in 1..n : Walk[i] \in PathsOfWalk
    BY WalkAssumption, Elements
  <2>2. Listing(root, <<>>, TRUE) = FoldLeft(Show, <<>>, Walk)
    BY <1>2 DEF Listing
  <2>3. ASSUME NEW p \in PathsOfWalk, NEW d \in D
        PROVE  Show(d, p) = IF root[p] # None THEN Append(d, p) ELSE d
    <3>1. p \in Seq(Segment) /\ p # <<>> /\ Len(p) \in Nat BY WalkAssumption, LenProperties
    <3>2. Len(<<>>) = 0 /\ SubSeq(p, 1, 0) = <<>> /\ SubSeq(<<>>, 1, 0) = <<>> BY <3>1
    <3>3. IsStrictPrefix(<<>>, p) BY <3>1, <3>2 DEF IsStrictPrefix, IsPrefix
    <3> QED BY <3>3
  <2> HIDE DEF Show
  <2>4. ASSUME NEW i \in 1..n, NEW d \in D
        PROVE  Show(d, Walk[i]) \in D
    BY <2>1, <2>3, Appended
  <2>5. <<>> \in D OBVIOUS
  <2> HIDE DEF D
  <2>6. g \in [1..n -> [D -> D]] BY <2>4
  <2>7. PICK f \in [SUBSET (1..n) -> D] : Folds(n, <<>>, g, f) BY <2>1, <2>5, <2>6, FoldExists
  <2>8. f = [s \in SUBSET (1..n) |-> IF s = {} THEN <<>> ELSE Show(f[s \ {Max(s)}], Walk[Max(s)])]
    <3>1. ASSUME NEW s \in SUBSET (1..n), s # {}
          PROVE  f[s] = Show(f[s \ {Max(s)}], Walk[Max(s)])
      <4>1. s \in SUBSET (0..n) BY <2>1
      <4>2. Max(s) \in 1..n BY <2>1, <3>1, <4>1, MaxIs
      <4>3. f[s \ {Max(s)}] \in D OBVIOUS
      <4> QED BY <2>7, <3>1, <4>2, <4>3 DEF Folds
    <3>2. f[{}] = <<>> BY <2>7 DEF Folds
    <3> QED BY <3>1, <3>2
  <2> HIDE DEF g
  <2> DEFINE h == CHOOSE h : h = [s \in SUBSET (DOMAIN Walk) |->
                       IF s = {} THEN <<>> ELSE Show(h[s \ {Max(s)}], Walk[Max(s)])]
  <2>9. /\ FoldLeft(Show, <<>>, Walk) = h[1..n]
        /\ h = [s \in SUBSET (1..n) |-> IF s = {} THEN <<>> ELSE Show(h[s \ {Max(s)}], Walk[Max(s)])]
    <3>1. FoldLeft(Show, <<>>, Walk) = h[DOMAIN Walk] BY DEF FoldLeft, MapThenFoldSet, Show
    <3>2. h = [s \in SUBSET (DOMAIN Walk) |->
                 IF s = {} THEN <<>> ELSE Show(h[s \ {Max(s)}], Walk[Max(s)])]
      BY <2>1, <2>8
    <3> QED BY <2>1, <3>1, <3>2
  <2> HIDE DEF h
  <2>10. h[{}] = <<>> BY <2>9
  <2>11. ASSUME NEW i \in 1..n
        PROVE  h[1..i] = Show(h[1..(i - 1)], Walk[i])
    <3> DEFINE s == 1..i
    <3>1. s \in SUBSET (1..n) /\ s # {} /\ Max(s) = i /\ s \ {i} = 1..(i - 1)
      BY <2>1, FoldTurns
    <3> HIDE DEF s
    <3>2. h[s] = Show(h[s \ {Max(s)}], Walk[Max(s)])
      BY <2>9, <3>1
    <3> QED BY <3>1, <3>2 DEF s
  <2>12. <<0, h[{}]>> \in P
    <3>1. {Walk[j] : j \in {k \in 1..0 : root[Walk[k]] # None}} = {} OBVIOUS
    <3>2. ToSet(<<>>) = {} BY DEF ToSet
    <3> QED BY <2>5, <2>10, <3>1, <3>2
  <2>13. ASSUME NEW i \in 1..n, <<i - 1, h[1..(i - 1)]>> \in P
         PROVE  <<i, h[1..i]>> \in P
    <3> DEFINE d == h[1..(i - 1)]
               w == Walk[i]
               new == h[1..i]
               Done(m) == {Walk[j] : j \in {k \in 1..m : root[Walk[k]] # None}}
    <3>1. d \in D /\ ToSet(d) = Done(i - 1) BY <2>13
    <3>5. w \in PathsOfWalk BY <2>1
    <3>2. Done(i) = Done(i - 1) \union (IF root[Walk[i]] # None THEN {Walk[i]} ELSE {})
      <4>1. 1..i = (1..(i - 1)) \union {i} BY <2>1
      <4>2. {k \in 1..i : root[Walk[k]] # None}
              = {k \in 1..(i - 1) : root[Walk[k]] # None}
                \union (IF root[Walk[i]] # None THEN {i} ELSE {})
        BY <4>1
      <4> QED BY <4>2
    <3>3. new = IF root[w] # None THEN Append(d, w) ELSE d
      <4>1. new = Show(d, w) BY <2>11
      <4> HIDE DEF new, d, w
      <4> QED BY <2>3, <3>1, <3>5, <4>1
    <3>6. Done(i) = Done(i - 1) \union (IF root[w] # None THEN {w} ELSE {}) BY <3>2
    <3> HIDE DEF d, w, new, Done
    <3>7. Append(d, w) \in Seq(PathsOfWalk) /\ ToSet(Append(d, w)) = ToSet(d) \union {w}
      BY <3>1, <3>5, Appended DEF D
    <3>4. new \in D /\ ToSet(new) = Done(i)
      <4>1. CASE root[w] # None BY <3>1, <3>3, <3>6, <3>7, <4>1 DEF D
      <4>2. CASE root[w] = None BY <3>1, <3>3, <3>6, <4>2
      <4> QED BY <4>1, <4>2
    <3>8. i \in Nat BY <2>1
    <3>9. <<i, new>> \in Nat \X D BY <3>4, <3>8
    <3>10. ToSet(new) = {Walk[j] : j \in {k \in 1..i : root[Walk[k]] # None}} BY <3>4 DEF Done
    <3> QED BY <3>9, <3>10 DEF new
  <2> HIDE DEF P
  <2>14. <<n, h[1..n]>> \in P BY <2>1, <2>12, <2>13, FoldGoesOn
  <2>15. h[1..n] \in D /\ ToSet(h[1..n]) = {Walk[j] : j \in {k \in 1..n : root[Walk[k]] # None}}
    BY <2>14 DEF P
  <2>16. {Walk[j] : j \in {k \in 1..n : root[Walk[k]] # None}} = There(root)
    BY <2>1 DEF There, PathsOfWalk, Range
  <2> QED BY <1>2, <2>2, <2>9, <2>15, <2>16 DEF D
<1> QED BY <1>1, <1>2

-----------------------------------------------------------------------------
(* What each tool knows while it works.                                    *)

LogSays(t) ==
    LET ref == tools[t].does.ref
    IN  /\ tools[t].step = "open" => ref \in {Unknown} \union Name \union Commit
        /\ tools[t].step = "search" =>
              \/ /\ tools[t].queue = NoQueue
                 /\ Chained(commits, ref, tools[t].out) /\ EndsWell(commits, tools[t].out)
              \/ \E x \in Entry : /\ OneQueued(tools[t].queue, x)
                                  /\ tools[t].out \in Seq(Entry)
                                  /\ Chained(commits, ref, Append(tools[t].out, x))
        /\ Did(t, "log") => Chained(commits, ref, tools[t].out) /\ EndsWell(commits, tools[t].out)

(* The search from one commit on has come to another one. *)
Between(id, visits) ==
    /\ visits \in Commit /\ Ancestors(visits) \subseteq Ancestors(id)
    /\ \A i \in Ancestors(id) \ Ancestors(visits) : commits[i].root # None

Rooted(id) == \A i \in Ancestors(id) : commits[i].root # None

DiffSays(t) ==
    LET c == tools[t].does
    IN  /\ c.from \in {Unknown} \union Commit /\ c.to \in Commit
        /\ tools[t].step = "from" => c.from \in Commit /\ Between(c.from, tools[t].visits)
        /\ tools[t].step = "to" =>
              c.from \in Commit /\ Rooted(c.from) /\ Between(c.to, tools[t].visits)
        /\ tools[t].step = "abort" => DiffFails(t)
        /\ Did(t, "diff") => DiffTells(t)

EntitiesOf(root) == {p \in PathsOfWalk : root # None /\ IsEntity(root[p])}

(* What lies in the workspace was written, or is still to be. *)
Copied(root, out, todo) ==
    /\ out = [p \in DOMAIN out |-> root[p].data]
    /\ DOMAIN out \subseteq EntitiesOf(root)
    /\ EntitiesOf(root) \subseteq DOMAIN out \union ToSet(todo)

ExportSays(t) ==
    /\ tools[t].step \in {"work", "files"} =>
          "seen" \in DOMAIN tools[t] /\ tools[t].seen.root \in Root
    /\ tools[t].step = "files" =>
          LET root == tools[t].seen.root
              todo == tools[t].todo
          IN  /\ {"found", "there", "out", "todo"} \subseteq DOMAIN tools[t]
              /\ todo \in Seq(PathsOfWalk)
              /\ \A p \in ToSet(todo) : root # None /\ root[p] # None
              /\ tools[t].found /\ (\A p \in EntitiesOf(root) : root[p].where = "workspace") =>
                    tools[t].there /\ Copied(root, tools[t].out, todo)
    /\ Did(t, "export") => ExportTells(t)

Says(t) ==
    /\ tools[t].does.cmd = "log" => LogSays(t)
    /\ tools[t].does.cmd = "diff" => DiffSays(t)
    /\ tools[t].does.cmd = "export" => ExportSays(t)

KInv == IInv /\ \A t \in Tool : Says(t)

(* It stays true as long as no commit is made,                             *)
LEMMA SameSays ==
  ASSUME NEW t \in Tool, Says(t), tools'[t] = tools[t], UNCHANGED commits
  PROVE  Says(t)'
<1>1. \A id : Ancestors(id)' = Ancestors(id) BY DEF Ancestors
<1>2. tools[t].does.cmd = "log" => LogSays(t)'
  BY DEF Says, LogSays, Did, Entry, OneQueued, Commit
<1>3. ASSUME tools[t].does.cmd = "diff" PROVE DiffSays(t)'
  <2>1. DiffSays(t) BY <1>3 DEF Says
  <2>2. ASSUME DiffTells(t) PROVE DiffTells(t)'
    <3> DEFINE from == commits[tools[t].does.from].root
               to == commits[tools[t].does.to].root
               shown == tools[t].out
    <3>1. from' = from /\ to' = to /\ shown' = shown OBVIOUS
    <3>2. \A i \in (Ancestors(tools[t].does.from) \union Ancestors(tools[t].does.to))' :
             commits'[i].root # None
      BY <1>1, <2>2 DEF DiffTells
    <3>3. \A p \in PathsOfWalk : p \in DOMAIN shown <=> {from[p], to[p]} # {None}
      BY <2>2 DEF DiffTells
    <3>4. \A p \in DOMAIN shown :
             shown[p][1] # shown[p][2] <=> \E q \in PathsOfWalk : IsPrefix(p, q) /\ from[q] # to[q]
      BY <2>2 DEF DiffTells
    <3>5. /\ \A p \in PathsOfWalk : p \in DOMAIN shown' <=> {from'[p], to'[p]} # {None}
          /\ \A p \in DOMAIN shown' :
                shown'[p][1] # shown'[p][2] <=> \E q \in PathsOfWalk : IsPrefix(p, q) /\ from'[q] # to'[q]
      <4> HIDE DEF from, to, shown
      <4> QED BY <3>1, <3>3, <3>4
    <3> QED BY <3>2, <3>5 DEF DiffTells
  <2>3. DiffFails(t) => DiffFails(t)' BY <1>1 DEF DiffFails
  <2>4. \A id, v : Between(id, v) => Between(id, v)' BY <1>1 DEF Between, Commit
  <2>5. \A id : Rooted(id) => Rooted(id)' BY <1>1 DEF Rooted
  <2> QED BY <2>1, <2>2, <2>3, <2>4, <2>5 DEF DiffSays, Did, Commit
<1>4. tools[t].does.cmd = "export" => ExportSays(t)'
  BY DEF Says, ExportSays, Did, ExportTells
<1> QED BY <1>2, <1>3, <1>4 DEF Says

(* and what log has seen of the history stays when one is made beside it.  *)
LEMMA GrownSays ==
  ASSUME IInv, NEW t \in Tool, Says(t), tools'[t] = tools[t],
         tools[t].does.cmd \in {"log", "nothing"},
         Len(commits') \in Nat, Len(commits') >= Len(commits),
         \A i \in 1..Len(commits) : commits'[i] = commits[i]
  PROVE  Says(t)'
<1> SUFFICES ASSUME tools[t].does.cmd = "log" PROVE LogSays(t)' BY DEF Says
<1>1. LogSays(t) BY DEF Says
<1>2. Len(commits) \in Nat BY DEF IInv, TypeOK
<1>3. Entry \subseteq Entry' /\ Commit \subseteq Commit' BY <1>2 DEF Entry, EntryOf, Commit
<1>4. Seq(Entry) \subseteq Seq(Entry') BY <1>3, SeqMonotonic
<1>5. ASSUME NEW ref, NEW shown, Chained(commits, ref, shown)
      PROVE  Chained(commits', ref, shown) /\ (EndsWell(commits, shown) => EndsWell(commits', shown))
  <2>1. shown \in Seq(Entry) /\ shown # <<>> BY <1>5 DEF Chained, Entry
  <2>2. Last(shown) \in Entry
    <3>1. Len(shown) \in 1..Len(shown) BY <2>1, LenProperties, EmptySeq
    <3> QED BY <2>1, <3>1, ElementOfSeq DEF Last
  <2>3. Last(shown).parent \in 0..Len(commits) BY <2>2 DEF Entry, EntryOf
  <2>4. Last(shown).parent # 0 => commits'[Last(shown).parent] = commits[Last(shown).parent]
    BY <1>2, <2>3
  <2> QED BY <1>4, <1>5, <2>1, <2>4 DEF Chained, EndsWell, Entry
<1>6. tools[t].step = "open" => tools'[t].does.ref \in {Unknown} \union Name \union Commit'
  BY <1>1, <1>3 DEF LogSays
<1>7. Did(t, "log") => Chained(commits', tools'[t].does.ref, tools'[t].out) /\ EndsWell(commits', tools'[t].out)
  BY <1>1, <1>5 DEF LogSays
<1>8. ASSUME tools[t].step = "search"
      PROVE  LET ref == tools'[t].does.ref
             IN  \/ /\ tools'[t].queue = NoQueue
                    /\ Chained(commits', ref, tools'[t].out) /\ EndsWell(commits', tools'[t].out)
                 \/ \E x \in Entry' : /\ OneQueued(tools'[t].queue, x)
                                      /\ tools'[t].out \in Seq(Entry')
                                      /\ Chained(commits', ref, Append(tools'[t].out, x))
  <2>1. CASE /\ tools[t].queue = NoQueue
             /\ Chained(commits, tools[t].does.ref, tools[t].out) /\ EndsWell(commits, tools[t].out)
    BY <1>5, <2>1
  <2>2. ASSUME NEW x \in Entry, OneQueued(tools[t].queue, x), tools[t].out \in Seq(Entry),
               Chained(commits, tools[t].does.ref, Append(tools[t].out, x))
        PROVE  \E y \in Entry' : /\ OneQueued(tools'[t].queue, y)
                                 /\ tools'[t].out \in Seq(Entry')
                                 /\ Chained(commits', tools'[t].does.ref, Append(tools'[t].out, y))
    BY <1>3, <1>4, <1>5, <2>2
  <2> QED BY <1>1, <1>8, <2>1, <2>2 DEF LogSays
<1> QED BY <1>6, <1>7, <1>8 DEF LogSays, Did, OneQueued

(* A tool that ends without having told anything. *)
LEMMA EndsBadly ==
  ASSUME IInv, NEW t \in Tool, Says(t), UNCHANGED commits, NEW step, Moved(t, step),
         step = "crash" \/ (step = "end" /\ tools'[t].code = 1)
  PROVE  Says(t)'
BY DEF Says, LogSays, DiffSays, ExportSays, Did, Commit, Moved, Others

(* Other commands. *)
LEMMA OtherSays ==
  ASSUME NEW t \in Tool, tools[t].does.cmd \notin {"log", "diff", "export"},
         NEW step, Moved(t, step)
  PROVE  Says(t)'
BY DEF Says, Moved

LEMMA OpenSays ==
  ASSUME IInv, NEW t \in Tool, Says(t), BadOptions(t) \/ NoRepository(t) \/ RemoteFails(t)
  PROVE  Says(t)'
<1>1. UNCHANGED commits BY DEF BadOptions, NoRepository, RemoteFails
<1>2. Exits(t, 1, None) \/ Crashes(t) BY DEF BadOptions, NoRepository, RemoteFails
<1>3. CASE Exits(t, 1, None)
  <2>1. Moved(t, "end") BY <1>3, Shape, ExitsAt
  <2>2. tools'[t].code = 1 BY <1>3, Shape, ExitKeeps
  <2> QED BY <1>1, <2>1, <2>2, EndsBadly
<1>4. CASE Crashes(t)
  <2>1. Moved(t, "crash") BY <1>4, Shape, ExitsAt
  <2> QED BY <1>1, <2>1, EndsBadly
<1> QED BY <1>2, <1>3, <1>4

LEMMA InvokeSays ==
  ASSUME IInv, NEW t \in Tool, Invoke(t) \/ IsGone(t)
  PROVE  /\ Says(t)' /\ UNCHANGED commits
         /\ \A u \in Tool \ {t} : tools'[u] = tools[u]
<1>1. DOMAIN tools = Tool BY DEF IInv, TypeOK
<1>2. CASE Invoke(t)
  <2>1. PICK c \in Commands : tools' = [tools EXCEPT ![t] = [does |-> c, step |-> "open"]]
    BY <1>2 DEF Invoke
  <2>2. Others(t) /\ tools'[t] = [does |-> c, step |-> "open"] BY <1>1, <2>1, SetTool
  <2>3. tools'[t].does = c /\ tools'[t].step = "open" BY <2>2
  <2>4. c.cmd = "log" => c.ref \in {Unknown} \union Name \union Commit BY <2>1 DEF Commands
  <2>5. c.cmd = "diff" => c.from \in {Unknown} \union Commit /\ c.to \in Commit
    BY <2>1 DEF Commands
  <2>6. UNCHANGED commits BY <1>2 DEF Invoke
  <2>7. Says(t)'
    BY <2>3, <2>4, <2>5, <2>6 DEF Says, LogSays, DiffSays, ExportSays, Did, Commit
  <2> QED BY <2>2, <2>6, <2>7 DEF Others
<1>3. CASE IsGone(t)
  <2>1. Others(t) /\ tools'[t] = Idle BY <1>1, <1>3, SetTool DEF IsGone
  <2>2. tools'[t].does.cmd = "nothing" BY <2>1 DEF Idle
  <2> QED BY <1>3, <2>1, <2>2 DEF IsGone, Says, Others
<1> QED BY <1>2, <1>3

LEMMA LogOpensSays ==
  ASSUME IInv, NEW t \in Tool, Says(t), LogOpens(t)
  PROVE  Says(t)'
<1> DEFINE ref == tools[t].does.ref
           state == [step |-> "search", queue |-> Enqueue(NoQueue, ref), out |-> <<>>]
<1>1. /\ tools[t].does.cmd = "log" /\ tools[t].step = "open" /\ UNCHANGED commits
      /\ IF ref = Unknown \/ (ref \in Name /\ workspaces[ref] = None)
         THEN Exits(t, 1, None) ELSE Goes(t, state)
  BY DEF LogOpens, Runs
<1>2. CASE Exits(t, 1, None)
  <2>1. Moved(t, "end") BY <1>2, Shape, ExitsAt
  <2>2. tools'[t].code = 1 BY <1>2, Shape, ExitKeeps
  <2> QED BY <1>1, <2>1, <2>2, EndsBadly
<1>3. CASE /\ ~(ref = Unknown \/ (ref \in Name /\ workspaces[ref] = None))
           /\ Goes(t, state)
  <2>1. /\ DOMAIN state = {"step", "queue", "out"} /\ state.step = "search"
        /\ state.queue = Enqueue(NoQueue, ref) /\ state.out = <<>>
    OBVIOUS
  <2> HIDE DEF state
  <2>2. Moved(t, "search") BY <1>3, <2>1, GoesOn, Shape
  <2>3. tools'[t].queue = Enqueue(NoQueue, ref) /\ tools'[t].out = <<>>
    BY <1>3, <2>1, GoesKeeps, Shape
  <2>4. ref \in Name \union Commit /\ (ref \in Name => workspaces[ref] # None)
    BY <1>1, <1>3 DEF Says, LogSays
  <2> DEFINE x == Queued(ref)
  <2>5. x \in Entry /\ x.id = ref /\ OneQueued(tools'[t].queue, x)
    BY <2>3, <2>4, QueuedIs, EnqueueIs
  <2> HIDE DEF x, ref
  <2>6. Append(<<>>, x) = <<x>> /\ <<x>> \in Seq(Entry) /\ Len(<<x>>) = 1 /\ <<x>>[1] = x
    BY <2>5
  <2>7. Chained(commits, ref, Append(tools'[t].out, x))
    BY <2>3, <2>5, <2>6 DEF Chained, Entry
  <2>8. <<>> \in Seq(Entry) OBVIOUS
  <2> QED BY <1>1, <2>2, <2>3, <2>5, <2>7, <2>8
         DEF Says, LogSays, Did, Moved, Entry, Commit, OneQueued, ref
<1> QED BY <1>1, <1>2, <1>3

LEMMA ChainGoesOn ==
  ASSUME NEW ref, NEW shown, Chained(commits, ref, shown), NEW x \in Entry, x.id = Last(shown).parent
  PROVE  Chained(commits, ref, Append(shown, x))
<1>1. shown \in Seq(Entry) /\ shown # <<>> BY DEF Chained, Entry
<1>2. Len(shown) \in Nat \ {0} BY <1>1, LenProperties, EmptySeq
<1>3. /\ Append(shown, x) \in Seq(Entry) /\ Append(shown, x) # <<>>
      /\ Len(Append(shown, x)) = Len(shown) + 1
      /\ \A i \in 1..Len(shown) : Append(shown, x)[i] = shown[i]
      /\ Append(shown, x)[Len(shown) + 1] = x
  BY <1>1, AppendProperties
<1>4. ASSUME NEW i \in 2..(Len(shown) + 1)
      PROVE  Append(shown, x)[i].id = Append(shown, x)[i - 1].parent
  <2>1. CASE i = Len(shown) + 1 BY <1>2, <1>3, <2>1 DEF Last
  <2>2. CASE i # Len(shown) + 1
    <3>1. i \in 2..Len(shown) /\ i \in 1..Len(shown) /\ i - 1 \in 1..Len(shown) BY <1>2, <2>2
    <3> QED BY <1>3, <3>1 DEF Chained
  <2> QED BY <2>1, <2>2
<1>5. Append(shown, x)[1].id = ref BY <1>2, <1>3 DEF Chained
<1> QED BY <1>3, <1>4, <1>5 DEF Chained, Entry

LEMMA LogSearchesSays ==
  ASSUME IInv, NEW t \in Tool, Says(t), LogSearches(t)
  PROVE  Says(t)'
<1> DEFINE ref == tools[t].does.ref
           queue == tools[t].queue
           out == tools[t].out
<1>1. /\ tools[t].does.cmd = "log" /\ tools[t].step = "search" /\ UNCHANGED commits
      /\ IF queue = NoQueue THEN Exits(t, 0, out)
         ELSE Goes(t, [queue |-> Visited(queue), out |-> out \o queue[Oldest(queue)]])
  BY DEF LogSearches, Runs
<1>2. \/ queue = NoQueue /\ Chained(commits, ref, out) /\ EndsWell(commits, out)
      \/ \E x \in Entry : /\ OneQueued(queue, x) /\ out \in Seq(Entry)
                          /\ Chained(commits, ref, Append(out, x))
  BY <1>1 DEF Says, LogSays
<1>3. CASE queue = NoQueue /\ Chained(commits, ref, out) /\ EndsWell(commits, out)
  <2>1. Exits(t, 0, out) BY <1>1, <1>3
  <2>2. Moved(t, "end") BY <2>1, Shape, ExitsAt
  <2>3. tools'[t].out = out BY <2>1, Shape, ExitKeeps
  <2>4. tools'[t].does = tools[t].does /\ tools'[t].step = "end" BY <2>2 DEF Moved
  <2> QED BY <1>1, <1>3, <2>3, <2>4 DEF Says, LogSays, Did
<1>4. ASSUME NEW x \in Entry, OneQueued(queue, x), out \in Seq(Entry),
             Chained(commits, ref, Append(out, x))
      PROVE  Says(t)'
  <2> DEFINE state == [queue |-> Visited(queue), out |-> out \o queue[Oldest(queue)]]
             shown == Append(out, x)
  <2>1. queue # NoQueue /\ queue[Oldest(queue)] = <<x>> BY <1>4, VisitedIs
  <2>2. Goes(t, state) BY <1>1, <2>1
  <2>3. out \o <<x>> = shown BY <1>4
  <2>4. /\ DOMAIN state = {"queue", "out"}
        /\ state.queue = Visited(queue) /\ state.out = shown
    BY <2>1, <2>3
  <2> HIDE DEF state
  <2>5. Moved(t, "search") BY <1>1, <2>2, <2>4, GoesOn, Shape
  <2>6. tools'[t].queue = Visited(queue) /\ tools'[t].out = shown
    BY <2>2, <2>4, GoesKeeps, Shape
  <2>7. Last(shown) = x /\ shown \in Seq(Entry) BY <1>4, AppendProperties DEF Last
  <2> HIDE DEF shown
  <2>8. \/ tools'[t].queue = NoQueue /\ Chained(commits, ref, shown) /\ EndsWell(commits, shown)
        \/ \E y \in Entry : /\ OneQueued(tools'[t].queue, y) /\ shown \in Seq(Entry)
                            /\ Chained(commits, ref, Append(shown, y))
    <3>1. CASE x.parent = 0
      <4>1. Visited(queue) = NoQueue BY <1>4, <3>1, VisitedIs
      <4> QED BY <1>4, <2>6, <2>7, <3>1, <4>1 DEF EndsWell, shown
    <3>2. CASE x.parent # 0
      <4> DEFINE y == Queued(x.parent)
      <4>1. Len(commits) \in Nat BY DEF IInv, TypeOK
      <4>2. x.parent \in Commit BY <3>2, <4>1 DEF Entry, EntryOf, Commit
      <4>3. x.parent \notin Name BY <4>2, NameAssumption DEF Commit
      <4>4. y \in Entry /\ y.id = x.parent /\ y.stamp = commits[x.parent].stamp
        BY <4>2, <4>3, QueuedIs
      <4>5. CASE y.stamp = x.stamp
        <5>1. Visited(queue) = NoQueue BY <1>4, <3>2, <4>5, VisitedIs
        <5> HIDE DEF y
        <5> QED BY <1>4, <2>6, <2>7, <4>4, <4>5, <5>1 DEF EndsWell, shown
      <4>6. CASE y.stamp # x.stamp
        <5>1. OneQueued(Visited(queue), y) BY <1>4, <3>2, <4>6, VisitedIs
        <5> HIDE DEF y
        <5>2. Chained(commits, ref, shown) BY <1>4 DEF shown
        <5>3. Chained(commits, ref, Append(shown, y)) BY <2>7, <4>4, <5>2, ChainGoesOn
        <5> QED BY <2>6, <2>7, <4>4, <5>1, <5>3
      <4> QED BY <4>5, <4>6
    <3> QED BY <3>1, <3>2
  <2>9. tools'[t].does = tools[t].does /\ tools'[t].step = "search" BY <2>5 DEF Moved
  <2> QED BY <1>1, <2>6, <2>8, <2>9 DEF Says, LogSays, Did, Entry, OneQueued, Commit
<1> QED BY <1>2, <1>3, <1>4

LEMMA DiffOpensSays ==
  ASSUME IInv, NEW t \in Tool, Says(t), DiffOpens(t)
  PROVE  Says(t)'
<1> DEFINE from == tools[t].does.from
           state == [step |-> "from", visits |-> from]
<1>1. /\ tools[t].does.cmd = "diff" /\ UNCHANGED commits
      /\ IF from = Unknown THEN Exits(t, 1, None) ELSE Goes(t, state)
  BY DEF DiffOpens, Runs
<1>2. CASE from = Unknown
  <2>1. Moved(t, "end") BY <1>1, <1>2, Shape, ExitsAt
  <2>2. tools'[t].code = 1 BY <1>1, <1>2, Shape, ExitKeeps
  <2> QED BY <1>1, <2>1, <2>2, EndsBadly
<1>3. CASE from # Unknown
  <2>1. DOMAIN state = {"step", "visits"} /\ state.step = "from" /\ state.visits = from OBVIOUS
  <2> HIDE DEF state
  <2>2. Moved(t, "from") BY <1>1, <1>3, <2>1, GoesOn, Shape
  <2>3. tools'[t].visits = from BY <1>1, <1>3, <2>1, GoesKeeps, Shape
  <2>4. tools'[t].does = tools[t].does /\ tools'[t].step = "from" BY <2>2 DEF Moved
  <2>5. from \in Commit /\ tools[t].does.to \in Commit BY <1>1, <1>3 DEF Says, DiffSays
  <2>6. Between(from, from) BY <2>5 DEF Between
  <2> QED BY <1>1, <2>3, <2>4, <2>5, <2>6 DEF Says, DiffSays, Did, Between, Ancestors, Commit
<1> QED BY <1>2, <1>3

(* A commit with a root is passed, and its parent comes next. *)
LEMMA PassesOn ==
  ASSUME IInv, NEW id, NEW visits, Between(id, visits), commits[visits].root # None
  PROVE  /\ commits[visits].parent # 0 => Between(id, commits[visits].parent)
         /\ commits[visits].parent = 0 => Rooted(id)
<1> DEFINE parent == commits[visits].parent
<1>1. visits \in Commit BY DEF Between
<1>2. Ancestors(visits) = {visits} \union Ancestors(parent) /\ Ancestors(0) = {}
  BY <1>1, AncestorsAre
<1>3. \A i \in Ancestors(id) \ Ancestors(parent) : commits[i].root # None
  BY <1>2 DEF Between
<1>4. CASE parent = 0 BY <1>2, <1>3, <1>4 DEF Rooted
<1>5. CASE parent # 0
  <2>1. parent \in Commit
    <3> DEFINE Made == [stamp : Time, parent : Nat, root : Root]
    <3>1. commits \in Seq(Made) BY DEF IInv, TypeOK
    <3> HIDE DEF Made
    <3>2. commits[visits] \in Made /\ Len(commits) \in Nat
      BY <1>1, <3>1, ElementOfSeq, LenProperties DEF Commit
    <3>3. parent \in Nat BY <3>2 DEF Made
    <3>4. parent < visits BY <1>1 DEF IInv, Orders
    <3> QED BY <1>1, <1>5, <3>2, <3>3, <3>4 DEF Commit
  <2>2. Ancestors(parent) \subseteq Ancestors(id) BY <1>2 DEF Between
  <2> QED BY <1>3, <1>5, <2>1, <2>2 DEF Between
<1> QED BY <1>4, <1>5

LEMMA DiffSearchesSays ==
  ASSUME IInv, NEW t \in Tool, Says(t), DiffSearches(t)
  PROVE  Says(t)'
<1> DEFINE c == tools[t].does
           v == tools[t].visits
           commit == commits[v]
<1>1. c.cmd = "diff" /\ UNCHANGED commits BY DEF DiffSearches, Runs
<1>2. PICK step \in {"from", "to"} :
        /\ tools[t].step = step
        /\ CASE ~NeedsRoot(commit) -> Aborts(t)
             [] NeedsRoot(commit) /\ commit.parent # 0 -> Goes(t, [visits |-> commit.parent])
             [] NeedsRoot(commit) /\ commit.parent = 0 /\ step = "from" ->
                   Goes(t, [step |-> "to", visits |-> c.to])
             [] OTHER -> Exits(t, 0, Differences(commits[c.from].root, commits[c.to].root))
  BY DEF DiffSearches, Runs
<1>3. /\ c.from \in Commit /\ c.to \in Commit
      /\ step = "from" => Between(c.from, v)
      /\ step = "to" => Rooted(c.from) /\ Between(c.to, v)
  BY <1>1, <1>2 DEF Says, DiffSays
<1>4. ASSUME NEW s, Moved(t, s)
      PROVE  tools'[t].does = c /\ tools'[t].step = s
  BY <1>4 DEF Moved
<1>5. \A id : Ancestors(id)' = Ancestors(id) BY <1>1 DEF Ancestors
<1>6. CASE ~NeedsRoot(commit)
  <2>1. Moved(t, "abort") BY <1>2, <1>6, Shape, ExitsAt
  <2>2. v \in Ancestors(c.from) \union Ancestors(c.to)
    <3>1. v \in Commit BY <1>2, <1>3 DEF Between
    <3>2. v \in Ancestors(v) BY <3>1, AncestorsAre
    <3> QED BY <1>2, <1>3, <3>2 DEF Between
  <2>3. commits[v].root = None BY <1>6 DEF NeedsRoot
  <2>4. DiffFails(t)' BY <1>1, <1>4, <1>5, <2>1, <2>2, <2>3 DEF DiffFails
  <2> QED BY <1>1, <1>3, <1>4, <2>1, <2>4 DEF Says, DiffSays, Did, Commit
<1>7. CASE NeedsRoot(commit) /\ commit.parent # 0
  <2> DEFINE state == [visits |-> commit.parent]
  <2>1. DOMAIN state = {"visits"} /\ state.visits = commit.parent OBVIOUS
  <2> HIDE DEF state
  <2>2. Goes(t, state) BY <1>2, <1>7 DEF state
  <2>3. Moved(t, step) BY <1>2, <2>1, <2>2, GoesOn, Shape
  <2>4. tools'[t].visits = commit.parent BY <2>1, <2>2, GoesKeeps, Shape
  <2>5. /\ step = "from" => Between(c.from, commit.parent)
        /\ step = "to" => Between(c.to, commit.parent)
    BY <1>3, <1>7, PassesOn DEF NeedsRoot
  <2> QED BY <1>1, <1>2, <1>3, <1>4, <1>5, <2>3, <2>4, <2>5
         DEF Says, DiffSays, Did, Between, Rooted, Commit
<1>8. CASE NeedsRoot(commit) /\ commit.parent = 0 /\ step = "from"
  <2> DEFINE state == [step |-> "to", visits |-> c.to]
  <2>1. DOMAIN state = {"step", "visits"} /\ state.step = "to" /\ state.visits = c.to OBVIOUS
  <2> HIDE DEF state
  <2>2. Goes(t, state) BY <1>2, <1>8 DEF state
  <2>3. Moved(t, "to") BY <2>1, <2>2, GoesOn, Shape
  <2>4. tools'[t].visits = c.to BY <2>1, <2>2, GoesKeeps, Shape
  <2>5. Rooted(c.from) BY <1>3, <1>8, PassesOn DEF NeedsRoot
  <2>6. Between(c.to, c.to) BY <1>3 DEF Between
  <2> QED BY <1>1, <1>3, <1>4, <1>5, <2>3, <2>4, <2>5, <2>6
         DEF Says, DiffSays, Did, Between, Rooted, Commit
<1>9. CASE NeedsRoot(commit) /\ commit.parent = 0 /\ step # "from"
  <2> DEFINE from == commits[c.from].root
             to == commits[c.to].root
             shown == Differences(from, to)
  <2>1. Exits(t, 0, shown) BY <1>2, <1>9
  <2>2. Moved(t, "end") BY <2>1, Shape, ExitsAt
  <2>3. tools'[t].out = shown BY <2>1, Shape, ExitKeeps
  <2>4. Rooted(c.from) /\ Rooted(c.to) BY <1>2, <1>3, <1>9, PassesOn DEF NeedsRoot
  <2>5. /\ from \in [PathsOfWalk -> Node] /\ Whole(from)
        /\ to \in [PathsOfWalk -> Node] /\ Whole(to)
    <3> DEFINE Made == [stamp : Time, parent : Nat, root : Root]
    <3>1. commits \in Seq(Made) BY DEF IInv, TypeOK
    <3> HIDE DEF Made
    <3>2. commits[c.from] \in Made /\ commits[c.to] \in Made
      BY <1>3, <3>1, ElementOfSeq DEF Commit
    <3>3. c.from \in Ancestors(c.from) /\ c.to \in Ancestors(c.to) BY <1>3, AncestorsAre
    <3>4. from # None /\ to # None BY <2>4, <3>3 DEF Rooted
    <3> QED BY <3>2, <3>4 DEF Made, Root
  <2>6. /\ \A p \in PathsOfWalk : p \in DOMAIN shown <=> {from[p], to[p]} # {None}
        /\ \A p \in DOMAIN shown :
              shown[p][1] # shown[p][2] <=> \E q \in PathsOfWalk : IsPrefix(p, q) /\ from[q] # to[q]
    BY <2>5, DifferencesTell
  <2>7. tools'[t].does = c /\ tools'[t].step = "end" BY <1>4, <2>2
  <2>8. commits'[tools'[t].does.from].root = from /\ commits'[tools'[t].does.to].root = to
    BY <1>1, <2>7
  <2>9. \A i \in (Ancestors(tools[t].does.from) \union Ancestors(tools[t].does.to))' :
           commits'[i].root # None
    BY <1>1, <1>5, <2>4, <2>7 DEF Rooted
  <2> HIDE DEF from, to, shown
  <2>10. DiffTells(t)' BY <2>3, <2>6, <2>8, <2>9 DEF DiffTells
  <2> QED BY <1>1, <1>3, <2>7, <2>10 DEF Says, DiffSays, Did, Commit
<1> QED BY <1>6, <1>7, <1>8, <1>9

LEMMA OpenWorkspaceSays ==
  ASSUME IInv, NEW t \in Tool, Says(t), OpenWorkspace(t)
  PROVE  Says(t)'
<1> DEFINE c == tools[t].does
           state == [step |-> "work", seen |-> workspaces[c.name]]
<1>1. /\ c.cmd \in {"commit", "execute", "export", "ls"} /\ UNCHANGED commits
      /\ IF workspaces[c.name] = None THEN Exits(t, 1, None) ELSE Goes(t, state)
      /\ tools[t].step = "open"
  BY DEF OpenWorkspace
<1>2. CASE workspaces[c.name] = None
  <2>1. Moved(t, "end") BY <1>1, <1>2, Shape, ExitsAt
  <2>2. tools'[t].code = 1 BY <1>1, <1>2, Shape, ExitKeeps
  <2> QED BY <1>1, <2>1, <2>2, EndsBadly
<1>3. CASE workspaces[c.name] # None
  <2>1. DOMAIN state = {"step", "seen"} /\ state.step = "work" /\ state.seen = workspaces[c.name]
    OBVIOUS
  <2> HIDE DEF state
  <2>2. Moved(t, "work") BY <1>1, <1>3, <2>1, GoesOn, Shape
  <2>3. "seen" \in DOMAIN tools'[t] /\ tools'[t].seen = workspaces[c.name]
    BY <1>1, <1>3, <2>1, GoesKeeps, Shape
  <2>4. tools'[t].does = c /\ tools'[t].step = "work" BY <2>2 DEF Moved
  <2>5. CASE c.cmd # "export" BY <1>1, <2>2, <2>5, OtherSays
  <2>6. CASE c.cmd = "export"
    <3>1. c.name \in Name BY <2>6 DEF IInv, Fits, Named
    <3>2. workspaces[c.name] \in File BY <1>3, <3>1 DEF IInv, TypeOK
    <3>3. tools'[t].seen.root \in Root BY <2>3, <3>2 DEF File
    <3> QED BY <2>3, <2>4, <2>6, <3>3 DEF Says, ExportSays, Did
  <2> QED BY <2>5, <2>6
<1> QED BY <1>2, <1>3

LEMMA ExportStartsSays ==
  ASSUME IInv, NEW t \in Tool, Says(t), ExportStarts(t)
  PROVE  Says(t)'
<1> DEFINE root == tools[t].seen.root
           todo == Listing(root, <<>>, TRUE)
<1>1. tools[t].does.cmd = "export" /\ tools[t].step = "work" BY DEF ExportStarts, Runs
<1>2. PICK there \in BOOLEAN :
        Goes(t, [step |-> "files", found |-> there, there |-> there, out |-> NoFiles, todo |-> todo])
  BY DEF ExportStarts
<1> DEFINE state ==
             [step |-> "files", found |-> there, there |-> there, out |-> NoFiles, todo |-> todo]
<1>3. "seen" \in DOMAIN tools[t] /\ root \in Root BY <1>1 DEF Says, ExportSays
<1> HIDE DEF todo
<1>4. /\ DOMAIN state = {"step", "found", "there", "out", "todo"}
      /\ state.step = "files" /\ state.found = there /\ state.there = there
      /\ state.out = NoFiles /\ state.todo = todo
  OBVIOUS
<1>5. Goes(t, state) BY <1>2 DEF todo
<1> HIDE DEF state
<1>6. Moved(t, "files") BY <1>4, <1>5, GoesOn, Shape
<1>7. /\ {"found", "there", "out", "todo", "seen"} \subseteq DOMAIN tools'[t]
      /\ tools'[t].found = there /\ tools'[t].there = there
      /\ tools'[t].out = NoFiles /\ tools'[t].todo = todo /\ tools'[t].seen = tools[t].seen
  <2>1. \A f \in {"found", "there", "out", "todo"} : f \in DOMAIN tools'[t] /\ tools'[t][f] = state[f]
    BY <1>4, <1>5, GoesKeeps, Shape
  <2>2. "seen" \in DOMAIN tools'[t] /\ tools'[t]["seen"] = tools[t]["seen"]
    BY <1>3, <1>4, <1>5, GoesKeeps, Shape
  <2> QED BY <1>4, <2>1, <2>2
<1>8. tools'[t].does = tools[t].does /\ tools'[t].step = "files" BY <1>6 DEF Moved
<1>9. /\ todo \in Seq(PathsOfWalk)
      /\ root = None => ToSet(todo) = {}
      /\ root # None => ToSet(todo) = There(root)
  <2>1. ToSet(<<>>) = {} BY DEF ToSet
  <2> QED BY <1>3, <2>1, ListingIs DEF todo
<1>10. Copied(root, NoFiles, todo)
  <2>1. NoFiles = [p \in DOMAIN NoFiles |-> root[p].data] /\ DOMAIN NoFiles = {} BY DEF NoFiles
  <2>2. EntitiesOf(root) \subseteq ToSet(todo) BY <1>9 DEF EntitiesOf, IsEntity, There
  <2> QED BY <2>1, <2>2 DEF Copied
<1>11. \A p \in ToSet(todo) : root # None /\ root[p] # None BY <1>9 DEF There
<1> HIDE DEF root
<1>12. ExportSays(t)'
  <2>1. tools'[t].seen.root = root BY <1>7 DEF root
  <2> QED BY <1>3, <1>7, <1>8, <1>9, <1>10, <1>11, <2>1 DEF ExportSays, Did
<1> QED BY <1>1, <1>8, <1>12 DEF Says

(* One more path is done. *)
LEMMA TailIs ==
  ASSUME NEW S, NEW s \in Seq(S), s # <<>>
  PROVE  /\ Head(s) \in S /\ Tail(s) \in Seq(S)
         /\ ToSet(s) = {Head(s)} \union ToSet(Tail(s))
<1>1. Len(s) \in Nat \ {0} BY LenProperties, EmptySeq
<1>2. Head(s) \in S /\ Tail(s) \in Seq(S) BY HeadTailProperties
<1>3. /\ Len(Tail(s)) = Len(s) - 1 /\ Head(s) = s[1]
      /\ \A i \in 1..Len(Tail(s)) : Tail(s)[i] = s[i + 1]
  BY <1>1, HeadTailProperties
<1>4. ToSet(s) = {s[i] : i \in 1..Len(s)} /\ ToSet(Tail(s)) = {Tail(s)[i] : i \in 1..Len(Tail(s))}
  BY <1>2, Elements DEF ToSet
<1>5. ASSUME NEW i \in 1..Len(s) PROVE s[i] \in {Head(s)} \union ToSet(Tail(s))
  <2>1. CASE i = 1 BY <1>3, <2>1
  <2>2. CASE i # 1
    <3>1. i - 1 \in 1..Len(Tail(s)) /\ (i - 1) + 1 = i BY <1>1, <1>3, <2>2
    <3>2. Tail(s)[i - 1] = s[i] BY <1>3, <3>1
    <3> QED BY <1>4, <3>1, <3>2
  <2> QED BY <2>1, <2>2
<1>6. ASSUME NEW i \in 1..Len(Tail(s)) PROVE Tail(s)[i] \in ToSet(s)
  <2>1. i + 1 \in 1..Len(s) BY <1>1, <1>3
  <2> QED BY <1>3, <1>4, <2>1
<1>7. Head(s) \in ToSet(s)
  <2>1. 1 \in 1..Len(s) BY <1>1
  <2> QED BY <1>3, <1>4, <2>1
<1> QED BY <1>2, <1>4, <1>5, <1>6, <1>7

LEMMA ExportGoesOnSays ==
  ASSUME IInv, NEW t \in Tool, Says(t), ExportMakesTree(t) \/ ExportCopies(t)
  PROVE  Says(t)'
<1> DEFINE root == tools[t].seen.root
           todo == tools[t].todo
           out == tools[t].out
           p == Head(todo)
           bytes == BytesOf(root[p])
<1>1. /\ tools[t].does.cmd = "export" /\ tools[t].step = "files" /\ UNCHANGED commits
      /\ todo # <<>>
  BY DEF ExportMakesTree, ExportCopies, Runs
<1>2. /\ {"seen", "found", "there", "out", "todo"} \subseteq DOMAIN tools[t]
      /\ root \in Root /\ todo \in Seq(PathsOfWalk)
      /\ \A q \in ToSet(todo) : root # None /\ root[q] # None
      /\ tools[t].found /\ (\A q \in EntitiesOf(root) : root[q].where = "workspace") =>
            tools[t].there /\ Copied(root, out, todo)
  BY <1>1 DEF Says, ExportSays
<1>3. p \in PathsOfWalk /\ Tail(todo) \in Seq(PathsOfWalk) /\ ToSet(todo) = {p} \union ToSet(Tail(todo))
  BY <1>1, <1>2, TailIs
<1>4. root # None /\ root[p] # None /\ Whole(root) BY <1>2, <1>3 DEF Root
(* It is enough to know how the files and what is to do change. *)
<1>5. ASSUME NEW newOut, NEW there, NEW state, DOMAIN state \subseteq {"todo", "out", "there"},
             "todo" \in DOMAIN state, state.todo = Tail(todo),
             newOut = IF "out" \in DOMAIN state THEN state.out ELSE out,
             there = IF "there" \in DOMAIN state THEN state.there ELSE tools[t].there,
             tools[t].there => there,
             tools[t].there /\ Copied(root, out, todo)
               /\ (\A q \in EntitiesOf(root) : root[q].where = "workspace")
               => Copied(root, newOut, Tail(todo)),
             Goes(t, state)
      PROVE  Says(t)'
  <2>1. Moved(t, "files") BY <1>1, <1>5, GoesOn, Shape
  <2>2. /\ {"seen", "found", "there", "out", "todo"} \subseteq DOMAIN tools'[t]
        /\ tools'[t].seen = tools[t].seen /\ tools'[t].found = tools[t].found
        /\ tools'[t].todo = Tail(todo) /\ tools'[t].out = newOut /\ tools'[t].there = there
    <3>1. /\ \A f \in DOMAIN state : f \in DOMAIN tools'[t] /\ tools'[t][f] = state[f]
          /\ \A f \in DOMAIN tools[t] \ DOMAIN state :
                f \in DOMAIN tools'[t] /\ tools'[t][f] = tools[t][f]
      BY <1>5, GoesKeeps, Shape
    <3>2. tools'[t]["seen"] = tools[t]["seen"] /\ tools'[t]["found"] = tools[t]["found"]
      BY <1>2, <1>5, <3>1
    <3>3. tools'[t]["todo"] = state["todo"] BY <1>5, <3>1
    <3>4. tools'[t]["out"] = newOut BY <1>2, <1>5, <3>1
    <3>5. tools'[t]["there"] = there BY <1>2, <1>5, <3>1
    <3>6. {"seen", "found", "there", "out", "todo"} \subseteq DOMAIN tools'[t] BY <1>2, <3>1
    <3> QED BY <1>5, <3>2, <3>3, <3>4, <3>5, <3>6
  <2>3. tools'[t].does = tools[t].does /\ tools'[t].step = "files" BY <2>1 DEF Moved
  <2>4. tools'[t].seen.root = root BY <2>2
  <2>5. \A q \in ToSet(Tail(todo)) : root # None /\ root[q] # None BY <1>2, <1>3
  <2> HIDE DEF root, todo, out
  <2>6. ExportSays(t)' BY <1>2, <1>3, <1>5, <2>2, <2>3, <2>4, <2>5 DEF ExportSays, Did
  <2> QED BY <1>1, <2>3, <2>6 DEF Says
<1>6. CASE ExportMakesTree(t)
  <2> DEFINE state == [there |-> TRUE, todo |-> Tail(todo)]
  <2>1. p \in Folder /\ Goes(t, state) BY <1>6 DEF ExportMakesTree
  <2>2. DOMAIN state = {"there", "todo"} /\ state.there = TRUE /\ state.todo = Tail(todo) OBVIOUS
  <2> HIDE DEF state
  <2>3. p \notin EntitiesOf(root) BY <1>3, <1>4, <2>1 DEF Whole, EntitiesOf, IsEntity
  <2>4. Copied(root, out, todo) => Copied(root, out, Tail(todo)) BY <1>3, <2>3 DEF Copied
  <2> HIDE DEF root, todo, out, p
  <2> QED BY <1>5, <2>1, <2>2, <2>4
<1>7. CASE ExportCopies(t)
  <2> DEFINE new == IF tools[t].there THEN Over(At(p, bytes), out) ELSE out
             state == [todo |-> Tail(todo), out |-> new]
  <2>1. p \notin Folder /\ (UNCHANGED tools \/ Crashes(t) \/ Goes(t, state))
    BY <1>7 DEF ExportCopies
  <2>2. CASE UNCHANGED tools BY <1>1, <2>2, SameSays
  <2>3. CASE Goes(t, state)
    <3>1. DOMAIN state = {"todo", "out"} /\ state.todo = Tail(todo) /\ state.out = new OBVIOUS
    <3> HIDE DEF state
    <3>2. p \in EntitiesOf(root) BY <1>3, <1>4, <2>1 DEF Whole, EntitiesOf, IsEntity
    <3>3. ASSUME tools[t].there, Copied(root, out, todo),
                 \A q \in EntitiesOf(root) : root[q].where = "workspace"
          PROVE  Copied(root, new, Tail(todo))
      <4>1. bytes = root[p].data BY <3>2, <3>3 DEF BytesOf
      <4>2. new = [q \in {p} \union DOMAIN out |-> IF q = p THEN bytes ELSE out[q]]
        BY <3>3 DEF Over, At
      <4>3. DOMAIN new = {p} \union DOMAIN out
        <5> HIDE DEF new, bytes, p, out, root
        <5> QED BY <4>2
      <4>4. \A q \in DOMAIN out : out[q] = root[q].data BY <3>3 DEF Copied
      <4>5. new = [q \in DOMAIN new |-> root[q].data]
        <5> HIDE DEF new, bytes, p, out, root
        <5> QED BY <4>1, <4>2, <4>3, <4>4
      <4> HIDE DEF new
      <4>6. DOMAIN new \subseteq EntitiesOf(root) BY <3>2, <3>3, <4>3 DEF Copied
      <4>7. EntitiesOf(root) \subseteq DOMAIN new \union ToSet(Tail(todo))
        BY <1>3, <3>3, <4>3 DEF Copied
      <4> QED BY <4>5, <4>6, <4>7 DEF Copied
    <3> HIDE DEF root, todo, out, p, new
    <3> QED BY <1>5, <2>3, <3>1, <3>3
  <2>4. CASE Crashes(t)
    <3>1. Moved(t, "crash") BY <2>4, Shape, ExitsAt
    <3> QED BY <1>1, <3>1, EndsBadly
  <2> QED BY <2>1, <2>2, <2>3, <2>4
<1> QED BY <1>6, <1>7

LEMMA ExportEndsSays ==
  ASSUME IInv, NEW t \in Tool, Says(t), ExportEnds(t)
  PROVE  Says(t)'
<1> DEFINE root == tools[t].seen.root
           todo == tools[t].todo
           out == tools[t].out
           told == [files |-> out, of |-> root, found |-> tools[t].found]
<1>1. /\ tools[t].does.cmd = "export" /\ tools[t].step = "files" /\ todo = <<>>
      /\ Exits(t, 0, told)
  BY DEF ExportEnds, Runs
<1>2. tools[t].found /\ (\A q \in EntitiesOf(root) : root[q].where = "workspace") =>
        Copied(root, out, todo)
  BY <1>1 DEF Says, ExportSays
<1>3. told.files = out /\ told.of = root /\ told.found = tools[t].found OBVIOUS
<1> HIDE DEF told
<1>4. Moved(t, "end") BY <1>1, Shape, ExitsAt
<1>5. tools'[t].out = told BY <1>1, Shape, ExitKeeps
<1>6. tools'[t].does = tools[t].does /\ tools'[t].step = "end" BY <1>4 DEF Moved
<1>7. ToSet(todo) = {} BY <1>1 DEF ToSet
<1> HIDE DEF root, todo, out
<1>8. Copied(root, out, todo) => out = [p \in EntitiesOf(root) |-> root[p].data]
  <2>1. SUFFICES ASSUME Copied(root, out, todo)
                 PROVE  out = [p \in EntitiesOf(root) |-> root[p].data]
    OBVIOUS
  <2>2. DOMAIN out = EntitiesOf(root) BY <1>7, <2>1 DEF Copied
  <2> QED BY <2>1, <2>2 DEF Copied
<1>9. ExportTells(t)'
  BY <1>2, <1>3, <1>5, <1>8 DEF ExportTells, EntitiesOf
<1> QED BY <1>1, <1>6, <1>9 DEF Says, ExportSays, Did

-----------------------------------------------------------------------------
(* A step of one tool leaves true what the others know.                    *)
LEMMA StepSays ==
  ASSUME KInv, NEW t \in Tool, Step(t)
  PROVE  \A u \in Tool : Says(u)'
<1>1. IInv /\ Says(t) /\ \A u \in Tool : Says(u) BY DEF KInv
<1>2. \A u \in Tool \ {t} : tools'[u] = tools[u]
  <2>1. CASE UNCHANGED tools BY <2>1
  <2>2. ASSUME NEW state, Goes(t, state) PROVE \A u \in Tool \ {t} : tools'[u] = tools[u]
    BY <1>1, <2>2 DEF Goes, IInv, TypeOK
  <2>3. ASSUME NEW how, Ends(t, how) PROVE \A u \in Tool \ {t} : tools'[u] = tools[u]
    BY <1>1, <2>3 DEF Ends, IInv, TypeOK
  <2>4. \/ UNCHANGED tools \/ \E state : Goes(t, state) \/ \E how : Ends(t, how)
    <3>1. CASE BadOptions(t) \/ NoRepository(t) \/ RemoteFails(t)
      BY <3>1 DEF BadOptions, NoRepository, RemoteFails, Exits, Crashes
    <3>2. CASE CheckoutLooks(t) \/ CheckoutCreates(t) \/ OpenWorkspace(t)
      BY <3>2 DEF CheckoutLooks, CheckoutCreates, OpenWorkspace, Exits
    <3>3. CASE CommitWorks(t) BY <3>3 DEF CommitWorks, Exits
    <3>4. CASE ExecuteWorks(t) BY <3>4 DEF ExecuteWorks, Exits
    <3>5. CASE LsWorks(t) \/ LsAllWorks(t) BY <3>5 DEF LsWorks, LsAllWorks, Exits
    <3>6. CASE LogOpens(t) \/ LogSearches(t) BY <3>6 DEF LogOpens, LogSearches, Exits
    <3>7. CASE DiffOpens(t) BY <3>7 DEF DiffOpens, Exits
    <3>8. CASE DiffSearches(t) BY <3>8 DEF DiffSearches, Exits, Aborts
    <3>9. CASE ExportStarts(t) BY <3>9 DEF ExportStarts
    <3>10. CASE ExportMakesTree(t) \/ ExportCopies(t) \/ ExportEnds(t)
      BY <3>10 DEF ExportMakesTree, ExportCopies, ExportEnds, Exits, Crashes
    <3> QED BY <3>1, <3>2, <3>3, <3>4, <3>5, <3>6, <3>7, <3>8, <3>9, <3>10 DEF Step
  <2> QED BY <2>1, <2>2, <2>3, <2>4
<1>3. ASSUME UNCHANGED commits, NEW u \in Tool \ {t} PROVE Says(u)'
  BY <1>1, <1>2, <1>3, SameSays
<1>4. CASE CommitWorks(t)
  <2>1. tools[t].does.cmd = "commit" /\ Moved(t, "end") BY <1>1, <1>4, Commits
  <2>2. PICK commit \in [stamp : Time, parent : Nat, root : Root] : commits' = WithCommit(commit)
    BY <1>1, <1>4, Commits
  <2>3. /\ Len(commits') \in Nat /\ Len(commits') >= Len(commits)
        /\ \A i \in 1..Len(commits) : commits'[i] = commits[i]
    <3>1. Len(commits) \in Nat BY <1>1 DEF IInv, TypeOK
    <3>2. /\ Len(commits') \in Nat /\ Len(commits') >= Len(commits)
          /\ \A i \in 1..Len(commits') :
                \/ i \in 1..Len(commits) /\ commits'[i] = commits[i]
                \/ i = Len(commits) + 1
      BY <1>1, <2>2, CommitGrows
    <3> QED BY <3>1, <3>2
  <2>4. Says(t)' BY <2>1, OtherSays
  <2>5. ASSUME NEW u \in Tool \ {t} PROVE Says(u)'
    <3>1. tools[u].does.cmd \in {"log", "nothing"} BY <1>1, <2>1 DEF IInv, Alone, Together
    <3> QED BY <1>1, <1>2, <2>3, <3>1, GrownSays
  <2> QED BY <2>4, <2>5
<1>5. CASE ~CommitWorks(t)
  <2>1. UNCHANGED commits
    BY <1>5 DEF Step, BadOptions, NoRepository, RemoteFails, CheckoutLooks, CheckoutCreates,
                OpenWorkspace, ExecuteWorks, LsWorks, LsAllWorks, LogOpens, LogSearches, DiffOpens,
                DiffSearches, ExportStarts, ExportMakesTree, ExportCopies, ExportEnds
  <2>2. Says(t)'
    <3>1. CASE BadOptions(t) \/ NoRepository(t) \/ RemoteFails(t) BY <1>1, <3>1, OpenSays
    <3>2. CASE OpenWorkspace(t) BY <1>1, <3>2, OpenWorkspaceSays
    <3>3. CASE LogOpens(t) BY <1>1, <3>3, LogOpensSays
    <3>4. CASE LogSearches(t) BY <1>1, <3>4, LogSearchesSays
    <3>5. CASE DiffOpens(t) BY <1>1, <3>5, DiffOpensSays
    <3>6. CASE DiffSearches(t) BY <1>1, <3>6, DiffSearchesSays
    <3>7. CASE ExportStarts(t) BY <1>1, <3>7, ExportStartsSays
    <3>8. CASE ExportMakesTree(t) \/ ExportCopies(t) BY <1>1, <3>8, ExportGoesOnSays
    <3>9. CASE ExportEnds(t) BY <1>1, <3>9, ExportEndsSays
    <3>10. CASE CheckoutLooks(t)
      <4>1. tools[t].does.cmd = "checkout" /\ \E step : Moved(t, step)
        <5>1. tools[t].does.cmd = "checkout" BY <3>10 DEF CheckoutLooks, Runs
        <5>2. CASE Exits(t, 1, None)
          <6>1. Moved(t, "end") BY <1>1, <5>2, Shape, ExitsAt
          <6> QED BY <5>1, <6>1
        <5>3. ASSUME NEW parent, Goes(t, [step |-> "create", parent |-> parent])
              PROVE  \E step : Moved(t, step)
          <6>1. Moved(t, "create") BY <1>1, <5>3, Shape, GoesOn
          <6> QED BY <6>1
        <5> QED BY <3>10, <5>1, <5>2, <5>3 DEF CheckoutLooks
      <4> QED BY <4>1, OtherSays
    <3>11. CASE CheckoutCreates(t) \/ ExecuteWorks(t) \/ LsWorks(t) \/ LsAllWorks(t)
      <4>1. tools[t].does.cmd \in {"checkout", "execute", "ls", "lsAll"}
        BY <3>11 DEF CheckoutCreates, ExecuteWorks, LsWorks, LsAllWorks, Runs
      <4>2. \E code, out : Exits(t, code, out)
        BY <3>11 DEF CheckoutCreates, ExecuteWorks, LsWorks, LsAllWorks
      <4>3. Moved(t, "end") BY <1>1, <4>2, Shape, ExitsAt
      <4> QED BY <4>1, <4>3, OtherSays
    <3> QED BY <1>5, <3>1, <3>2, <3>3, <3>4, <3>5, <3>6, <3>7, <3>8, <3>9, <3>10, <3>11 DEF Step
  <2> QED BY <1>3, <2>1, <2>2
<1> QED BY <1>4, <1>5

LEMMA NextKInv == KInv /\ [Next]_vars => KInv'
<1> SUFFICES ASSUME KInv, [Next]_vars PROVE KInv' OBVIOUS
<1>1. IInv /\ \A t \in Tool : Says(t) BY DEF KInv
<1>2. IInv' BY <1>1, NextIInv
<1>3. \A t \in Tool : Says(t)'
  <2>1. CASE UNCHANGED vars BY <1>1, <2>1, SameSays DEF vars
  <2>2. ASSUME NEW t \in Tool, Invoke(t) \/ IsGone(t) PROVE \A u \in Tool : Says(u)'
    <3>1. /\ Says(t)' /\ UNCHANGED commits
          /\ \A u \in Tool \ {t} : tools'[u] = tools[u]
      BY <1>1, <2>2, InvokeSays
    <3> QED BY <1>1, <3>1, SameSays
  <2>3. ASSUME NEW t \in Tool, Step(t) PROVE \A u \in Tool : Says(u)' BY <2>3, StepSays
  <2> QED BY <2>1, <2>2, <2>3 DEF Next
<1> QED BY <1>2, <1>3 DEF KInv

LEMMA InitKInv == Init => KInv
<1> SUFFICES ASSUME Init PROVE \A t \in Tool : Says(t) BY InitIInv DEF KInv
<1>1. \A t \in Tool : tools[t] = Idle BY DEF Init
<1> QED BY <1>1 DEF Says, Idle

LEMMA KInvTells == KInv => Tells
<1> SUFFICES ASSUME KInv, NEW t \in Tool
             PROVE  /\ Did(t, "log") => LogTells(t)
                    /\ Did(t, "diff") => DiffTells(t)
                    /\ Runs(t, "diff", "abort") => DiffFails(t)
                    /\ Did(t, "export") => ExportTells(t)
  BY DEF Tells
<1>1. Says(t) BY DEF KInv
<1>2. Did(t, "log") => LogTells(t)
  BY <1>1 DEF Says, LogSays, Did, LogTells, Chained, EndsWell
<1>3. Did(t, "diff") => DiffTells(t) BY <1>1 DEF Says, DiffSays, Did
<1>4. Runs(t, "diff", "abort") => DiffFails(t) BY <1>1 DEF Says, DiffSays, Runs
<1>5. Did(t, "export") => ExportTells(t) BY <1>1 DEF Says, ExportSays, Did
<1> QED BY <1>2, <1>3, <1>4, <1>5

(* What log, diff and checkout2filesystem tell is what the repository      *)
(* holds, for any history, however deep its trees, and beside commits:     *)
(* the breadth-first search of log (breadthFirstSearch.cpp) skips commits  *)
(* only where a parent has the stamp of its child, diff shows a path as    *)
(* changed exactly if something there or below it was, and an export of    *)
(* uncommitted data is complete.                                           *)
THEOREM ToolsTell == Spec => []Tells
<1>1. Init => KInv BY InitKInv
<1>2. KInv /\ [Next]_vars => KInv' BY NextKInv
<1>3. KInv => Tells BY KInvTells
<1> QED BY <1>1, <1>2, <1>3, PTL DEF Spec

=============================================================================
