--------------------------- MODULE RequestsProofs ---------------------------
(***************************************************************************)
(* Proofs about Requests, for any processes, threads, calls and settings:  *)
(* types, turns of requests and replies, and that calls are executed at    *)
(* most once and answered with their own answer.                           *)
(*                                                                         *)
(* A reply carries no number, so why is it the answer to the call that     *)
(* receives it?  The mutex lets one thread of a process be beyond Lock     *)
(* (Mutex), and what is under way for a connected process is what one of   *)
(* its threads waits for (Turns); so the thread that receives is the one   *)
(* the reply is for.  Turns survives a time-out only because the socket    *)
(* is disconnected for good.  A request is executed once because it is in  *)
(* one place at a time (OnePlace) and is sent once (Fresh).                *)
(***************************************************************************)
EXTENDS Requests, TLAPS

-----------------------------------------------------------------------------
(* The inductive invariant.                                                *)

InQueue(i) == \E r \in queue : r.id = i
Handling(i) == server.is = "handling" /\ server.request.id = i
Replying(i) == server.is = "replying" /\ server.request.id = i
InInbox(i) == \E p \in Process : inbox[p].id = i

(* Beyond waiting for the mutex, a thread holds it. *)
Mutex == \A t \in Thread : InCall(t) /\ ~At(t, "lock") => holder[ProcessOf[t]] = t

(* A thread in a call runs, and receives from a socket that is connected. *)
Alive ==
    \A t \in Thread : InCall(t) =>
        /\ ProcessOf[t] \in up
        /\ At(t, "receive") => connected[ProcessOf[t]]

(* Each call is of one thread. *)
OwnCall == \A t, u \in Thread : InCall(t) /\ InCall(u) /\ call[t].id = call[u].id => t = u

(* Until it has its answer, a thread's call is open. *)
StaysOpen ==
    \A t \in Thread : InCall(t) =>
        /\ outcome[call[t].id] # "unused"
        /\ ~At(t, "frames") /\ ~At(t, "unlock") => outcome[call[t].id] = "open"

(* A request is sent once. *)
NotSent(i) == executed[i] = 0 /\ ~InQueue(i) /\ ~Handling(i) /\ ~Replying(i) /\ ~InInbox(i)
Fresh ==
    /\ \A i \in CallId : outcome[i] = "unused" => NotSent(i)
    /\ \A t \in Thread : At(t, "lock") \/ At(t, "send") => NotSent(call[t].id)

(* It is in one place, and executed on its way through the server. *)
OnePlace ==
    /\ \A q, r \in queue : q.id = r.id => q = r
    /\ \A i \in CallId :
          /\ executed[i] \in {0, 1}
          /\ InQueue(i) => executed[i] = 0 /\ ~Handling(i) /\ ~Replying(i)
          /\ Handling(i) => executed[i] = 0
          /\ Replying(i) => executed[i] = 1 /\ ~InInbox(i)
          /\ InInbox(i) => executed[i] = 1

(* Of a process that is connected, what is under way is what a thread waits for. *)
Has(p, i) ==
    \/ \E r \in queue : r.from = p /\ r.id = i
    \/ inbox[p] # Nothing /\ inbox[p].id = i
    \/ (Handling(i) \/ Replying(i)) /\ server.request.from = p
Awaited(p, i) == \E t \in Thread : ProcessOf[t] = p /\ At(t, "receive") /\ call[t].id = i
Turns == \A p \in up, i \in CallId : connected[p] /\ Has(p, i) => Awaited(p, i)

IInv == TypeOK /\ Mutex /\ Alive /\ OwnCall /\ StaysOpen /\ Fresh /\ OnePlace /\ Turns

-----------------------------------------------------------------------------
(* Calls.                                                                  *)

Stages == {"lock", "send", "receive", "frames", "unlock"}

(* A thread is in a call of its own number, or in none. *)
LEMMA CallType ==
    ASSUME TypeOK, NEW t \in Thread
    PROVE  /\ ProcessOf[t] \in Process
           /\ InCall(t) => call[t].kind \in Kind /\ call[t].at \in Stages /\ call[t].id \in CallId
           /\ InCall(t) <=> call[t].at # "none"
           /\ ~InCall(t) => call[t] = NoCall /\ call[t].id \notin CallId
<1>1. call[t] \in [kind : Kind, at : Stages, id : CallId] \union {NoCall}
  BY DEF TypeOK, Stages
<1>2. CASE call[t] = NoCall
  BY <1>2, ThreadAssumption, BoundAssumption DEF InCall, NoCall, CallId
<1>3. CASE call[t] # NoCall
  BY <1>1, <1>3, ThreadAssumption DEF InCall, NoCall, Stages
<1> QED BY <1>2, <1>3

(* A thread's call goes on to its next stage. *)
LEMMA Moves ==
    ASSUME TypeOK, NEW t \in Thread, InCall(t), NEW s \in Stages,
           call' = [call EXCEPT ![t].at = s]
    PROVE  /\ call' \in [Thread -> [kind : Kind, at : Stages, id : CallId] \union {NoCall}]
           /\ \A u \in Thread : u # t => call'[u] = call[u]
           /\ call'[t].at = s /\ call'[t].id = call[t].id /\ call'[t].kind = call[t].kind
           /\ call'[t] # NoCall
<1>1. call[t] \in [kind : Kind, at : Stages, id : CallId]
  BY DEF TypeOK, Stages, InCall
<1>2. call \in [Thread -> [kind : Kind, at : Stages, id : CallId] \union {NoCall}]
  BY DEF TypeOK, Stages
<1>3. [call[t] EXCEPT !.at = s] \in [kind : Kind, at : Stages, id : CallId]
  BY <1>1
<1>4. call'[t] = [call[t] EXCEPT !.at = s]
  BY <1>2
<1>5. call'[t].at = s /\ call'[t].id = call[t].id /\ call'[t].kind = call[t].kind
  BY <1>1, <1>4
<1>6. call'[t] # NoCall
  BY <1>5 DEF NoCall, Stages
<1> QED BY <1>2, <1>3, <1>4, <1>5, <1>6

(* It ends. *)
LEMMA Leaves ==
    ASSUME TypeOK, NEW t \in Thread, Leave(t)
    PROVE  /\ call' \in [Thread -> [kind : Kind, at : Stages, id : CallId] \union {NoCall}]
           /\ \A u \in Thread : u # t => call'[u] = call[u]
           /\ call'[t] = NoCall
BY DEF TypeOK, Stages, Leave

(* Of the threads of a process, only the holder of its mutex is beyond     *)
(* waiting for it.                                                         *)
LEMMA Alone ==
    ASSUME Mutex, NEW t \in Thread, InCall(t), ~At(t, "lock"),
           NEW u \in Thread, ProcessOf[u] = ProcessOf[t], InCall(u), ~At(u, "lock")
    PROVE  u = t
BY DEF Mutex

-----------------------------------------------------------------------------
(* The client's steps, one lemma each.                                     *)

LEMMA CallStep ==
    ASSUME IInv, NEW t \in Thread, NEW kind \in Kind, NEW i \in CallId, Call(t, kind, i)
    PROVE  IInv'
<1> USE DEF IInv, Call
<1>1. /\ ~InCall(t) /\ outcome[i] = "unused"
      /\ \A u \in Thread : u # t => call'[u] = call[u]
      /\ call'[t] = [kind |-> kind, at |-> "lock", id |-> i]
      /\ call'[t].kind = kind /\ call'[t].at = "lock" /\ call'[t].id = i
      /\ outcome'[i] = "open" /\ \A j \in CallId : j # i => outcome'[j] = outcome[j]
  BY DEF TypeOK
<1>2. TypeOK'
  <2>1. call' \in [Thread -> [kind : Kind, at : Stages, id : CallId] \union {NoCall}]
    BY DEF TypeOK, Stages
  <2>2. outcome' \in [CallId -> {"unused", "open", "answered", "deceived", "given up"}]
    BY DEF TypeOK
  <2> QED BY <2>1, <2>2 DEF TypeOK, Stages
<1>3. Mutex'
  BY <1>1 DEF Mutex, InCall, At
<1>4. Alive'
  BY <1>1 DEF Alive, InCall, At
<1>5. \A u \in Thread : InCall(u) => call[u].id \in CallId /\ call[u].id # i
  BY <1>1, CallType DEF StaysOpen
<1>6. OwnCall'
  BY <1>1, <1>5 DEF OwnCall, InCall
<1>7. StaysOpen'
  BY <1>1, <1>5 DEF StaysOpen, InCall, At
<1>8. Fresh'
  BY <1>1, <1>5 DEF Fresh, NotSent, InQueue, Handling, Replying, InInbox, At
<1>9. OnePlace'
  BY DEF OnePlace, InQueue, Handling, Replying, InInbox
<1>10. Turns'
  <2> SUFFICES ASSUME NEW p \in up, NEW j \in CallId, connected[p], Has(p, j)
               PROVE  Awaited(p, j)'
    BY DEF Turns, Has, Handling, Replying
  <2>1. PICK u \in Thread : ProcessOf[u] = p /\ At(u, "receive") /\ call[u].id = j
    BY DEF Turns, Awaited
  <2>2. u # t
    BY <1>1, <2>1, CallType DEF At
  <2> QED BY <1>1, <2>1, <2>2 DEF Awaited, At
<1> QED BY <1>2, <1>3, <1>4, <1>6, <1>7, <1>8, <1>9, <1>10

LEMMA LockStep ==
    ASSUME IInv, NEW t \in Thread, Lock(t)
    PROVE  IInv'
<1> USE DEF IInv, Lock
<1> DEFINE p == ProcessOf[t]
<1>1. /\ InCall(t) /\ call[t].at = "lock" /\ p \in Process
      /\ \A u \in Thread : u # t => call'[u] = call[u]
      /\ call'[t].at = "send" /\ call'[t].id = call[t].id /\ call'[t].kind = call[t].kind
      /\ call'[t] # NoCall
  BY CallType, Moves DEF At, Stages
<1>2. holder'[p] = t /\ \A q \in Process : q # p => holder'[q] = holder[q]
  BY <1>1 DEF TypeOK
<1>3. TypeOK'
  <2>1. call' \in [Thread -> [kind : Kind, at : Stages, id : CallId] \union {NoCall}]
    BY <1>1, Moves DEF Stages
  <2>2. holder' \in [Process -> Thread \union {"nobody"}]
    BY DEF TypeOK
  <2> QED BY <2>1, <2>2 DEF TypeOK, Stages
<1>4. Mutex'
  <2> SUFFICES ASSUME NEW u \in Thread, InCall(u)', ~At(u, "lock")', u # t
               PROVE  holder'[ProcessOf[u]] = u
    BY <1>2 DEF Mutex
  <2>1. holder[ProcessOf[u]] = u
    BY <1>1 DEF Mutex, InCall, At
  <2>2. ProcessOf[u] # p /\ ProcessOf[u] \in Process
    BY <2>1, ThreadAssumption
  <2> QED BY <1>2, <2>1, <2>2
<1>5. Alive'
  BY <1>1 DEF Alive, InCall, At
<1>6. OwnCall'
  BY <1>1 DEF OwnCall, InCall
<1>7. StaysOpen'
  BY <1>1 DEF StaysOpen, InCall, At
<1>8. Fresh'
  BY <1>1 DEF Fresh, NotSent, InQueue, Handling, Replying, InInbox, At
<1>9. OnePlace'
  BY DEF OnePlace, InQueue, Handling, Replying, InInbox
<1>10. Turns'
  <2> SUFFICES ASSUME NEW q \in up, NEW j \in CallId, connected[q], Has(q, j)
               PROVE  Awaited(q, j)'
    BY DEF Turns, Has, Handling, Replying
  <2>1. PICK u \in Thread : ProcessOf[u] = q /\ At(u, "receive") /\ call[u].id = j
    BY DEF Turns, Awaited
  <2>2. u # t
    BY <1>1, <2>1 DEF At
  <2> QED BY <1>1, <2>1, <2>2 DEF Awaited, At
<1> QED BY <1>3, <1>4, <1>5, <1>6, <1>7, <1>8, <1>9, <1>10

LEMMA SendStep ==
    ASSUME IInv, NEW t \in Thread, Send(t)
    PROVE  IInv'
<1> USE DEF IInv, Send
<1> DEFINE p == ProcessOf[t]
<1> DEFINE i == call[t].id
<1> DEFINE r == [id |-> i, kind |-> call[t].kind, from |-> p]
<1>1. /\ InCall(t) /\ call[t].at = "send" /\ p \in Process /\ i \in CallId
      /\ call[t].kind \in Kind
      /\ \A u \in Thread : u # t => call'[u] = call[u]
      /\ call'[t].at = "receive" /\ call'[t].id = i /\ call'[t].kind = call[t].kind
      /\ call'[t] # NoCall
  BY CallType, Moves DEF At, Stages
<1>2. NotSent(i) /\ connected[p]
  BY DEF Fresh
<1>3. r.id = i /\ r.from = p /\ r \in Message /\ queue' = queue \union {r}
  BY <1>1 DEF Message
<1>4. TypeOK'
  <2>1. call' \in [Thread -> [kind : Kind, at : Stages, id : CallId] \union {NoCall}]
    BY <1>1, Moves DEF Stages
  <2>2. queue' \subseteq Message
    BY <1>3 DEF TypeOK
  <2> QED BY <2>1, <2>2 DEF TypeOK, Stages
<1>5. Mutex'
  BY <1>1 DEF Mutex, InCall, At
<1>6. Alive'
  BY <1>1, <1>2 DEF Alive, InCall, At
<1>7. OwnCall'
  BY <1>1 DEF OwnCall, InCall
<1>8. StaysOpen'
  BY <1>1 DEF StaysOpen, InCall, At
<1>9. Fresh'
  <2>1. \A j \in CallId : j # i /\ NotSent(j) => NotSent(j)'
    BY <1>3 DEF NotSent, InQueue, Handling, Replying, InInbox
  <2>2. outcome[i] # "unused"
    BY <1>1 DEF StaysOpen
  <2>3. \A u \in Thread : At(u, "lock")' \/ At(u, "send")' =>
            /\ u # t /\ (At(u, "lock") \/ At(u, "send"))
            /\ call'[u] = call[u] /\ call[u].id \in CallId /\ InCall(u)
    BY <1>1, CallType DEF At
  <2>4. \A u \in Thread : InCall(u) /\ u # t => call[u].id # i
    BY <1>1 DEF OwnCall
  <2> QED BY <2>1, <2>2, <2>3, <2>4 DEF Fresh
<1>10. OnePlace'
  BY <1>2, <1>3 DEF OnePlace, NotSent, InQueue, Handling, Replying, InInbox
<1>11. Turns'
  <2> SUFFICES ASSUME NEW q \in up, NEW j \in CallId, connected[q], Has(q, j)'
               PROVE  Awaited(q, j)'
    BY DEF Turns
  <2>1. CASE Has(q, j)
    <3>1. PICK u \in Thread : ProcessOf[u] = q /\ At(u, "receive") /\ call[u].id = j
      BY <2>1 DEF Turns, Awaited
    <3>2. u # t
      BY <1>1, <3>1 DEF At
    <3> QED BY <1>1, <3>1, <3>2 DEF Awaited, At
  <2>2. CASE ~Has(q, j)
    <3>1. q = p /\ j = i
      BY <1>3, <2>2 DEF Has, Handling, Replying
    <3> QED BY <1>1, <3>1 DEF Awaited, At
  <2> QED BY <2>1, <2>2
<1> QED BY <1>4, <1>5, <1>6, <1>7, <1>8, <1>9, <1>10, <1>11

(* The calls of threads T fail or end with their processes.  Those of T    *)
(* that received do so no more from a connected socket.                    *)
Dropped(T) ==
    /\ T \subseteq Thread
    /\ \A u \in T : InCall(u) => ~At(u, "frames") /\ ~At(u, "unlock")
    /\ call' = [u \in Thread |-> IF u \in T THEN NoCall ELSE call[u]]
    /\ outcome' = [i \in CallId |-> IF \E u \in T : call[u].id = i THEN "given up" ELSE outcome[i]]
    /\ up' \subseteq up
    /\ \A p \in up' : connected'[p] => connected[p]
    /\ \A u \in T : At(u, "receive") => ProcessOf[u] \notin up' \/ ~connected'[ProcessOf[u]]
    /\ \A u \in Thread \ T : InCall(u) =>
          /\ ProcessOf[u] \in up'
          /\ At(u, "receive") => connected'[ProcessOf[u]]
          /\ ~At(u, "lock") => holder'[ProcessOf[u]] = holder[ProcessOf[u]]
    /\ \A p \in Process : inbox'[p] \in {inbox[p], Nothing}
    /\ UNCHANGED <<queue, server, executed>>

LEMMA DroppedKeeps ==
    ASSUME IInv, NEW T, Dropped(T)
    PROVE  Mutex' /\ Alive' /\ OwnCall' /\ StaysOpen' /\ Fresh' /\ OnePlace' /\ Turns'
<1>1. TypeOK /\ Mutex /\ Alive /\ OwnCall /\ StaysOpen /\ Fresh /\ OnePlace /\ Turns
  BY DEF IInv
<1>2. /\ \A u \in Thread \ T : call'[u] = call[u]
      /\ \A u \in T : u \in Thread /\ call'[u] = NoCall /\ ~InCall(u)'
      /\ \A u \in Thread : InCall(u)' => u \in Thread \ T /\ InCall(u)
  BY DEF Dropped, InCall
<1>3. \A u \in Thread, s \in Stages : At(u, s)' => u \in Thread \ T /\ At(u, s) /\ InCall(u)
  BY <1>1, <1>2, CallType DEF At, NoCall, Stages
<1>4. \A i \in CallId : outcome'[i] = "unused" => outcome[i] = "unused"
  BY DEF Dropped
<1>5. \A u \in Thread \ T : InCall(u) => outcome'[call[u].id] = outcome[call[u].id]
  <2> SUFFICES ASSUME NEW u \in Thread \ T, InCall(u), NEW v \in T, call[v].id = call[u].id
               PROVE  FALSE
    BY <1>1, CallType DEF Dropped
  <2>1. InCall(v) /\ v \in Thread
    BY <1>1, <1>2, CallType
  <2> QED BY <1>1, <2>1 DEF OwnCall
<1>6. \A p \in Process, i \in CallId : inbox'[p].id = i => inbox[p].id = i
  <2>1. \A i \in CallId : i # 0
    BY BoundAssumption DEF CallId
  <2>2. \A p \in Process : inbox'[p] = inbox[p] \/ inbox'[p] = Nothing
    BY DEF Dropped
  <2> QED BY <2>1, <2>2 DEF Nothing
<1>7. \A i \in CallId : InInbox(i)' => InInbox(i)
  BY <1>6 DEF InInbox
<1>8. \A i \in CallId : NotSent(i) => NotSent(i)'
  BY <1>7 DEF NotSent, InQueue, Handling, Replying, Dropped
<1>9. Mutex'
  BY <1>1, <1>2 DEF Mutex, At, Dropped
<1>10. Alive'
  BY <1>1, <1>2 DEF Alive, At, Dropped
<1>11. OwnCall'
  BY <1>1, <1>2 DEF OwnCall
<1>12. StaysOpen'
  <2> SUFFICES ASSUME NEW u \in Thread, InCall(u)'
               PROVE  (/\ outcome[call[u].id] # "unused"
                       /\ ~At(u, "frames") /\ ~At(u, "unlock") => outcome[call[u].id] = "open")'
    BY DEF StaysOpen
  <2>1. u \in Thread \ T /\ InCall(u) /\ call'[u] = call[u]
    BY <1>2
  <2>2. outcome'[call'[u].id] = outcome[call[u].id]
    BY <1>5, <2>1
  <2> QED BY <1>1, <2>1, <2>2 DEF StaysOpen, At
<1>13. Fresh'
  BY <1>1, <1>2, <1>3, <1>4, <1>8, CallType DEF Fresh, Stages
<1>14. OnePlace'
  BY <1>1, <1>7 DEF OnePlace, InQueue, Handling, Replying, Dropped
<1>15. Turns'
  <2> SUFFICES ASSUME NEW q \in up', NEW j \in CallId, connected'[q], Has(q, j)'
               PROVE  Awaited(q, j)'
    BY DEF Turns
  <2>1. q \in up /\ connected[q] /\ q \in Process
    BY <1>1 DEF Dropped, TypeOK
  <2>2. Has(q, j)
    BY <1>6, <2>1 DEF Has, Handling, Replying, Dropped
  <2>3. Awaited(q, j)
    BY <1>1, <2>1, <2>2 DEF Turns
  <2>4. PICK u \in Thread : ProcessOf[u] = q /\ At(u, "receive") /\ call[u].id = j
    BY <2>3 DEF Awaited
  <2>5. u \notin T
    BY <2>4 DEF Dropped
  <2> QED BY <1>2, <2>4, <2>5 DEF Awaited, At
<1> QED BY <1>9, <1>10, <1>11, <1>12, <1>13, <1>14, <1>15

(* The ways a call that sends or receives fails, in which T drops out. *)
LEMMA FailDrops ==
    ASSUME IInv, NEW t \in Thread, At(t, "send") \/ At(t, "receive"),
           FailUnlocked(t) \/ FailLocked(t),
           \A p \in Process : connected'[p] =>
              connected[p] /\ (At(t, "receive") => p # ProcessOf[t]),
           \A u \in Thread : At(u, "receive") /\ u # t => connected'[ProcessOf[u]],
           UNCHANGED <<queue, inbox, server, executed>>
    PROVE  /\ Dropped({t})
           /\ call' \in [Thread -> [kind : Kind, at : Stages, id : CallId] \union {NoCall}]
           /\ holder' \in [Process -> Thread \union {"nobody"}]
           /\ outcome' \in [CallId -> {"unused", "open", "answered", "deceived", "given up"}]
           /\ UNCHANGED <<up, unread, opened>>
<1>1. TypeOK /\ Mutex /\ Alive
  BY DEF IInv
<1>2. InCall(t) /\ ProcessOf[t] \in Process /\ ~At(t, "lock") /\ ~At(t, "frames") /\ ~At(t, "unlock")
  BY <1>1, CallType DEF At
<1>3. Leave(t) /\ Learn(t, "given up") /\ UNCHANGED <<up, unread, opened>>
  BY DEF FailUnlocked, FailLocked
<1>4. call' \in [Thread -> [kind : Kind, at : Stages, id : CallId] \union {NoCall}]
  BY <1>1, <1>3, Leaves
<1>5. holder' \in [Process -> Thread \union {"nobody"}]
  BY <1>1 DEF TypeOK, FailUnlocked, FailLocked, Unlock
<1>6. outcome' \in [CallId -> {"unused", "open", "answered", "deceived", "given up"}]
  BY <1>1, <1>3 DEF TypeOK, Learn
<1>7. call' = [u \in Thread |-> IF u \in {t} THEN NoCall ELSE call[u]]
  BY <1>1, <1>3 DEF Leave, TypeOK
<1>8. outcome' = [i \in CallId |-> IF \E u \in {t} : call[u].id = i THEN "given up" ELSE outcome[i]]
  BY <1>1, <1>3 DEF Learn, TypeOK
<1>9. \A u \in Thread : u # t /\ InCall(u) /\ ~At(u, "lock") =>
         holder'[ProcessOf[u]] = holder[ProcessOf[u]]
  <2> SUFFICES ASSUME NEW u \in Thread, u # t, InCall(u), ~At(u, "lock")
               PROVE  holder'[ProcessOf[u]] = holder[ProcessOf[u]]
    OBVIOUS
  <2>1. ProcessOf[u] # ProcessOf[t] /\ ProcessOf[u] \in Process
    BY <1>1, <1>2, Alone, CallType
  <2> QED BY <1>1, <1>2, <2>1 DEF FailUnlocked, FailLocked, Unlock, TypeOK
<1>10. \A p \in up : p \in Process
  BY <1>1 DEF TypeOK
<1> QED BY <1>1, <1>2, <1>3, <1>4, <1>5, <1>6, <1>7, <1>8, <1>9, <1>10 DEF Dropped, Alive

LEMMA EndDrops ==
    ASSUME IInv, NEW t \in Thread, At(t, "send") \/ At(t, "receive"), ProcessEnds(ProcessOf[t]),
           connected' \in [Process -> BOOLEAN],
           \A q \in Process : q # ProcessOf[t] => connected'[q] = connected[q],
           \A q \in Process : inbox'[q] \in {inbox[q], Nothing},
           UNCHANGED <<queue, server, executed>>
    PROVE  /\ Dropped(ThreadsOf(ProcessOf[t]))
           /\ call' \in [Thread -> [kind : Kind, at : Stages, id : CallId] \union {NoCall}]
           /\ holder' \in [Process -> Thread \union {"nobody"}]
           /\ outcome' \in [CallId -> {"unused", "open", "answered", "deceived", "given up"}]
           /\ unread' \in [Process -> 0..MaxFrames] /\ up' \subseteq Process
           /\ opened' \subseteq Thread
<1> DEFINE p == ProcessOf[t]
<1>1. TypeOK /\ Mutex /\ Alive
  BY DEF IInv
<1>2. InCall(t) /\ p \in Process /\ ~At(t, "lock")
  BY <1>1, CallType DEF At
<1>3. call' \in [Thread -> [kind : Kind, at : Stages, id : CallId] \union {NoCall}]
  BY <1>1 DEF ProcessEnds, TypeOK, Stages
<1>4. holder' \in [Process -> Thread \union {"nobody"}]
  BY <1>1 DEF TypeOK, ProcessEnds
<1>5. outcome' \in [CallId -> {"unused", "open", "answered", "deceived", "given up"}]
  BY <1>1 DEF TypeOK, ProcessEnds
<1>6. unread' \in [Process -> 0..MaxFrames] /\ up' \subseteq Process /\ opened' \subseteq Thread
  <2>1. 0 \in 0..MaxFrames
    BY BoundAssumption
  <2> QED BY <1>1, <2>1 DEF TypeOK, ProcessEnds
<1>7. \A u \in ThreadsOf(p) : InCall(u) => ~At(u, "frames") /\ ~At(u, "unlock")
  BY <1>1, <1>2, Alone DEF ThreadsOf, At
<1>8. \A u \in Thread \ ThreadsOf(p) : InCall(u) =>
         /\ ProcessOf[u] \in up' /\ ProcessOf[u] \in Process /\ ProcessOf[u] # p
         /\ holder'[ProcessOf[u]] = holder[ProcessOf[u]]
         /\ connected'[ProcessOf[u]] = connected[ProcessOf[u]]
  BY <1>1, CallType DEF ThreadsOf, ProcessEnds, Alive, TypeOK
<1>9. \A q \in up' : q \in Process /\ q # p
  BY <1>6 DEF ProcessEnds
<1> QED BY <1>1, <1>2, <1>3, <1>4, <1>5, <1>6, <1>7, <1>8, <1>9
        DEF Dropped, ProcessEnds, Alive, ThreadsOf

LEMMA SendFailsStep ==
    ASSUME IInv, NEW t \in Thread, SendNotConnected(t) \/ SendUnread(t)
    PROVE  IInv' /\ \E T : Dropped(T)
<1>1. TypeOK /\ Alive
  BY DEF IInv
<1>2. At(t, "send") /\ ~At(t, "receive")
  BY DEF At, SendNotConnected, SendUnread
<1>3. UNCHANGED <<setting, connected, queue, inbox, server, store, executed>>
  BY DEF SendNotConnected, SendUnread
<1>4. FailUnlocked(t) \/ FailLocked(t) \/ ProcessEnds(ProcessOf[t])
  BY DEF SendNotConnected, SendUnread
<1>5. \A u \in Thread : At(u, "receive") => connected[ProcessOf[u]]
  BY <1>1, CallType DEF Alive, At
<1>6. CASE FailUnlocked(t) \/ FailLocked(t)
  <2>1. Dropped({t}) /\ TypeOK'
    <3> HIDE DEF IInv
    <3> QED BY <1>1, <1>2, <1>3, <1>5, <1>6, FailDrops DEF TypeOK, Stages
  <2> QED BY <2>1, DroppedKeeps DEF IInv
<1>7. CASE ProcessEnds(ProcessOf[t])
  <2>1. Dropped(ThreadsOf(ProcessOf[t])) /\ TypeOK'
    BY <1>1, <1>2, <1>3, <1>7, EndDrops DEF TypeOK, Stages
  <2> QED BY <2>1, DroppedKeeps DEF IInv
<1> QED BY <1>4, <1>6, <1>7

LEMMA TimeOutStep ==
    ASSUME IInv, NEW t \in Thread, TimeOut(t)
    PROVE  IInv' /\ \E T : Dropped(T)
<1> DEFINE p == ProcessOf[t]
<1>1. TypeOK /\ Mutex /\ Alive
  BY DEF IInv
<1>2. At(t, "receive") /\ InCall(t) /\ ~At(t, "lock") /\ p \in Process
  BY <1>1, CallType DEF At, TimeOut
<1>3. /\ UNCHANGED <<setting, queue, inbox, server, store, executed>>
      /\ connected' \in [Process -> BOOLEAN] /\ ~connected'[p]
      /\ \A q \in Process : q # p => connected'[q] = connected[q]
  BY <1>1, <1>2 DEF TimeOut, TypeOK
<1>4. FailUnlocked(t) \/ ProcessEnds(p)
  BY DEF TimeOut
<1>5. \A u \in Thread : At(u, "receive") /\ u # t => connected'[ProcessOf[u]]
  <2> SUFFICES ASSUME NEW u \in Thread, At(u, "receive"), u # t
               PROVE  connected'[ProcessOf[u]]
    OBVIOUS
  <2>1. InCall(u) /\ ~At(u, "lock") /\ ProcessOf[u] \in Process
    BY <1>1, CallType DEF At
  <2>2. ProcessOf[u] # p
    BY <1>1, <1>2, <2>1, Alone
  <2> QED BY <1>1, <1>3, <2>1, <2>2 DEF Alive
<1>6. CASE FailUnlocked(t)
  <2>1. \A q \in Process : connected'[q] => connected[q] /\ q # p
    BY <1>3
  <2>4. UNCHANGED <<queue, inbox, server, executed>>
    BY <1>3
  <2>5. \A q \in Process : connected'[q] =>
           connected[q] /\ (At(t, "receive") => q # ProcessOf[t])
    BY <2>1
  <2>2. /\ Dropped({t}) /\ UNCHANGED <<up, unread, opened>>
        /\ call' \in [Thread -> [kind : Kind, at : Stages, id : CallId] \union {NoCall}]
        /\ holder' \in [Process -> Thread \union {"nobody"}]
        /\ outcome' \in [CallId -> {"unused", "open", "answered", "deceived", "given up"}]
    BY ONLY IInv, <1>2, <1>5, <1>6, <2>4, <2>5, FailDrops
  <2>3. TypeOK'
    BY <1>1, <1>3, <2>2 DEF TypeOK, Stages
  <2> QED BY <2>2, <2>3, DroppedKeeps DEF IInv
<1>7. CASE ProcessEnds(p)
  <2>1. Dropped(ThreadsOf(p)) /\ TypeOK'
    BY <1>1, <1>2, <1>3, <1>7, EndDrops DEF TypeOK, Stages
  <2> QED BY <2>1, DroppedKeeps DEF IInv
<1> QED BY <1>4, <1>6, <1>7

LEMMA ReceiveNothingStep ==
    ASSUME IInv, NEW t \in Thread, ReceiveNothingToRead(t)
    PROVE  IInv' /\ \E T : Dropped(T)
<1> DEFINE p == ProcessOf[t]
<1>1. TypeOK /\ At(t, "receive") /\ ProcessEnds(p)
  BY DEF IInv, ReceiveNothingToRead
<1>2. /\ UNCHANGED <<setting, connected, queue, server, store, executed>>
      /\ inbox' \in [Process -> ReplyMessage \union {Nothing}]
      /\ \A q \in Process : inbox'[q] \in {inbox[q], Nothing}
  BY <1>1 DEF ReceiveNothingToRead, TypeOK
<1>3. Dropped(ThreadsOf(p)) /\ TypeOK'
  BY <1>1, <1>2, EndDrops DEF TypeOK, Stages
<1> QED BY <1>3, DroppedKeeps DEF IInv

LEMMA ReceiveStep ==
    ASSUME IInv, NEW t \in Thread, Receive(t)
    PROVE  IInv' /\ outcome[call[t].id] = "open" /\ executed[call[t].id] = 1
                 /\ outcome' = [outcome EXCEPT ![call[t].id] = "answered"]
<1> DEFINE p == ProcessOf[t]
<1> DEFINE i == call[t].id
<1>1. TypeOK /\ Mutex /\ Alive /\ OwnCall /\ StaysOpen /\ Fresh /\ OnePlace /\ Turns
  BY DEF IInv
<1>2. /\ At(t, "receive") /\ InCall(t) /\ ~At(t, "lock") /\ p \in Process /\ i \in CallId
      /\ p \in up /\ connected[p] /\ outcome[i] = "open"
  BY <1>1, CallType DEF At, Receive, Alive, StaysOpen
<1>3. /\ inbox[p] \in ReplyMessage /\ inbox[p].id \in CallId
      /\ inbox' = [inbox EXCEPT ![p] = Nothing]
      /\ inbox'[p] = Nothing /\ \A q \in Process : q # p => inbox'[q] = inbox[q]
      /\ UNCHANGED <<setting, up, connected, holder, queue, server, store, executed>>
  BY <1>1, <1>2 DEF Receive, TypeOK, ReplyMessage
<1>4. inbox[p].id = i /\ executed[i] = 1
  <2>1. Has(p, inbox[p].id)
    BY <1>3, <1>2 DEF Has, Receive
  <2>2. PICK u \in Thread : ProcessOf[u] = p /\ At(u, "receive") /\ call[u].id = inbox[p].id
    BY <1>1, <1>2, <1>3, <2>1 DEF Turns, Awaited
  <2>3. InCall(u) /\ ~At(u, "lock")
    BY <1>1, <2>2, CallType DEF At
  <2>4. u = t
    BY <1>1, <1>2, <2>2, <2>3, Alone
  <2>5. InInbox(i)
    BY <1>2, <2>2, <2>4 DEF InInbox
  <2> QED BY <1>1, <1>2, <2>2, <2>4, <2>5 DEF OnePlace
<1>5. outcome' = [outcome EXCEPT ![i] = "answered"]
  BY <1>4 DEF Receive, Learn
<1>6. /\ call' \in [Thread -> [kind : Kind, at : Stages, id : CallId] \union {NoCall}]
      /\ \A u \in Thread : u # t => call'[u] = call[u]
      /\ call'[t] # NoCall => call'[t].id = i /\ call'[t].at \in {"frames", "unlock"}
      /\ call'[t].at \notin {"lock", "send", "receive"}
  <2>1. CASE Leave(t)
    BY <1>1, <2>1, Leaves DEF NoCall
  <2>2. CASE \E s \in {"frames", "unlock"} : call' = [call EXCEPT ![t].at = s]
    BY <1>1, <1>2, <2>2, Moves DEF Stages
  <2>3. Leave(t) \/ \E s \in {"frames", "unlock"} : call' = [call EXCEPT ![t].at = s]
    BY DEF Receive
  <2> QED BY <2>1, <2>2, <2>3
<1>7. TypeOK'
  <2>1. inbox' \in [Process -> ReplyMessage \union {Nothing}]
    BY <1>1, <1>3 DEF TypeOK
  <2>2. unread' \in [Process -> 0..MaxFrames]
    BY <1>1, <1>3 DEF Receive, TypeOK, ReplyMessage
  <2>3. outcome' \in [CallId -> {"unused", "open", "answered", "deceived", "given up"}]
    BY <1>1, <1>5 DEF TypeOK
  <2>4. opened' \subseteq Thread
    BY <1>1 DEF TypeOK, Receive
  <2> QED BY <1>1, <1>3, <1>6, <2>1, <2>2, <2>3, <2>4 DEF TypeOK, Stages
<1>8. Mutex'
  BY <1>1, <1>2, <1>3, <1>6 DEF Mutex, InCall, At
<1>9. Alive'
  BY <1>1, <1>2, <1>3, <1>6 DEF Alive, InCall, At
<1>10. OwnCall'
  BY <1>1, <1>2, <1>6 DEF OwnCall, InCall
<1>11. \A j \in CallId : j # i => outcome'[j] = outcome[j]
  BY <1>1, <1>5 DEF TypeOK
<1>12. outcome'[i] = "answered"
  BY <1>1, <1>2, <1>5 DEF TypeOK
<1>13. StaysOpen'
  <2> SUFFICES ASSUME NEW u \in Thread, InCall(u)', u # t
               PROVE  (/\ outcome[call[u].id] # "unused"
                       /\ ~At(u, "frames") /\ ~At(u, "unlock") => outcome[call[u].id] = "open")'
    BY <1>6, <1>12 DEF StaysOpen, InCall, At
  <2>1. InCall(u) /\ call'[u] = call[u] /\ call[u].id # i /\ call[u].id \in CallId
    BY <1>1, <1>2, <1>6, CallType DEF InCall, OwnCall
  <2> QED BY <1>1, <1>11, <2>1 DEF StaysOpen, At
<1>14. \A j \in CallId : InInbox(j)' => InInbox(j)
  <2>1. \A j \in CallId : j # 0
    BY BoundAssumption DEF CallId
  <2> QED BY <1>3, <2>1 DEF InInbox, Nothing
<1>15. \A j \in CallId : NotSent(j) => NotSent(j)'
  BY <1>3, <1>14 DEF NotSent, InQueue, Handling, Replying
<1>16. Fresh'
  <2>1. \A j \in CallId : outcome'[j] = "unused" => outcome[j] = "unused"
    BY <1>11, <1>12
  <2>2. \A u \in Thread : At(u, "lock")' \/ At(u, "send")' =>
           (At(u, "lock") \/ At(u, "send")) /\ call'[u] = call[u] /\ call[u].id \in CallId
    BY <1>1, <1>6, CallType DEF At
  <2> QED BY <1>1, <1>15, <2>1, <2>2 DEF Fresh
<1>17. OnePlace'
  BY <1>1, <1>3, <1>14 DEF OnePlace, InQueue, Handling, Replying
<1>18. Turns'
  <2> SUFFICES ASSUME NEW q \in up, NEW j \in CallId, connected[q], Has(q, j)'
               PROVE  Awaited(q, j)'
    BY <1>3 DEF Turns
  <2>1. q \in Process
    BY <1>1 DEF TypeOK
  <2>2. Has(q, j)
    BY <1>3, <2>1 DEF Has, Handling, Replying
  <2>3. PICK u \in Thread : ProcessOf[u] = q /\ At(u, "receive") /\ call[u].id = j
    BY <1>1, <2>2 DEF Turns, Awaited
  <2>4. CASE u = t
    <3>1. q = p /\ InInbox(j)
      BY <1>2, <1>4, <2>3, <2>4 DEF InInbox
    <3>2. ~InQueue(j) /\ ~Handling(j) /\ ~Replying(j)
      BY <1>1, <3>1 DEF OnePlace
    <3> QED BY <1>3, <3>1, <3>2 DEF Has, InQueue, Handling, Replying
  <2>5. CASE u # t
    BY <1>6, <2>3, <2>5 DEF Awaited, At
  <2> QED BY <2>4, <2>5
<1> QED BY <1>2, <1>4, <1>5, <1>7, <1>8, <1>9, <1>10, <1>13, <1>16, <1>17, <1>18 DEF IInv

(* Steps of a thread that has its answer: it reads frames, or returns. *)
LEMMA AnsweredStep ==
    ASSUME IInv, NEW t \in Thread, ReadFrames(t) \/ ReturnUnlocked(t)
    PROVE  IInv'
<1> DEFINE p == ProcessOf[t]
<1>1. TypeOK /\ Mutex /\ Alive /\ OwnCall /\ StaysOpen /\ Fresh /\ OnePlace /\ Turns
  BY DEF IInv
<1>2. /\ InCall(t) /\ ~At(t, "lock") /\ p \in Process
      /\ At(t, "frames") \/ At(t, "unlock")
      /\ UNCHANGED <<setting, up, connected, opened, outcome, queue, inbox, server, store, executed>>
  BY <1>1, CallType DEF At, ReadFrames, ReturnUnlocked
<1>3. /\ call' \in [Thread -> [kind : Kind, at : Stages, id : CallId] \union {NoCall}]
      /\ \A u \in Thread : u # t => call'[u] = call[u]
      /\ call'[t] # NoCall => call'[t].id = call[t].id /\ call'[t].at = "unlock" /\ UNCHANGED holder
      /\ call'[t].at \notin {"lock", "send", "receive", "frames"}
  <2>1. CASE ReturnUnlocked(t)
    BY <1>1, <2>1, Leaves DEF NoCall, ReturnUnlocked
  <2>2. CASE ReadFrames(t)
    BY <1>1, <1>2, <2>2, Moves DEF Stages, ReadFrames
  <2> QED BY <2>1, <2>2
<1>4. TypeOK'
  <2>1. unread' \in [Process -> 0..MaxFrames]
    <3>1. 0 \in 0..MaxFrames
      BY BoundAssumption
    <3> QED BY <1>1, <3>1 DEF TypeOK, ReadFrames, ReturnUnlocked
  <2>2. holder' \in [Process -> Thread \union {"nobody"}]
    BY <1>1 DEF TypeOK, ReadFrames, ReturnUnlocked, Unlock
  <2> QED BY <1>1, <1>2, <1>3, <2>1, <2>2 DEF TypeOK, Stages
<1>5. Mutex'
  <2> SUFFICES ASSUME NEW u \in Thread, InCall(u)', ~At(u, "lock")', u # t
               PROVE  holder'[ProcessOf[u]] = u
    BY <1>1, <1>2, <1>3 DEF Mutex, InCall, At
  <2>1. InCall(u) /\ ~At(u, "lock") /\ ProcessOf[u] \in Process /\ holder[ProcessOf[u]] = u
    BY <1>1, <1>3, CallType DEF InCall, At, Mutex
  <2>2. ProcessOf[u] # p
    BY <1>1, <1>2, <2>1, Alone
  <2> QED BY <1>1, <1>2, <2>1, <2>2 DEF ReadFrames, ReturnUnlocked, Unlock, TypeOK
<1>6. Alive'
  BY <1>1, <1>2, <1>3 DEF Alive, InCall, At
<1>7. OwnCall'
  BY <1>1, <1>2, <1>3 DEF OwnCall, InCall
<1>8. StaysOpen'
  BY <1>1, <1>2, <1>3 DEF StaysOpen, InCall, At
<1>9. Fresh'
  <2>1. \A j \in CallId : NotSent(j) => NotSent(j)'
    BY <1>2 DEF NotSent, InQueue, Handling, Replying, InInbox
  <2>2. \A u \in Thread : At(u, "lock")' \/ At(u, "send")' =>
           (At(u, "lock") \/ At(u, "send")) /\ call'[u] = call[u] /\ call[u].id \in CallId
    BY <1>1, <1>3, CallType DEF At
  <2> QED BY <1>1, <1>2, <2>1, <2>2 DEF Fresh
<1>10. OnePlace'
  BY <1>1, <1>2 DEF OnePlace, InQueue, Handling, Replying, InInbox
<1>11. Turns'
  <2> SUFFICES ASSUME NEW q \in up, NEW j \in CallId, connected[q], Has(q, j)
               PROVE  Awaited(q, j)'
    BY <1>2 DEF Turns, Has, Handling, Replying
  <2>1. PICK u \in Thread : ProcessOf[u] = q /\ At(u, "receive") /\ call[u].id = j
    BY <1>1 DEF Turns, Awaited
  <2> QED BY <1>2, <1>3, <2>1 DEF Awaited, At
<1> QED BY <1>4, <1>5, <1>6, <1>7, <1>8, <1>9, <1>10, <1>11 DEF IInv

-----------------------------------------------------------------------------
(* The server's steps.                                                     *)

Fine(reply) ==
    /\ reply.store \in Store
    /\ reply.ok \in BOOLEAN /\ reply.frames \in 0..MaxFrames /\ reply.left \in BOOLEAN

LEMMA ReplyType ==
    ASSUME NEW st \in Store, NEW ok \in BOOLEAN, NEW n \in 0..MaxFrames, NEW left \in BOOLEAN
    PROVE  Fine(Reply(st, ok, n, left))
BY DEF Fine, Reply

(* What handlers do to a store leaves a store. *)
LEMMA StoreType ==
    ASSUME NEW st \in Store
    PROVE  /\ [st EXCEPT !.workspace = TRUE] \in Store
           /\ st.workspace => [st EXCEPT !.entity = TRUE] \in Store
           /\ st.workspace => [st EXCEPT !.entity = TRUE, !.data = TRUE] \in Store
           /\ st.entity => [st EXCEPT !.data = TRUE] \in Store
           /\ [st EXCEPT !.entity = FALSE, !.data = FALSE] \in Store
           /\ st.workspace \in BOOLEAN /\ st.entity \in BOOLEAN
<1>1. /\ st \in [workspace : BOOLEAN, entity : BOOLEAN, data : BOOLEAN]
      /\ st.data => st.entity
      /\ st.entity => st.workspace
  BY DEF Store
<1>2. [st EXCEPT !.workspace = TRUE] \in Store
  BY <1>1 DEF Store
<1>3. st.workspace => [st EXCEPT !.entity = TRUE] \in Store
  BY <1>1 DEF Store
<1>4. st.workspace => [st EXCEPT !.entity = TRUE, !.data = TRUE] \in Store
  BY <1>1 DEF Store
<1>5. st.entity => [st EXCEPT !.data = TRUE] \in Store
  BY <1>1 DEF Store
<1>6. [st EXCEPT !.entity = FALSE, !.data = FALSE] \in Store
  BY <1>1 DEF Store
<1> QED BY <1>1, <1>2, <1>3, <1>4, <1>5, <1>6

(* What a handler leaves in the store and replies has the types of both. *)
LEMMA HandleType ==
    ASSUME NEW st \in Store, NEW kind \in Kind, NEW reply \in Handle(st, kind)
    PROVE  Fine(reply)
<1>1. 0 \in 0..MaxFrames /\ \A n \in 1..MaxFrames : n \in 0..MaxFrames
  BY BoundAssumption
<1>2. Fine(Reply(st, TRUE, 0, FALSE)) /\ Fine(Reply(st, FALSE, 0, FALSE))
      /\ Fine(Reply(st, FALSE, 0, TRUE))
  BY <1>1, ReplyType
<1>3. CASE kind = "list"
  BY <1>2, <1>3 DEF Handle, HandleListWorkspaces
<1>4. CASE kind = "create"
  <2>1. reply = Reply([st EXCEPT !.workspace = TRUE], TRUE, 0, FALSE)
    BY <1>4 DEF Handle, HandleWorkspace
  <2> QED BY <1>1, <2>1, StoreType, ReplyType
<1>5. CASE kind \in {"tree", "entity"}
  <2>1. reply = Reply(st, st.workspace /\ st.entity, 0, FALSE)
    BY <1>5 DEF Handle, HandleGenericEntry
  <2>2. (st.workspace /\ st.entity) \in BOOLEAN
    OBVIOUS
  <2> QED BY <1>1, <2>1, <2>2, ReplyType
<1>6. CASE kind = "run"
  <2>1. reply \in HandleOperatorExecution(st)
    BY <1>6 DEF Handle
  <2>2. \/ reply = Reply(st, TRUE, 0, FALSE) \/ reply = Reply(st, FALSE, 0, FALSE)
        \/ st.workspace /\ reply = Reply([st EXCEPT !.entity = TRUE, !.data = TRUE], TRUE, 0, FALSE)
    BY <2>1 DEF HandleOperatorExecution
  <2> QED BY <1>1, <1>2, <2>2, StoreType, ReplyType
<1>7. CASE kind = "delete"
  <2>1. \/ reply = Reply([st EXCEPT !.entity = FALSE, !.data = FALSE], TRUE, 0, FALSE)
        \/ reply = Reply(st, FALSE, 0, FALSE)
    BY <1>7 DEF Handle, HandleDelete
  <2> QED BY <1>1, <1>2, <2>1, StoreType, ReplyType
<1>8. CASE kind \in {"size", "read"}
  <2>1. \/ \E n \in 1..MaxFrames : reply = Reply(st, TRUE, n, FALSE)
        \/ reply = Reply(st, FALSE, 0, FALSE)
    BY <1>8 DEF Handle, HandleEntitydata
  <2> QED BY <1>1, <1>2, <2>1, ReplyType
<1>9. CASE kind \in {"store", "resize", "write", "append"}
  <2>1. reply \in HandleStoreEntity(st, kind)
    BY <1>9 DEF Handle
  <2>2. CASE ~st.workspace
    BY <1>2, <2>1, <2>2 DEF HandleStoreEntity
  <2>3. CASE st.workspace /\ kind = "store"
    <3>1. reply = Reply([st EXCEPT !.entity = TRUE], TRUE, 0, FALSE)
      BY <2>1, <2>3 DEF HandleStoreEntity, HasBody
    <3> QED BY <1>1, <2>3, <3>1, StoreType, ReplyType
  <2>4. CASE st.workspace /\ kind = "resize"
    <3>1. reply = Reply(st, st.entity, 0, FALSE)
      BY <2>1, <2>4 DEF HandleStoreEntity, HasBody
    <3> QED BY <1>1, <3>1, StoreType, ReplyType
  <2>5. CASE st.workspace /\ kind \in HasBody /\ st.entity
    <3>1. \/ reply = Reply([st EXCEPT !.data = TRUE], TRUE, 0, FALSE)
          \/ reply = Reply(st, FALSE, 0, FALSE)
      BY <2>1, <2>5 DEF HandleStoreEntity, HasBody
    <3> QED BY <1>1, <1>2, <2>5, <3>1, StoreType, ReplyType
  <2>6. CASE st.workspace /\ kind \in HasBody /\ ~st.entity
    BY <1>2, <2>1, <2>6 DEF HandleStoreEntity, HasBody
  <2> QED BY <1>9, <2>2, <2>3, <2>4, <2>5, <2>6, StoreType DEF HasBody
<1> QED BY <1>3, <1>4, <1>5, <1>6, <1>7, <1>8, <1>9 DEF Kind

(* A step of the server leaves the callers as they are. *)
LEMMA ClientKept ==
    ASSUME IInv, UNCHANGED client
    PROVE  /\ Mutex' /\ Alive' /\ OwnCall' /\ StaysOpen'
           /\ (\A i \in CallId : NotSent(i) => NotSent(i)') => Fresh'
           /\ (\A p \in up, i \in CallId : connected[p] /\ Has(p, i)' => Has(p, i)) => Turns'
<1>1. TypeOK /\ Mutex /\ Alive /\ OwnCall /\ StaysOpen /\ Fresh /\ Turns
  BY DEF IInv
<1>2. Mutex' /\ Alive' /\ OwnCall' /\ StaysOpen'
  BY <1>1 DEF client, Mutex, Alive, OwnCall, StaysOpen, InCall, At
<1>3. ASSUME \A i \in CallId : NotSent(i) => NotSent(i)'
      PROVE  Fresh'
  <2>1. \A u \in Thread : At(u, "lock") \/ At(u, "send") => call[u].id \in CallId
    BY <1>1, CallType DEF At
  <2> QED BY <1>1, <1>3, <2>1 DEF Fresh, client, At
<1>4. ASSUME \A p \in up, i \in CallId : connected[p] /\ Has(p, i)' => Has(p, i)
      PROVE  Turns'
  BY <1>1, <1>4 DEF Turns, Awaited, At, client
<1> QED BY <1>2, <1>3, <1>4

LEMMA DispatchStep ==
    ASSUME IInv, NEW r \in queue, Dispatch(r)
    PROVE  IInv'
<1>1. TypeOK /\ OnePlace /\ UNCHANGED client
  BY DEF IInv, Dispatch
<1>2. /\ server.is = "waiting" /\ r \in Message /\ r.id \in CallId
      /\ queue' = queue \ {r} /\ server' = [is |-> "handling", request |-> r]
      /\ server'.is = "handling" /\ server'.request = r
      /\ UNCHANGED <<inbox, store, executed>>
  BY <1>1 DEF Dispatch, Waiting, TypeOK, Message
<1>3. TypeOK'
  BY <1>1, <1>2 DEF TypeOK, client
<1>4. \A i \in CallId : NotSent(i) => NotSent(i)'
  BY <1>2 DEF NotSent, InQueue, Handling, Replying, InInbox
<1>5. \A p \in up, i \in CallId : Has(p, i)' => Has(p, i)
  BY <1>2 DEF Has, Handling, Replying
<1>6. OnePlace'
  <2>1. \A q \in queue' : q \in queue /\ q.id # r.id
    BY <1>1, <1>2 DEF OnePlace
  <2> QED BY <1>1, <1>2, <2>1 DEF OnePlace, InQueue, Handling, Replying, InInbox
<1> QED BY <1>1, <1>3, <1>4, <1>5, <1>6, ClientKept DEF IInv

LEMMA ExecuteStep ==
    ASSUME IInv, Execute
    PROVE  /\ IInv' /\ UNCHANGED outcome
           /\ server.request.id \in CallId
           /\ executed[server.request.id] = 0 /\ outcome[server.request.id] # "unused"
           /\ executed' = [executed EXCEPT ![server.request.id] = 1]
<1> DEFINE r == server.request
<1>1. TypeOK /\ Fresh /\ OnePlace /\ UNCHANGED <<client, queue, inbox, outcome>>
  BY DEF IInv, Execute, client
<1>2. server.is = "handling" /\ r \in Message /\ r.id \in CallId /\ r.kind \in Kind /\ Handling(r.id)
  BY <1>1 DEF Execute, TypeOK, Message, Handling
<1>3. executed[r.id] = 0 /\ outcome[r.id] # "unused" /\ ~InQueue(r.id)
  BY <1>1, <1>2 DEF OnePlace, Fresh, NotSent
<1>4. executed' = [executed EXCEPT ![r.id] = 1]
  <2>1. executed' = [executed EXCEPT ![r.id] = executed[r.id] + 1]
    BY DEF Execute
  <2> QED BY <1>3, <2>1
<1>5. PICK reply \in Handle(store, r.kind) :
         /\ store' = reply.store
         /\ server' = [is |-> "replying", request |-> r, ok |-> reply.ok,
                       frames |-> reply.frames, left |-> reply.left]
  BY DEF Execute
<1>6. /\ server'.is = "replying" /\ server'.request = r
      /\ executed'[r.id] = 1 /\ \A j \in CallId : j # r.id => executed'[j] = executed[j]
  BY <1>1, <1>2, <1>4, <1>5 DEF TypeOK
<1>7. TypeOK'
  <2>2. store \in Store
    BY <1>1 DEF TypeOK
  <2>3. /\ reply.store \in Store /\ reply.ok \in BOOLEAN
        /\ reply.frames \in 0..MaxFrames /\ reply.left \in BOOLEAN
    BY <1>2, <2>2, HandleType DEF Fine
  <2>4. server' \in [is : {"replying"}, request : Message, ok : BOOLEAN,
                     frames : 0..MaxFrames, left : BOOLEAN]
    BY <1>2, <1>5, <2>3
  <2>5. executed' \in [CallId -> Nat]
    BY <1>1, <1>4 DEF TypeOK
  <2> QED BY <1>1, <1>5, <2>3, <2>4, <2>5 DEF TypeOK, client
<1>8. \A i \in CallId : NotSent(i) => NotSent(i)'
  BY <1>1, <1>2, <1>6 DEF NotSent, InQueue, Handling, Replying, InInbox
<1>9. \A p \in up, i \in CallId : Has(p, i)' => Has(p, i)
  BY <1>1, <1>2, <1>6 DEF Has, Handling, Replying
<1>10. OnePlace'
  <2>1. ~InInbox(r.id)
    BY <1>1, <1>2, <1>3 DEF OnePlace
  <2> QED BY <1>1, <1>2, <1>3, <1>6, <2>1 DEF OnePlace, InQueue, Handling, Replying, InInbox
<1> QED BY <1>1, <1>2, <1>3, <1>4, <1>7, <1>8, <1>9, <1>10, ClientKept DEF IInv

LEMMA SendReplyStep ==
    ASSUME IInv, SendReply
    PROVE  IInv'
<1> DEFINE p == server.request.from
<1> DEFINE i == server.request.id
<1>1. TypeOK /\ OnePlace /\ UNCHANGED <<client, queue, store, executed>>
  BY DEF IInv, SendReply
<1>2. /\ server.is = "replying" /\ p \in Process /\ i \in CallId /\ Replying(i)
      /\ server.ok \in BOOLEAN /\ server.frames \in 0..MaxFrames
      /\ server' = [is |-> "waiting"] /\ server'.is = "waiting"
  BY <1>1 DEF SendReply, TypeOK, Message, Replying
<1>3. \A q \in Process : inbox'[q] = inbox[q] \/ (q = p /\ inbox'[q].id = i)
  BY <1>1 DEF SendReply, TypeOK
<1>4. TypeOK'
  <2>1. [id |-> i, ok |-> server.ok, frames |-> server.frames] \in ReplyMessage
    BY <1>2 DEF ReplyMessage
  <2>2. inbox' \in [Process -> ReplyMessage \union {Nothing}]
    BY <1>1, <1>2, <2>1 DEF SendReply, TypeOK
  <2> QED BY <1>1, <1>2, <2>2 DEF TypeOK, client
<1>5. \A j \in CallId : InInbox(j)' => InInbox(j) \/ j = i
  BY <1>3 DEF InInbox
<1>6. \A j \in CallId : NotSent(j) => NotSent(j)'
  BY <1>1, <1>2, <1>5 DEF NotSent, InQueue, Handling, Replying
<1>7. \A q \in up, j \in CallId : Has(q, j)' => Has(q, j)
  <2>1. up \subseteq Process
    BY <1>1 DEF TypeOK
  <2> QED BY <1>1, <1>2, <1>3, <2>1 DEF Has, Handling, Replying
<1>8. OnePlace'
  <2>1. executed[i] = 1
    BY <1>1, <1>2 DEF OnePlace
  <2> QED BY <1>1, <1>2, <1>5, <2>1 DEF OnePlace, InQueue, Handling, Replying
<1> QED BY <1>1, <1>4, <1>6, <1>7, <1>8, ClientKept DEF IInv

(* The server forgets what it did, and perhaps requests. *)
LEMMA ForgetStep ==
    ASSUME IInv,
           SendReplyUnread \/ HandlerThrows \/ ServerEnds \/ \E kept \in SUBSET queue : Reopen(kept)
    PROVE  IInv' /\ UNCHANGED <<executed, outcome>>
<1>1. TypeOK /\ OnePlace /\ UNCHANGED <<client, inbox, store, executed>>
  BY DEF IInv, SendReplyUnread, HandlerThrows, ServerEnds, Reopen
<1>2. queue' \subseteq queue /\ server' \in [is : {"waiting", "stuck", "down"}]
  BY DEF SendReplyUnread, HandlerThrows, ServerEnds, Reopen
<1>3. server'.is \in {"waiting", "stuck", "down"}
  BY <1>2
<1>4. TypeOK'
  BY <1>1, <1>2 DEF TypeOK, client
<1>5. \A i \in CallId : NotSent(i) => NotSent(i)'
  BY <1>1, <1>2, <1>3 DEF NotSent, InQueue, Handling, Replying, InInbox
<1>6. \A p \in up, i \in CallId : Has(p, i)' => Has(p, i)
  BY <1>1, <1>2, <1>3 DEF Has, Handling, Replying
<1>7. OnePlace'
  BY <1>1, <1>2, <1>3 DEF OnePlace, InQueue, Handling, Replying, InInbox
<1> QED BY <1>1, <1>4, <1>5, <1>6, <1>7, ClientKept DEF IInv, client

-----------------------------------------------------------------------------
(* The theorems.                                                           *)

LEMMA InitIInv ==
    ASSUME Init
    PROVE  IInv
<1>1. /\ \A t \in Thread : ~InCall(t) /\ call[t].at = "none"
      /\ \A p \in Process : inbox[p] = Nothing
      /\ \A i \in CallId : executed[i] = 0 /\ i # 0
      /\ queue = {} /\ server.is = "waiting"
  BY BoundAssumption DEF Init, InCall, NoCall, CallId
<1>2. TypeOK
  <2>1. 0 \in 0..MaxFrames
    BY BoundAssumption
  <2>2. setting \in Setting /\ up \subseteq Process
    BY SettingAssumption DEF Init, Setting
  <2> QED BY <2>1, <2>2 DEF Init, TypeOK
<1>3. Mutex /\ Alive /\ OwnCall /\ StaysOpen
  BY <1>1 DEF Mutex, Alive, OwnCall, StaysOpen
<1>4. Fresh /\ OnePlace
  BY <1>1 DEF Fresh, OnePlace, NotSent, InQueue, Handling, Replying, InInbox, Nothing, At
<1>5. Turns
  <2>1. up \subseteq Process
    BY <1>2 DEF TypeOK
  <2> QED BY <1>1, <2>1 DEF Turns, Has, Handling, Replying
<1> QED BY <1>2, <1>3, <1>4, <1>5 DEF IInv

(* Every step keeps the invariant, and is a step of AtMostOnce or none. *)
LEMMA NextIInv ==
    ASSUME IInv, [Next]_vars
    PROVE  IInv' /\ [Calls!Next]_<<executed, outcome>>
<1> USE DEF Calls!Next
<1>1. ASSUME NEW t \in Thread, NEW kind \in Kind, NEW i \in CallId, Call(t, kind, i)
      PROVE  IInv' /\ Calls!Issue(i)
  BY <1>1, CallStep DEF Call, Calls!Issue
<1>2. ASSUME NEW t \in Thread, ClientStep(t)
      PROVE  IInv' /\ [Calls!Next]_<<executed, outcome>>
  <2>1. CASE Lock(t)
    BY <2>1, LockStep DEF Lock
  <2>2. CASE Send(t)
    BY <2>2, SendStep DEF Send
  <2>3. CASE ReadFrames(t) \/ ReturnUnlocked(t)
    BY <2>3, AnsweredStep DEF ReadFrames, ReturnUnlocked
  <2>4. CASE Receive(t)
    <3>1. call[t].id \in CallId
      BY <2>4, CallType DEF Receive, At, IInv
    <3>2. Calls!Answer(call[t].id) /\ IInv'
      BY <2>4, ReceiveStep DEF Calls!Answer, Receive
    <3> QED BY <3>1, <3>2
  <2>5. CASE SendNotConnected(t) \/ SendUnread(t) \/ TimeOut(t) \/ ReceiveNothingToRead(t)
    <3>1. IInv'
      BY <2>5, SendFailsStep, TimeOutStep, ReceiveNothingStep
    <3>2. PICK T : Dropped(T)
      BY <2>5, SendFailsStep, TimeOutStep, ReceiveNothingStep
    <3> DEFINE I == {i \in CallId : \E u \in T : call[u].id = i}
    <3>3. \A i \in I : outcome[i] = "open"
      <4> SUFFICES ASSUME NEW u \in T, call[u].id \in CallId
                   PROVE  outcome[call[u].id] = "open"
        OBVIOUS
      <4>1. u \in Thread /\ InCall(u)
        BY <3>2, CallType DEF Dropped, IInv
      <4> QED BY <3>2, <4>1 DEF Dropped, IInv, StaysOpen
    <3>4. outcome' = [i \in CallId |-> IF i \in I THEN "given up" ELSE outcome[i]]
      BY <3>2 DEF Dropped
    <3>5. Calls!GiveUp(I)
      BY <3>2, <3>3, <3>4 DEF Calls!GiveUp, Dropped
    <3> QED BY <3>1, <3>5
  <2> QED BY <1>2, <2>1, <2>2, <2>3, <2>4, <2>5 DEF ClientStep
<1>3. CASE ServerStep
  <2>1. ASSUME NEW r \in queue, Dispatch(r)
        PROVE  IInv' /\ UNCHANGED <<executed, outcome>>
    BY <2>1, DispatchStep DEF Dispatch, client
  <2>2. CASE Execute
    BY <2>2, ExecuteStep DEF Calls!Execute
  <2>3. CASE SendReply
    BY <2>3, SendReplyStep DEF SendReply, client
  <2>4. CASE SendReplyUnread \/ HandlerThrows \/ ServerEnds \/ \E kept \in SUBSET queue : Reopen(kept)
    BY <2>4, ForgetStep
  <2> QED BY <1>3, <2>1, <2>2, <2>3, <2>4 DEF ServerStep
<1>4. CASE UNCHANGED vars
  <2>1. UNCHANGED <<executed, outcome>>
    BY <1>4 DEF vars, client
  <2>2. TypeOK' /\ OnePlace'
    BY <1>4 DEF IInv, vars, client, TypeOK, OnePlace, InQueue, Handling, Replying, InInbox
  <2>3. UNCHANGED client /\ \A i \in CallId : NotSent(i) => NotSent(i)'
    BY <1>4 DEF vars, client, NotSent, InQueue, Handling, Replying, InInbox
  <2>4. \A p \in up, i \in CallId : Has(p, i)' => Has(p, i)
    BY <1>4 DEF vars, Has, Handling, Replying
  <2> QED BY <2>1, <2>2, <2>3, <2>4, ClientKept DEF IInv
<1> QED BY <1>1, <1>2, <1>3, <1>4 DEF Next

THEOREM Inductive == Spec => []IInv
<1>1. Init => IInv
  BY InitIInv
<1>2. IInv /\ [Next]_vars => IInv'
  BY NextIInv
<1> QED BY <1>1, <1>2, PTL DEF Spec

(* Every variable keeps its type, what the handlers reply and leave in the *)
(* repository included.                                                    *)
THEOREM TypeCorrect == Spec => []TypeOK
<1>1. IInv => TypeOK
  BY DEF IInv
<1> QED BY <1>1, Inductive, PTL

(* A process that is connected has at most one request or reply under way, *)
(* and a thread of it waits for just that.                                 *)
THEOREM OneUnderWay == Spec => []InTurns
<1>1. ASSUME IInv
      PROVE  InTurns
  <2>1. TypeOK /\ Mutex /\ Turns
    BY <1>1 DEF IInv
  <2> SUFFICES ASSUME NEW p \in up, connected[p], NEW i \in UnderWay(p)
               PROVE  /\ \E t \in ThreadsOf(p) : At(t, "receive") /\ call[t].id = i
                      /\ \A j \in UnderWay(p) : j = i
    BY DEF InTurns
  <2>2. p \in Process
    BY <2>1 DEF TypeOK
  <2>3. \A j \in UnderWay(p) : j \in CallId /\ Has(p, j)
    <3> SUFFICES ASSUME NEW j \in UnderWay(p)
                 PROVE  j \in CallId /\ Has(p, j)
      OBVIOUS
    <3>1. \/ \E r \in queue : r.from = p /\ r.id = j
          \/ inbox[p] # Nothing /\ inbox[p].id = j
          \/ server.is \in {"handling", "replying"} /\ server.request.from = p /\ server.request.id = j
      BY DEF UnderWay
    <3>2. Has(p, j)
      BY <3>1 DEF Has, Handling, Replying
    <3>3. \A r \in queue : r.id \in CallId
      BY <2>1 DEF TypeOK, Message
    <3>4. inbox[p] # Nothing => inbox[p].id \in CallId
      BY <2>1, <2>2 DEF TypeOK, ReplyMessage
    <3>5. server.is \in {"handling", "replying"} => server.request.id \in CallId
      BY <2>1 DEF TypeOK, Message
    <3> QED BY <3>1, <3>2, <3>3, <3>4, <3>5
  <2>4. \A j \in UnderWay(p) : Awaited(p, j)
    BY <2>1, <2>3 DEF Turns
  <2>5. PICK t \in Thread : ProcessOf[t] = p /\ At(t, "receive") /\ call[t].id = i
    BY <2>4 DEF Awaited
  <2>6. ASSUME NEW j \in UnderWay(p)
        PROVE  j = i
    <3>1. PICK u \in Thread : ProcessOf[u] = p /\ At(u, "receive") /\ call[u].id = j
      BY <2>4 DEF Awaited
    <3>2. InCall(t) /\ InCall(u) /\ ~At(t, "lock") /\ ~At(u, "lock")
      BY <2>1, <2>5, <3>1, CallType DEF At
    <3>3. u = t
      BY <2>1, <2>5, <3>1, <3>2, Alone
    <3> QED BY <2>5, <3>1, <3>3
  <2> QED BY <2>5, <2>6 DEF ThreadsOf
<1> QED BY <1>1, Inductive, PTL

(* The requests, the mutex and the sockets implement AtMostOnce: a call is *)
(* executed at most once, and answered with its own answer.                *)
THEOREM AtMostOnceImplemented == Spec => Implements
<1>1. Init => Calls!Init
  BY DEF Init, Calls!Init
<1>2. IInv /\ [Next]_vars => [Calls!Next]_<<executed, outcome>>
  BY NextIInv
<1> QED BY <1>1, <1>2, Inductive, PTL DEF Spec, Implements, Calls!Spec

-----------------------------------------------------------------------------
(* Nothing is left unread, by clients that delete nothing and read what    *)
(* they ask for.  A reply carries no kind: that it is the reply to the     *)
(* call that waits, and so of a kind whose frames are read, follows from   *)
(* Turns.  A request with a body is read whole only if the entity is       *)
(* there; it is, because such a client opened it and nobody deletes it.    *)

InServer == server.is \in {"handling", "replying"}

(* What is asked of the server is what the thread that waits has called.   *)
AsAsked ==
    \A t \in Thread : At(t, "receive") =>
        /\ \A r \in queue : r.id = call[t].id => r.kind = call[t].kind
        /\ InServer /\ server.request.id = call[t].id => server.request.kind = call[t].kind

(* Frames come with the answer to a call for data, and after an "entity"   *)
(* that was found the entity is in the store.                              *)
Brings(kind, ok, frames) ==
    /\ frames # 0 => ok /\ kind \in {"read", "size"}
    /\ ok /\ kind = "entity" /\ setting.ops \subseteq Keeping => store.entity

Answers ==
    /\ server.is = "replying" => Brings(server.request.kind, server.ok, server.frames)
    /\ \A t \in Thread :
          LET reply == inbox[ProcessOf[t]]
          IN  At(t, "receive") /\ reply # Nothing => Brings(call[t].kind, reply.ok, reply.frames)

(* A call of clients that keep things, which may use the data of an entity *)
(* that is there.                                                          *)
Keeps(kind) == kind \in Keeping /\ (kind \in OnEntitydata => store.entity)

Kept ==
    setting.ops \subseteq Keeping =>
        /\ opened # {} => store.entity
        /\ \A t \in Thread : InCall(t) => Keeps(call[t].kind)
        /\ \A r \in queue : Keeps(r.kind)
        /\ InServer => Keeps(server.request.kind)
        /\ server.is = "replying" => ~server.left
        /\ \A p \in Process : unread[p] # 0 => \E t \in ThreadsOf(p) : At(t, "frames")

PInv == AsAsked /\ Answers /\ Kept

(* What of the types these proofs need. *)
LEMMA Shape ==
    ASSUME TypeOK
    PROVE  /\ DOMAIN call = Thread /\ call = [t \in Thread |-> call[t]]
           /\ DOMAIN unread = Process /\ unread = [p \in Process |-> unread[p]]
           /\ DOMAIN inbox = Process /\ inbox = [p \in Process |-> inbox[p]]
           /\ \A p \in Process : inbox[p] # Nothing => inbox[p] \in ReplyMessage /\ inbox[p].id \in CallId
           /\ store \in Store
           /\ InServer => server.request \in Message /\ server.request.id \in CallId
                          /\ server.request.kind \in Kind
<1>1. DOMAIN call = Thread /\ call = [t \in Thread |-> call[t]]
  BY DEF TypeOK
<1>2. DOMAIN unread = Process /\ unread = [p \in Process |-> unread[p]]
  BY DEF TypeOK
<1>3. /\ DOMAIN inbox = Process /\ inbox = [p \in Process |-> inbox[p]]
      /\ \A p \in Process : inbox[p] # Nothing => inbox[p] \in ReplyMessage
  BY DEF TypeOK
<1>4. store \in Store
  BY DEF TypeOK
<1>5. InServer => server.request \in Message
  <2>1. server.is = "handling" => server.request \in Message
    BY DEF TypeOK
  <2>2. server.is = "replying" => server.request \in Message
    BY DEF TypeOK
  <2> QED BY <2>1, <2>2 DEF InServer
<1> QED BY <1>1, <1>2, <1>3, <1>4, <1>5 DEF ReplyMessage, Message

LEMMA InitPInv ==
    ASSUME Init
    PROVE  PInv
<1>1. /\ \A t \in Thread : ~InCall(t) /\ call[t].at = "none"
      /\ \A p \in Process : unread[p] = 0
      /\ queue = {} /\ opened = {} /\ server.is = "waiting"
  BY DEF Init, InCall, NoCall
<1> QED BY <1>1 DEF PInv, AsAsked, Answers, Kept, InServer, At

(* A step of a client that sends nothing. *)
LEMMA AwaitsNoMore ==
    ASSUME PInv, UNCHANGED <<setting, queue, server, store>>,
           \A t \in Thread : At(t, "receive")' => At(t, "receive") /\ call'[t] = call[t]
                                /\ inbox'[ProcessOf[t]] \in {inbox[ProcessOf[t]], Nothing}
    PROVE  AsAsked' /\ Answers'
<1>1. AsAsked'
  BY DEF PInv, AsAsked, InServer
<1>2. Answers'
  <2>1. \A kind, ok, frames : Brings(kind, ok, frames) => Brings(kind, ok, frames)'
    BY DEF Brings
  <2> QED BY <2>1 DEF PInv, Answers
<1> QED BY <1>1, <1>2

LEMMA KeepsOnClient ==
    ASSUME PInv, UNCHANGED <<setting, queue, server, store>>,
           setting.ops \subseteq Keeping =>
              /\ opened' # {} => store.entity
              /\ \A t \in Thread : InCall(t)' => InCall(t) /\ call'[t].kind = call[t].kind
              /\ \A p \in Process : unread'[p] # 0 => \E t \in ThreadsOf(p) : At(t, "frames")'
    PROVE  Kept'
BY DEF PInv, Kept, Keeps, InServer

LEMMA CallKeeps ==
    ASSUME IInv, PInv, NEW t \in Thread, NEW kind \in Kind, NEW i \in CallId, Call(t, kind, i)
    PROVE  PInv'
<1>1. TypeOK /\ ~InCall(t) /\ UNCHANGED <<setting, unread, opened, queue, inbox, server, store>>
  BY DEF IInv, Call
<1>2. /\ call'[t].kind = kind /\ call'[t].at = "lock"
      /\ \A u \in Thread : u # t => call'[u] = call[u]
  <2>1. call' = [call EXCEPT ![t] = [kind |-> kind, at |-> "lock", id |-> i]]
    BY DEF Call
  <2>2. call'[t] = [kind |-> kind, at |-> "lock", id |-> i]
    BY <1>1, <2>1, Shape
  <2> QED BY <1>1, <2>1, <2>2, Shape
<1>3. AsAsked' /\ Answers'
  BY <1>1, <1>2, AwaitsNoMore DEF At
<1>4. ASSUME setting.ops \subseteq Keeping
      PROVE  /\ Keeps(kind)
             /\ \A u \in Thread : At(u, "frames") => At(u, "frames")'
  <2>1. kind \in OnEntitydata => opened # {}
    BY DEF Call
  <2>2. \A u \in Thread : At(u, "frames") => u # t
    BY <1>1, CallType DEF At
  <2> QED BY <1>2, <1>4, <2>1, <2>2 DEF PInv, Kept, Keeps, Call, At
<1>5. Kept'
  <2> SUFFICES ASSUME setting.ops \subseteq Keeping
               PROVE  Kept'
    BY <1>1 DEF Kept
  <2>1. ASSUME NEW u \in Thread, InCall(u)'
        PROVE  Keeps(call[u].kind)'
    <3>1. CASE u = t
      BY <1>1, <1>2, <1>4, <3>1 DEF Keeps
    <3>2. CASE u # t
      BY <1>1, <1>2, <2>1, <3>2 DEF PInv, Kept, Keeps, InCall
    <3> QED BY <3>1, <3>2
  <2>2. \A p \in Process : unread'[p] # 0 => \E u \in ThreadsOf(p) : At(u, "frames")'
    BY <1>1, <1>4 DEF PInv, Kept, ThreadsOf
  <2> QED BY <1>1, <2>1, <2>2 DEF PInv, Kept, Keeps, InServer
<1> QED BY <1>3, <1>5 DEF PInv

LEMMA LockKeeps ==
    ASSUME IInv, PInv, NEW t \in Thread, Lock(t)
    PROVE  PInv'
<1>1. TypeOK /\ UNCHANGED <<setting, unread, opened, queue, inbox, server, store>>
  BY DEF IInv, Lock
<1>2. /\ InCall(t) /\ call[t].at = "lock"
      /\ \A u \in Thread : u # t => call'[u] = call[u]
      /\ call'[t].at = "send" /\ call'[t].kind = call[t].kind
  BY <1>1, CallType, Moves DEF At, Stages, Lock
<1>3. AsAsked' /\ Answers'
  BY <1>1, <1>2, AwaitsNoMore DEF At
<1>4. \A u \in Thread : At(u, "frames") => At(u, "frames")'
  BY <1>2 DEF At
<1>5. \A u \in Thread : InCall(u)' => InCall(u) /\ call'[u].kind = call[u].kind
  BY <1>2 DEF InCall
<1>6. setting.ops \subseteq Keeping =>
        \A p \in Process : unread'[p] # 0 => \E u \in ThreadsOf(p) : At(u, "frames")'
  BY <1>1, <1>4 DEF PInv, Kept, ThreadsOf
<1>7. Kept'
  BY <1>1, <1>5, <1>6, KeepsOnClient DEF PInv, Kept
<1> QED BY <1>3, <1>7 DEF PInv

LEMMA SendKeeps ==
    ASSUME IInv, PInv, NEW t \in Thread, Send(t)
    PROVE  PInv'
<1> DEFINE r == [id |-> call[t].id, kind |-> call[t].kind, from |-> ProcessOf[t]]
<1>1. /\ TypeOK /\ OwnCall /\ Fresh /\ Turns
      /\ queue' = queue \union {r}
      /\ UNCHANGED <<setting, unread, opened, inbox, server, store>>
  BY DEF IInv, Send
<1>2. /\ InCall(t) /\ call[t].at = "send" /\ call[t].id \in CallId /\ ProcessOf[t] \in Process
      /\ \A u \in Thread : u # t => call'[u] = call[u]
      /\ call'[t].at = "receive" /\ call'[t].kind = call[t].kind /\ call'[t].id = call[t].id
  BY <1>1, CallType, Moves DEF At, Stages, Send
<1>3. NotSent(call[t].id)
  BY <1>1, <1>2 DEF Fresh, At
<1>4. AsAsked'
  <2> SUFFICES ASSUME NEW u \in Thread, At(u, "receive")'
               PROVE  (/\ \A q \in queue : q.id = call[u].id => q.kind = call[u].kind
                       /\ InServer /\ server.request.id = call[u].id
                            => server.request.kind = call[u].kind)'
    BY DEF AsAsked
  <2>1. CASE u = t
    BY <1>1, <1>2, <1>3, <2>1 DEF NotSent, InQueue, Handling, Replying, InServer
  <2>2. CASE u # t
    <3>1. At(u, "receive") /\ InCall(u) /\ call[u].id # call[t].id
      BY <1>1, <1>2, <2>2, CallType DEF At, OwnCall
    <3> QED BY <1>1, <1>2, <2>2, <3>1 DEF PInv, AsAsked, InServer
  <2> QED BY <2>1, <2>2
<1>5. Answers'
  <2> SUFFICES ASSUME NEW u \in Thread, At(u, "receive")', inbox[ProcessOf[u]] # Nothing
               PROVE  Brings(call[u].kind, inbox[ProcessOf[u]].ok, inbox[ProcessOf[u]].frames)'
    BY <1>1 DEF PInv, Answers, Brings
  <2>1. u # t
    <3>1. SUFFICES ASSUME u = t
                   PROVE  FALSE
      OBVIOUS
    <3> DEFINE p == ProcessOf[t]
    <3>2. inbox[p].id \in CallId /\ Has(p, inbox[p].id)
      BY <1>1, <1>2, <3>1, Shape DEF Has
    <3>3. p \in up /\ connected[p]
      BY <1>2 DEF IInv, Alive, Send
    <3>4. PICK v \in Thread : ProcessOf[v] = p /\ At(v, "receive")
      BY <1>1, <3>2, <3>3 DEF Turns, Awaited
    <3>5. InCall(v) /\ ~At(v, "lock") /\ ~At(t, "lock") /\ v # t
      BY <1>1, <1>2, <3>4, CallType DEF At
    <3> QED BY <1>2, <3>4, <3>5, Alone DEF IInv
  <2> QED BY <1>1, <1>2, <2>1 DEF PInv, Answers, Brings, At
<1>6. Kept'
  <2>1. \A u \in Thread : At(u, "frames") => At(u, "frames")'
    BY <1>2 DEF At
  <2> SUFFICES ASSUME setting.ops \subseteq Keeping
               PROVE  Kept'
    BY <1>1 DEF Kept
  <2>2. \A u \in Thread : InCall(u)' => Keeps(call[u].kind)'
    BY <1>1, <1>2 DEF PInv, Kept, Keeps, InCall
  <2>3. \A q \in queue' : Keeps(q.kind)'
    BY <1>1, <1>2 DEF PInv, Kept, Keeps
  <2>4. \A p \in Process : unread'[p] # 0 => \E u \in ThreadsOf(p) : At(u, "frames")'
    BY <1>1, <2>1 DEF PInv, Kept, ThreadsOf
  <2> QED BY <1>1, <2>2, <2>3, <2>4 DEF PInv, Kept, Keeps, InServer
<1> QED BY <1>4, <1>5, <1>6 DEF PInv

(* A call fails, and perhaps all calls of its process. *)
LEMMA DropKeeps ==
    ASSUME IInv, PInv, NEW t \in Thread,
           SendNotConnected(t) \/ SendUnread(t) \/ TimeOut(t) \/ ReceiveNothingToRead(t)
    PROVE  PInv'
<1> DEFINE p == ProcessOf[t]
<1>1. /\ TypeOK /\ Mutex /\ UNCHANGED <<setting, queue, server, store>>
      /\ At(t, "send") \/ At(t, "receive")
      /\ FailUnlocked(t) \/ FailLocked(t) \/ ProcessEnds(p)
  BY DEF IInv, SendNotConnected, SendUnread, TimeOut, ReceiveNothingToRead
<1>2. \A q \in Process : inbox'[q] \in {inbox[q], Nothing}
  <2>1. inbox' = inbox \/ inbox' = [inbox EXCEPT ![p] = Nothing]
    BY DEF SendNotConnected, SendUnread, TimeOut, ReceiveNothingToRead
  <2> QED BY <1>1, <2>1, Shape
<1>3. /\ opened' \subseteq opened
      /\ \/ UNCHANGED unread /\ call' = [call EXCEPT ![t] = NoCall]
         \/ /\ unread' = [unread EXCEPT ![p] = 0]
            /\ call' = [u \in Thread |-> IF u \in ThreadsOf(p) THEN NoCall ELSE call[u]]
  <2>1. CASE FailUnlocked(t) \/ FailLocked(t)
    BY <2>1 DEF FailUnlocked, FailLocked, Leave
  <2>2. CASE ProcessEnds(p)
    BY <2>2 DEF ProcessEnds
  <2> QED BY <1>1, <2>1, <2>2
<1>5. \A u \in Thread : call'[u] = call[u] \/ call'[u] = NoCall
  BY <1>1, <1>3, Shape
<1>4. AsAsked' /\ Answers'
  BY <1>1, <1>2, <1>5, CallType, AwaitsNoMore DEF At, NoCall
<1>6. \A q \in Process : unread'[q] # 0 =>
         unread[q] # 0 /\ \A u \in ThreadsOf(q) : At(u, "frames") => At(u, "frames")'
  <2>1. CASE UNCHANGED unread /\ call' = [call EXCEPT ![t] = NoCall]
    BY <1>1, <2>1, Shape DEF At, ThreadsOf
  <2>2. CASE /\ unread' = [unread EXCEPT ![p] = 0]
             /\ call' = [u \in Thread |-> IF u \in ThreadsOf(p) THEN NoCall ELSE call[u]]
    BY <1>1, <2>2, Shape DEF At, ThreadsOf
  <2> QED BY <1>3, <2>1, <2>2
<1>7. Kept'
  BY <1>1, <1>3, <1>5, <1>6, KeepsOnClient DEF PInv, Kept, InCall
<1> QED BY <1>4, <1>7 DEF PInv

LEMMA ReceiveKeeps ==
    ASSUME IInv, PInv, NEW t \in Thread, Receive(t)
    PROVE  PInv'
<1> DEFINE p == ProcessOf[t]
<1> DEFINE reply == inbox[p]
<1>1. /\ TypeOK /\ UNCHANGED <<setting, queue, server, store>>
      /\ At(t, "receive") /\ reply # Nothing
      /\ unread' = [unread EXCEPT ![p] = reply.frames]
      /\ inbox' = [inbox EXCEPT ![p] = Nothing]
  BY DEF IInv, Receive
<1>2. /\ InCall(t) /\ p \in Process /\ reply \in ReplyMessage
      /\ Brings(call[t].kind, reply.ok, reply.frames)
  BY <1>1, CallType, Shape DEF At, PInv, Answers
<1>3. /\ \A u \in Thread : u # t => call'[u] = call[u]
      /\ call'[t].at # "receive"
      /\ call'[t] # NoCall => call'[t].kind = call[t].kind
      /\ call[t].kind = "read" /\ reply.ok => call'[t].at = "frames"
  <2>1. CASE Leave(t) /\ ~(call[t].kind = "read" /\ reply.ok)
    BY <1>1, <2>1, Leaves DEF NoCall
  <2>2. CASE call' = [call EXCEPT ![t].at = IF call[t].kind = "read" THEN "frames" ELSE "unlock"]
    BY <1>1, <1>2, <2>2, Moves DEF Stages
  <2> QED BY <2>1, <2>2 DEF Receive
<1>4. AsAsked' /\ Answers'
  BY <1>1, <1>2, <1>3, Shape, AwaitsNoMore DEF At
<1>5. ASSUME setting.ops \subseteq Keeping
      PROVE  /\ opened' # {} => store.entity
             /\ reply.frames # 0 => At(t, "frames")'
             /\ \A u \in Thread : InCall(u)' => InCall(u) /\ call'[u].kind = call[u].kind
  <2>1. opened' = opened \/ (call[t].kind = "entity" /\ reply.ok)
    BY DEF Receive
  <2>2. call[t].kind \in Keeping
    BY <1>2, <1>5 DEF PInv, Kept, Keeps
  <2>3. reply.frames # 0 => call[t].kind = "read" /\ reply.ok
    BY <1>2, <2>2 DEF Brings, Keeping
  <2> QED BY <1>2, <1>3, <1>5, <2>1, <2>3 DEF PInv, Kept, Brings, At, InCall
<1>6. \A q \in Process : q # p => unread'[q] = unread[q]
                             /\ \A u \in ThreadsOf(q) : At(u, "frames") => At(u, "frames")'
  BY <1>1, <1>3, Shape DEF ThreadsOf, At
<1>7. unread'[p] = reply.frames /\ t \in ThreadsOf(p)
  BY <1>1, <1>2, Shape DEF ThreadsOf
<1>8. Kept'
  BY <1>1, <1>5, <1>6, <1>7, KeepsOnClient DEF PInv, Kept
<1> QED BY <1>4, <1>8 DEF PInv

LEMMA AnsweredKeeps ==
    ASSUME IInv, PInv, NEW t \in Thread, ReadFrames(t) \/ ReturnUnlocked(t)
    PROVE  PInv'
<1> DEFINE p == ProcessOf[t]
<1>1. /\ TypeOK /\ UNCHANGED <<setting, opened, queue, inbox, server, store>>
      /\ InCall(t) /\ p \in Process
      /\ At(t, "frames") \/ At(t, "unlock")
  BY CallType DEF IInv, ReadFrames, ReturnUnlocked, At
<1>2. /\ \A u \in Thread : u # t => call'[u] = call[u]
      /\ call'[t].at # "receive"
      /\ call'[t] # NoCall => call'[t].kind = call[t].kind
  <2>1. CASE ReturnUnlocked(t)
    BY <1>1, <2>1, Leaves DEF NoCall, ReturnUnlocked
  <2>2. CASE ReadFrames(t)
    BY <1>1, <2>2, Moves DEF Stages, ReadFrames
  <2> QED BY <2>1, <2>2
<1>3. AsAsked' /\ Answers'
  BY <1>1, <1>2, AwaitsNoMore DEF At
<1>4. \A q \in Process : unread'[q] # 0 =>
         unread[q] # 0 /\ \A u \in ThreadsOf(q) : At(u, "frames") => At(u, "frames")'
  BY <1>1, <1>2, Shape DEF ReadFrames, ReturnUnlocked, ThreadsOf, At
<1>5. Kept'
  BY <1>1, <1>2, <1>4, KeepsOnClient DEF PInv, Kept, InCall
<1> QED BY <1>3, <1>5 DEF PInv

(* What a handler replies, and that what clients which keep things ask for *)
(* leaves an entity where it is.                                           *)
LEMMA HandleKeeps ==
    ASSUME NEW st \in Store, NEW kind \in Kind, NEW reply \in Handle(st, kind)
    PROVE  /\ reply.frames # 0 => reply.ok /\ kind \in {"read", "size"}
           /\ reply.ok /\ kind = "entity" => reply.store.entity
           /\ kind \in Keeping /\ st.entity => reply.store.entity
           /\ kind \in Keeping /\ (kind \in OnEntitydata => st.entity) => ~reply.left
<1>1. /\ st \in [workspace : BOOLEAN, entity : BOOLEAN, data : BOOLEAN]
      /\ st.entity => st.workspace
  BY DEF Store
<1>2. CASE kind = "list"
  <2>1. reply = Reply(st, TRUE, 0, FALSE)
    BY <1>2 DEF Handle, HandleListWorkspaces
  <2> QED BY <1>2, <2>1 DEF Reply
<1>3. CASE kind = "entity"
  <2>1. reply = Reply(st, st.workspace /\ st.entity, 0, FALSE)
    BY <1>3 DEF Handle, HandleGenericEntry
  <2>2. reply.store = st /\ reply.ok = (st.workspace /\ st.entity) /\ reply.frames = 0 /\ ~reply.left
    BY <2>1 DEF Reply
  <2> QED BY <1>3, <2>2
<1>4. CASE kind \in {"size", "read"}
  <2>1. \/ \E n \in 1..MaxFrames : reply = Reply(st, TRUE, n, FALSE)
        \/ reply = Reply(st, FALSE, 0, FALSE)
    BY <1>4 DEF Handle, HandleEntitydata
  <2>2. /\ reply.store = st /\ ~reply.left
        /\ reply.frames # 0 => reply.ok
    BY <2>1 DEF Reply
  <2> QED BY <1>4, <2>2
<1>5. CASE kind \in {"create", "tree", "run", "delete", "store", "resize", "append"}
  <2>1. reply.frames = 0
    <3>1. CASE kind = "create"
      BY <3>1 DEF Handle, HandleWorkspace, Reply
    <3>2. CASE kind = "tree"
      BY <3>2 DEF Handle, HandleGenericEntry, Reply
    <3>3. CASE kind = "run"
      BY <3>3 DEF Handle, HandleOperatorExecution, Reply
    <3>4. CASE kind = "delete"
      BY <3>4 DEF Handle, HandleDelete, Reply
    <3>5. CASE kind \in {"store", "resize", "append"}
      <4>1. \E s, ok, left : reply = Reply(s, ok, 0, left)
        BY <3>5 DEF Handle, HandleStoreEntity, HasBody
      <4> QED BY <4>1 DEF Reply
    <3> QED BY <1>5, <3>1, <3>2, <3>3, <3>4, <3>5
  <2>2. kind \notin Keeping /\ kind # "entity"
    BY <1>5 DEF Keeping
  <2> QED BY <2>1, <2>2
<1>6. CASE kind = "write"
  <2>1. reply \in HandleStoreEntity(st, kind)
    BY <1>6 DEF Handle
  <2>2. /\ \E s, ok, left : reply = Reply(s, ok, 0, left)
        /\ st.entity => reply = Reply([st EXCEPT !.data = TRUE], TRUE, 0, FALSE)
    BY <1>1, <1>6, <2>1 DEF HandleStoreEntity, HasBody
  <2>3. [st EXCEPT !.data = TRUE].entity = st.entity
    BY <1>1
  <2>4. /\ reply.frames = 0
        /\ st.entity => reply.store = [st EXCEPT !.data = TRUE] /\ ~reply.left
    BY <2>2 DEF Reply
  <2> QED BY <1>6, <2>3, <2>4 DEF OnEntitydata
<1> QED BY <1>2, <1>3, <1>4, <1>5, <1>6 DEF Kind

LEMMA ExecuteKeeps ==
    ASSUME IInv, PInv, Execute
    PROVE  PInv'
<1> DEFINE r == server.request
<1>1. /\ TypeOK /\ server.is = "handling" /\ InServer
      /\ UNCHANGED <<setting, unread, call, opened, queue, inbox>>
  BY DEF IInv, Execute, client, InServer
<1>2. r \in Message /\ r.kind \in Kind /\ store \in Store
  BY <1>1, Shape
<1>3. PICK reply \in Handle(store, r.kind) :
         /\ store' = reply.store
         /\ server' = [is |-> "replying", request |-> r, ok |-> reply.ok,
                       frames |-> reply.frames, left |-> reply.left]
  BY DEF Execute
<1>4. /\ server'.is = "replying" /\ server'.request = r /\ server'.ok = reply.ok
      /\ server'.frames = reply.frames /\ server'.left = reply.left
  BY <1>3
<1>5. /\ reply.frames # 0 => reply.ok /\ r.kind \in {"read", "size"}
      /\ reply.ok /\ r.kind = "entity" => reply.store.entity
      /\ r.kind \in Keeping /\ store.entity => reply.store.entity
      /\ r.kind \in Keeping /\ (r.kind \in OnEntitydata => store.entity) => ~reply.left
  BY <1>2, HandleKeeps
<1>6. AsAsked'
  BY <1>1, <1>4 DEF PInv, AsAsked, InServer, At
<1>7. setting.ops \subseteq Keeping => Keeps(r.kind) /\ (store.entity => store'.entity)
  BY <1>1, <1>3, <1>5 DEF PInv, Kept, Keeps
<1>8. Answers'
  BY <1>1, <1>3, <1>4, <1>5, <1>7 DEF PInv, Answers, Brings, At
<1>9. Kept'
  BY <1>1, <1>3, <1>4, <1>5, <1>7 DEF PInv, Kept, Keeps, InServer, InCall, ThreadsOf, At
<1> QED BY <1>6, <1>8, <1>9 DEF PInv

LEMMA SendReplyKeeps ==
    ASSUME IInv, PInv, SendReply
    PROVE  PInv'
<1> DEFINE p == server.request.from
<1>1. /\ TypeOK /\ Turns /\ server.is = "replying" /\ InServer
      /\ server'.is = "waiting" /\ ~InServer'
      /\ UNCHANGED <<setting, up, connected, unread, call, opened, queue, store>>
  BY DEF IInv, SendReply, client, InServer
<1>2. AsAsked' /\ Kept'
  BY <1>1 DEF PInv, AsAsked, Kept, Keeps, InCall, ThreadsOf, At
<1>3. Answers'
  <2> SUFFICES ASSUME NEW t \in Thread, At(t, "receive"), inbox'[ProcessOf[t]] # Nothing
               PROVE  Brings(call[t].kind, inbox'[ProcessOf[t]].ok, inbox'[ProcessOf[t]].frames)
    BY <1>1 DEF Answers, Brings, At
  <2>1. ProcessOf[t] \in Process /\ InCall(t) /\ ~At(t, "lock")
    BY <1>1, CallType DEF At
  <2>2. CASE inbox'[ProcessOf[t]] = inbox[ProcessOf[t]]
    BY <2>2 DEF PInv, Answers
  <2>3. CASE inbox'[ProcessOf[t]] # inbox[ProcessOf[t]]
    <3>1. /\ ProcessOf[t] = p /\ p \in up /\ connected[p]
          /\ inbox'[p].ok = server.ok /\ inbox'[p].frames = server.frames
      BY <1>1, <2>1, <2>3, Shape DEF SendReply
    <3>2. server.request.id \in CallId /\ Has(p, server.request.id)
      BY <1>1, Shape DEF Has, Replying
    <3>3. PICK u \in Thread : ProcessOf[u] = p /\ At(u, "receive") /\ call[u].id = server.request.id
      BY <1>1, <3>1, <3>2 DEF Turns, Awaited
    <3>4. InCall(u) /\ ~At(u, "lock")
      BY <1>1, <3>3, CallType DEF At
    <3>5. u = t
      BY <2>1, <3>1, <3>3, <3>4, Alone DEF IInv
    <3>6. server.request.kind = call[t].kind
      BY <1>1, <3>3, <3>5 DEF PInv, AsAsked
    <3> QED BY <1>1, <3>1, <3>6 DEF PInv, Answers
  <2> QED BY <2>2, <2>3
<1> QED BY <1>2, <1>3 DEF PInv

(* The server takes a request, or forgets what it did and perhaps requests. *)
LEMMA ServerKeeps ==
    ASSUME IInv, PInv,
           \/ \E r \in queue : Dispatch(r)
           \/ SendReplyUnread \/ HandlerThrows \/ ServerEnds \/ \E kept \in SUBSET queue : Reopen(kept)
    PROVE  PInv'
<1>1. /\ UNCHANGED <<setting, unread, call, opened, inbox, store>> /\ queue' \subseteq queue
      /\ server'.is # "replying"
      /\ InServer' => server'.request \in queue
  BY DEF Dispatch, SendReplyUnread, HandlerThrows, ServerEnds, Reopen, client, InServer
<1>2. AsAsked'
  BY <1>1 DEF PInv, AsAsked, At
<1>3. Answers'
  BY <1>1 DEF PInv, Answers, Brings, At
<1>4. Kept'
  BY <1>1 DEF PInv, Kept, Keeps, InCall, ThreadsOf, At
<1> QED BY <1>2, <1>3, <1>4 DEF PInv

LEMMA NextPInv ==
    ASSUME IInv, PInv, [Next]_vars
    PROVE  PInv'
<1>1. CASE \E t \in Thread, kind \in Kind, i \in CallId : Call(t, kind, i)
  BY <1>1, CallKeeps
<1>2. CASE \E t \in Thread : ClientStep(t)
  BY <1>2, LockKeeps, SendKeeps, DropKeeps, ReceiveKeeps, AnsweredKeeps DEF ClientStep
<1>3. CASE ServerStep
  BY <1>3, ExecuteKeeps, SendReplyKeeps, ServerKeeps DEF ServerStep
<1>4. CASE UNCHANGED vars
  BY <1>4 DEF vars, client, PInv, AsAsked, Answers, Brings, Kept, Keeps, InServer, At, InCall, ThreadsOf
<1> QED BY <1>1, <1>2, <1>3, <1>4 DEF Next

(* Clients that delete nothing and read what they ask for never begin a    *)
(* call with parts of a reply unread, and the server replies to them with  *)
(* nothing of their request unread.                                        *)
THEOREM NothingLeft == Spec => []NoPartsLeft
<1>1. Init => PInv
  BY InitPInv
<1>2. IInv /\ PInv /\ [Next]_vars => PInv'
  BY NextPInv
<1>3. IInv /\ PInv => NoPartsLeft
  <2> SUFFICES ASSUME IInv, PInv, setting.ops \subseteq Keeping,
                      NEW t \in Thread, At(t, "send"), unread[ProcessOf[t]] # 0
               PROVE  FALSE
    BY DEF NoPartsLeft, PInv, Kept
  <2>1. TypeOK /\ Mutex
    BY DEF IInv
  <2>2. ProcessOf[t] \in Process /\ InCall(t) /\ ~At(t, "lock")
    BY <2>1, CallType DEF At
  <2>3. PICK u \in ThreadsOf(ProcessOf[t]) : At(u, "frames")
    BY <2>2 DEF PInv, Kept
  <2>4. u \in Thread /\ ProcessOf[u] = ProcessOf[t] /\ InCall(u) /\ ~At(u, "lock") /\ u # t
    BY <2>1, <2>3, CallType DEF ThreadsOf, At
  <2> QED BY <2>1, <2>2, <2>4, Alone
<1> QED BY <1>1, <1>2, <1>3, Inductive, PTL DEF Spec

=============================================================================
