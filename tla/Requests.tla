------------------------------ MODULE Requests ------------------------------
(***************************************************************************)
(* Calls on a remote repository (libs/networking_node):                    *)
(*   ZmqRequester, ZmqRequesterWorkspace   the client's calls              *)
(*   ZmqEntitydataStreamProvider           the client's entity data        *)
(*   ZmqProtobufNode                       messages over one socket        *)
(*   ZmqResponderPrivate                   the server's handlers           *)
(*   tools/mapitd                          the server's loop               *)
(*                                                                         *)
(* All threads of a client process share one socket and one mutex, which a *)
(* call holds from its request to the last part of its reply.  A socket is *)
(* of kind REQ or REP: it sends and receives in turns.  One server answers *)
(* the processes of all clients, on one workspace and one path.            *)
(***************************************************************************)
EXTENDS Naturals

CONSTANTS
  Process,    \* client processes
  Thread,     \* their threads
  ProcessOf,  \* [Thread -> Process]
  Settings,   \* the settings to look at: clients, their calls, the build
  MaxCalls,   \* bound: calls
  MaxFrames   \* bound: frames of the data of an entity

Kind == {"list", "create", "tree", "entity", "run", "store", "delete",
         "size", "resize", "read", "write", "append"}

ASSUME ThreadAssumption == ProcessOf \in [Thread -> Process] /\ "nobody" \notin Thread

(* Which clients there are and which calls they make; whether the build    *)
(* has assertions; whether mapitd runs with --count, so that its loops     *)
(* reopen their socket.                                                    *)
Setting == [clients : SUBSET Process, ops : SUBSET Kind, asserts : BOOLEAN, restarts : BOOLEAN]

ASSUME SettingAssumption == Settings \subseteq Setting
ASSUME BoundAssumption == MaxCalls \in Nat /\ MaxFrames \in Nat \ {0}

CallId == 1..MaxCalls

(* A message to the process of a thread, or nothing. *)
Nothing == [id |-> 0]

VARIABLES
  setting,   \* the setting, which nothing changes
  up,        \* processes that run
  connected, \* connected_ of their sockets
  unread,    \* parts of the last reply that a process has not read
  holder,    \* the thread that holds m_requestMutex of a process, or "nobody"
  call,      \* [Thread -> the call it is in]
  opened,    \* threads that hold entity data they may read and write
  queue,     \* requests on their way to the server
  inbox,     \* the reply a process may receive, or Nothing
  server,    \* what the server does
  store,     \* what the server's repository holds at the workspace and path
  executed,  \* how often each call was executed
  outcome    \* what the caller of each call knows

client == <<setting, up, connected, unread, holder, call, opened, outcome>>
vars == <<client, queue, inbox, server, store, executed>>

(* An entity lies in a workspace, its data belongs to it. *)
Store == {st \in [workspace : BOOLEAN, entity : BOOLEAN, data : BOOLEAN] :
            (st.data => st.entity) /\ (st.entity => st.workspace)}

NoCall == [kind |-> "none", at |-> "none", id |-> 0]
ThreadsOf(p) == {t \in Thread : ProcessOf[t] = p}
InCall(t) == call[t] # NoCall
At(t, stage) == call[t].at = stage

-----------------------------------------------------------------------------
(* What the code of a call does when things go wrong.                      *)

(* A null reply is looked for before it is used. *)
ChecksReply == {"list", "create"}

(* std::runtime_error is caught, and the mutex unlocked: a socket that is  *)
(* not connected.                                                          *)
CatchesRuntimeError == {"tree", "entity", "run", "store"}

(* zmq::error_t is caught, and the mutex unlocked: a socket out of turn. *)
CatchesZmqError == {"list", "create", "tree", "size", "resize"}

(* zmq::error_t is caught, and the mutex stays locked. *)
ForgetsToUnlock == {"read", "write", "append"}

(* Calls on entity data that was opened before. *)
OnEntitydata == {"size", "resize", "read", "write", "append"}

(* Clients that delete nothing and read what they ask for. *)
Keeping == {"list", "entity", "read", "write"}

(* Requests whose data follows the message as a raw body. *)
HasBody == {"write", "append"}

-----------------------------------------------------------------------------
(* The handlers of the server: the outcomes of a request on a store.  A    *)
(* reply is positive or not, has frames of data after it, and parts of the *)
(* request may still be unread when it is sent.                            *)

Reply(st, ok, frames, left) == [store |-> st, ok |-> ok, frames |-> frames, left |-> left]

(* handleRequestListWorkspaces *)
HandleListWorkspaces(st) == {Reply(st, TRUE, 0, FALSE)}

(* handleRequestWorkspace, asked to create what does not exist *)
HandleWorkspace(st) == {Reply([st EXCEPT !.workspace = TRUE], TRUE, 0, FALSE)}

(* handleRequestGenericEntry *)
HandleGenericEntry(st) == {Reply(st, st.workspace /\ st.entity, 0, FALSE)}

(* handleRequestEntitydata: the data follows in frames, the last of which  *)
(* may be empty.                                                           *)
HandleEntitydata(st) ==
    IF st.workspace /\ st.entity
    THEN {Reply(st, TRUE, n, FALSE) : n \in 1..MaxFrames}
    ELSE {Reply(st, FALSE, 0, FALSE)}

(* handleRequestOperatorExecution: an operator leaves things alone, or     *)
(* stores an entity with its data.                                         *)
HandleOperatorExecution(st) ==
    IF st.workspace
    THEN {Reply(new, TRUE, 0, FALSE) : new \in {st, [st EXCEPT !.entity = TRUE, !.data = TRUE]}}
    ELSE {Reply(st, FALSE, 0, FALSE)}

(* handleRequestDeleteEntity, handleRequestDeleteTree *)
HandleDeleteOfEntity(st) ==                        \* mutant: the data stays
    {Reply([st EXCEPT !.entity = FALSE], TRUE, 0, FALSE)}

HandleDelete(st) ==
    IF st.workspace
    THEN {Reply([st EXCEPT !.entity = FALSE, !.data = FALSE], TRUE, 0, FALSE)}
    ELSE {Reply(st, FALSE, 0, FALSE)}

(* handleRequestStoreEntity.  A message that writes data carries no type,  *)
(* so the entity must be there; an offset ("append") must be within the    *)
(* length that is sent.  The body is read or discarded except when the     *)
(* inline operator gives up before it.                                     *)
HandleStoreEntity(st, kind) ==
    IF ~st.workspace THEN {Reply(st, FALSE, 0, FALSE)}
    ELSE CASE kind = "store" -> {Reply([st EXCEPT !.entity = TRUE], TRUE, 0, FALSE)}
           [] kind = "resize" -> {Reply(st, st.entity, 0, FALSE)}
           [] kind \in HasBody /\ st.entity ->
                {Reply([st EXCEPT !.data = TRUE], TRUE, 0, FALSE)}
                  \union (IF kind = "append" THEN {Reply(st, FALSE, 0, FALSE)} ELSE {})
           [] kind \in HasBody /\ ~st.entity -> {Reply(st, FALSE, 0, TRUE)}

Handle(st, kind) ==
    CASE kind = "list" -> HandleListWorkspaces(st)
      [] kind = "create" -> HandleWorkspace(st)
      [] kind \in {"tree", "entity"} -> HandleGenericEntry(st)
      [] kind = "run" -> HandleOperatorExecution(st)
      [] kind = "delete" -> HandleDelete(st)
      [] kind \in {"size", "read"} -> HandleEntitydata(st)
      [] kind \in {"store", "resize", "write", "append"} -> HandleStoreEntity(st, kind)

-----------------------------------------------------------------------------
(* Ends of calls.                                                          *)

Unlock(p) == holder' = [holder EXCEPT ![p] = "nobody"]
Leave(t) == call' = [call EXCEPT ![t] = NoCall]
Learn(t, o) == outcome' = [outcome EXCEPT ![call[t].id] = o]

(* An exception nobody catches, a null pointer, a failing assertion: the   *)
(* process ends, with all its threads.                                     *)
ProcessEnds(p) ==
    /\ up' = up \ {p}
    /\ holder' = [holder EXCEPT ![p] = "nobody"]
    /\ unread' = [unread EXCEPT ![p] = 0]
    /\ call' = [t \in Thread |-> IF t \in ThreadsOf(p) THEN NoCall ELSE call[t]]
    /\ opened' = opened \ ThreadsOf(p)
    /\ outcome' = [i \in CallId |->
                     IF \E t \in ThreadsOf(p) : call[t].id = i THEN "given up" ELSE outcome[i]]

(* A call fails and returns to its caller, with the mutex unlocked. *)
FailStillLocked(t) ==                              \* mutant: no unlock
    /\ Leave(t)
    /\ Learn(t, "given up")
    /\ UNCHANGED <<up, unread, holder, opened>>

FailUnlocked(t) ==
    /\ Unlock(ProcessOf[t])
    /\ Leave(t)
    /\ Learn(t, "given up")
    /\ UNCHANGED <<up, unread, opened>>

(* A call fails and returns to its caller, with the mutex locked. *)
FailLocked(t) ==
    /\ Leave(t)
    /\ Learn(t, "given up")
    /\ UNCHANGED <<up, unread, holder, opened>>

-----------------------------------------------------------------------------
(* The client.                                                             *)

Init ==
    /\ setting \in Settings
    /\ up = setting.clients
    /\ connected = [p \in Process |-> TRUE]
    /\ unread = [p \in Process |-> 0]
    /\ holder = [p \in Process |-> "nobody"]
    /\ call = [t \in Thread |-> NoCall]
    /\ opened = {}
    /\ queue = {}
    /\ inbox = [p \in Process |-> Nothing]
    /\ server = [is |-> "waiting"]
    /\ store \in Store
    /\ executed = [i \in CallId |-> 0]
    /\ outcome = [i \in CallId |-> "unused"]

(* A thread calls a function of the interface. *)
Call(t, kind, i) ==
    /\ kind \in setting.ops
    /\ ProcessOf[t] \in up
    /\ ~InCall(t)
    /\ kind \in OnEntitydata => t \in opened
    /\ outcome[i] = "unused"
    /\ \A j \in 1..(i - 1) : outcome[j] # "unused"
    /\ call' = [call EXCEPT ![t] = [kind |-> kind, at |-> "lock", id |-> i]]
    /\ outcome' = [outcome EXCEPT ![i] = "open"]
    /\ UNCHANGED <<setting, up, connected, unread, holder, opened, queue, inbox,
                   server, store, executed>>

(* m_requestMutex->lock(), which blocks also the thread that holds it. *)
LockAnyway(t) ==                                   \* mutant: no mutex
    /\ At(t, "lock")
    /\ holder' = [holder EXCEPT ![ProcessOf[t]] = t]
    /\ call' = [call EXCEPT ![t].at = "send"]
    /\ UNCHANGED <<setting, up, connected, unread, opened, outcome, queue, inbox,
                   server, store, executed>>

Lock(t) ==
    /\ At(t, "lock")
    /\ holder[ProcessOf[t]] = "nobody"
    /\ holder' = [holder EXCEPT ![ProcessOf[t]] = t]
    /\ call' = [call EXCEPT ![t].at = "send"]
    /\ UNCHANGED <<setting, up, connected, unread, opened, outcome, queue, inbox,
                   server, store, executed>>

(* ZmqProtobufNode::send, of a request *)
Send(t) ==
    LET p == ProcessOf[t]
    IN  /\ At(t, "send")
        /\ connected[p]
        /\ unread[p] = 0
        /\ queue' = queue \union {[id |-> call[t].id, kind |-> call[t].kind, from |-> p]}
        /\ call' = [call EXCEPT ![t].at = "receive"]
        /\ UNCHANGED <<setting, up, connected, unread, holder, opened, outcome, inbox,
                       server, store, executed>>

(* send throws a std::runtime_error *)
SendNotConnected(t) ==
    LET p == ProcessOf[t]
    IN  /\ At(t, "send")
        /\ ~connected[p]
        /\ IF call[t].kind \in CatchesRuntimeError THEN FailUnlocked(t) ELSE ProcessEnds(p)
        /\ UNCHANGED <<setting, connected, queue, inbox, server, store, executed>>

(* send meets the assertion that nothing is unread; without assertions the *)
(* socket is out of turn and throws a zmq::error_t.                        *)
SendUnread(t) ==
    LET p == ProcessOf[t]
    IN  /\ At(t, "send")
        /\ connected[p]
        /\ unread[p] > 0
        /\ IF ~setting.asserts /\ call[t].kind \in CatchesZmqError THEN FailUnlocked(t)
           ELSE IF ~setting.asserts /\ call[t].kind \in ForgetsToUnlock THEN FailLocked(t)
           ELSE ProcessEnds(p)
        /\ UNCHANGED <<setting, connected, queue, inbox, server, store, executed>>

(* ZmqProtobufNode::receive, of a reply: its message, not its frames.  A   *)
(* late reply, of a call that was given up, cannot come.                   *)
Receive(t) ==
    LET p == ProcessOf[t]
        reply == inbox[p]
    IN  /\ At(t, "receive")
        /\ reply # Nothing
        /\ inbox' = [inbox EXCEPT ![p] = Nothing]
        /\ unread' = [unread EXCEPT ![p] = reply.frames]
        /\ opened' = IF call[t].kind = "entity" /\ reply.ok THEN opened \union {t} ELSE opened
        /\ \/ /\ call[t].kind # "read" \/ reply.ok
              /\ call' = [call EXCEPT ![t].at =
                            IF call[t].kind = "read" THEN "frames" ELSE "unlock"]
              /\ outcome' = [outcome EXCEPT ![call[t].id] =
                               IF reply.id = call[t].id THEN "answered" ELSE "deceived"]
           \/ \* startRead returns a null pointer with the mutex locked
              /\ call[t].kind = "read" /\ ~reply.ok
              /\ Leave(t)
              /\ Learn(t, "answered")
        /\ UNCHANGED <<setting, up, connected, holder, queue, server, store, executed>>

(* startRead fails as in Receive, and what makes a stream of the null      *)
(* pointer and of a length that was never set ends the process.            *)
ReceiveNothingToRead(t) ==
    LET p == ProcessOf[t]
    IN  /\ At(t, "receive")
        /\ inbox[p] # Nothing
        /\ call[t].kind = "read" /\ ~inbox[p].ok
        /\ inbox' = [inbox EXCEPT ![p] = Nothing]
        /\ ProcessEnds(p)
        /\ UNCHANGED <<setting, connected, queue, server, store, executed>>

(* receive_raw_body, until has_more says no *)
ReadOneFrame(t) ==                                 \* mutant: no loop
    /\ At(t, "frames")
    /\ unread' = [unread EXCEPT ![ProcessOf[t]] = @ - 1]
    /\ call' = [call EXCEPT ![t].at = "unlock"]
    /\ UNCHANGED <<setting, up, connected, holder, opened, outcome, queue, inbox,
                   server, store, executed>>

ReadFrames(t) ==
    /\ At(t, "frames")
    /\ unread' = [unread EXCEPT ![ProcessOf[t]] = 0]
    /\ call' = [call EXCEPT ![t].at = "unlock"]
    /\ UNCHANGED <<setting, up, connected, holder, opened, outcome, queue, inbox,
                   server, store, executed>>

(* receive waits for five seconds, disconnects for good and returns a null *)
(* pointer.  The next use of the node by this process throws.              *)
TimeOutConnected(t) ==                             \* mutant: the socket stays connected
    /\ At(t, "receive")
    /\ inbox[ProcessOf[t]] = Nothing
    /\ IF call[t].kind \in ChecksReply THEN FailUnlocked(t) ELSE ProcessEnds(ProcessOf[t])
    /\ UNCHANGED <<setting, connected, queue, inbox, server, store, executed>>

TimeOut(t) ==
    LET p == ProcessOf[t]
    IN  /\ At(t, "receive")
        /\ inbox[p] = Nothing
        /\ connected' = [connected EXCEPT ![p] = FALSE]
        /\ IF call[t].kind \in ChecksReply THEN FailUnlocked(t) ELSE ProcessEnds(p)
        /\ UNCHANGED <<setting, queue, inbox, server, store, executed>>

(* m_requestMutex->unlock(), and the call returns *)
ReturnUnlocked(t) ==
    /\ At(t, "unlock")
    /\ Unlock(ProcessOf[t])
    /\ Leave(t)
    /\ UNCHANGED <<setting, up, connected, unread, opened, outcome, queue, inbox,
                   server, store, executed>>

ClientStep(t) ==
    \/ Lock(t) \/ Send(t) \/ SendNotConnected(t) \/ SendUnread(t) \/ Receive(t)
    \/ ReceiveNothingToRead(t) \/ ReadFrames(t) \/ TimeOut(t) \/ ReturnUnlocked(t)

-----------------------------------------------------------------------------
(* The server.                                                             *)

Waiting == server.is = "waiting"

(* receive_and_dispatch takes a request. *)
DispatchCopy(r) ==                                 \* mutant: it stays in the queue
    /\ Waiting
    /\ r \in queue
    /\ server' = [is |-> "handling", request |-> r]
    /\ UNCHANGED <<client, queue, inbox, store, executed>>

Dispatch(r) ==
    /\ Waiting
    /\ r \in queue
    /\ queue' = queue \ {r}
    /\ server' = [is |-> "handling", request |-> r]
    /\ UNCHANGED <<client, inbox, store, executed>>

(* The handler does what it was asked for. *)
Execute ==
    /\ server.is = "handling"
    /\ \E reply \in Handle(store, server.request.kind) :
          /\ store' = reply.store
          /\ server' = [is |-> "replying", request |-> server.request, ok |-> reply.ok,
                        frames |-> reply.frames, left |-> reply.left]
    /\ executed' = [executed EXCEPT ![server.request.id] = @ + 1]
    /\ UNCHANGED <<client, queue, inbox>>

(* The handler sends its reply.  The socket drops a reply to a process     *)
(* that has disconnected or ended.                                         *)
SendReply ==
    LET p == server.request.from
    IN  /\ server.is = "replying"
        /\ ~server.left
        /\ inbox' = IF p \in up /\ connected[p]
                    THEN [inbox EXCEPT ![p] = [id |-> server.request.id, ok |-> server.ok,
                                               frames |-> server.frames]]
                    ELSE inbox
        /\ server' = [is |-> "waiting"]
        /\ UNCHANGED <<client, queue, store, executed>>

(* send meets the assertion that nothing of the request is unread. *)
SendReplyUnread ==
    /\ server.is = "replying"
    /\ server.left
    /\ server' = [is |-> IF setting.asserts THEN "down" ELSE "stuck"]
    /\ UNCHANGED <<client, queue, inbox, store, executed>>

(* An exception in a handler, before or after the repository was changed:  *)
(* it is logged and no reply is sent, and the socket is out of turn.       *)
HandlerThrows ==
    /\ server.is \in {"handling", "replying"}
    /\ server' = [is |-> "stuck"]
    /\ UNCHANGED <<client, queue, inbox, store, executed>>

(* The socket that is out of turn throws when it receives again.  Without  *)
(* --count this ends the server.  With it, the loop opens a new socket;    *)
(* requests the old one had received are gone.                             *)
Reopen(kept) ==
    /\ server.is = "stuck"
    /\ setting.restarts
    /\ kept \subseteq queue
    /\ queue' = kept
    /\ server' = [is |-> "waiting"]
    /\ UNCHANGED <<client, inbox, store, executed>>

ServerEnds ==
    /\ server.is = "stuck"
    /\ ~setting.restarts
    /\ server' = [is |-> "down"]
    /\ UNCHANGED <<client, queue, inbox, store, executed>>

ServerStep ==
    \/ \E r \in queue : Dispatch(r)
    \/ Execute \/ SendReply \/ SendReplyUnread \/ HandlerThrows \/ ServerEnds
    \/ \E kept \in SUBSET queue : Reopen(kept)

-----------------------------------------------------------------------------
Next ==
    \/ \E t \in Thread, kind \in Kind, i \in CallId : Call(t, kind, i)
    \/ \E t \in Thread : ClientStep(t)
    \/ ServerStep

Spec == Init /\ [][Next]_vars

(* Threads run, and a receive that gets nothing times out.  Nothing is     *)
(* assumed of the server.                                                  *)
Fairness == \A t \in Thread : WF_vars(ClientStep(t))

FairSpec == Spec /\ Fairness

-----------------------------------------------------------------------------
(* Properties.                                                             *)

Message == [id : CallId, kind : Kind, from : Process]
ReplyMessage == [id : CallId, ok : BOOLEAN, frames : 0..MaxFrames]

(* The type invariant. *)
TypeOK ==
    /\ setting \in Setting
    /\ up \subseteq Process
    /\ connected \in [Process -> BOOLEAN]
    /\ unread \in [Process -> 0..MaxFrames]
    /\ holder \in [Process -> Thread \union {"nobody"}]
    /\ call \in [Thread -> [kind : Kind, at : {"lock", "send", "receive", "frames", "unlock"},
                            id : CallId] \union {NoCall}]
    /\ opened \subseteq Thread
    /\ queue \subseteq Message
    /\ inbox \in [Process -> ReplyMessage \union {Nothing}]
    /\ server \in [is : {"waiting", "stuck", "down"}]
                    \union [is : {"handling"}, request : Message]
                    \union [is : {"replying"}, request : Message, ok : BOOLEAN,
                            frames : 0..MaxFrames, left : BOOLEAN]
    /\ store \in Store
    /\ executed \in [CallId -> Nat]
    /\ outcome \in [CallId -> {"unused", "open", "answered", "deceived", "given up"}]

(* Calls are executed at most once, and answers are answers to the call    *)
(* that gets them, through time-outs, late replies and reopened sockets:   *)
(* the requests, the mutex and the sockets implement AtMostOnce.           *)
Calls == INSTANCE AtMostOnce
Implements == Calls!Spec

(* "There must be no parts left, before another request reply pair is      *)
(* started" (zmqprotobufnode.h:130, of discard_more): nobody sends while   *)
(* there is something to read, if clients delete nothing and read all they *)
(* ask for.  (Of others this is not true: what getStreamSize asks for has  *)
(* frames that nobody reads.)                                              *)
NoPartsLeft ==
    setting.ops \subseteq Keeping =>
        /\ \A t \in Thread : At(t, "send") => unread[ProcessOf[t]] = 0
        /\ server.is = "replying" => ~server.left

(* With such clients every call ends, whatever the server does: it         *)
(* returns, or its process ends (the mutex of zmqrequester.h is not held   *)
(* for ever).                                                              *)
CallsEnd == \A t \in Thread : (InCall(t) /\ setting.ops \subseteq Keeping) ~> ~InCall(t)

(* A process has at most one request under way: the server and the sockets *)
(* see requests and replies of a connected process in turns.               *)
UnderWay(p) ==
    {r.id : r \in {q \in queue : q.from = p}}
      \union (IF inbox[p] = Nothing THEN {} ELSE {inbox[p].id})
      \union (IF server.is \in {"handling", "replying"} /\ server.request.from = p
              THEN {server.request.id} ELSE {})

InTurns ==
    \A p \in up : connected[p] =>
        \A i \in UnderWay(p) :
            /\ \E t \in ThreadsOf(p) : At(t, "receive") /\ call[t].id = i
            /\ UnderWay(p) = {i}

=============================================================================
