----------------------------- MODULE MCRequests -----------------------------
(* Instances of Requests for TLC: a process of two threads, as the viewer  *)
(* has them, and another process.                                          *)
EXTENDS Requests

CONSTANTS viewer, tool, loader, gui, main

MCProcess == {viewer, tool}
MCThread == {loader, gui, main}
MCProcessOf == [t \in MCThread |-> IF t = main THEN tool ELSE viewer]

(* Two processes and a server that reopens its sockets. *)
TwoClients == [clients |-> {viewer, tool}, ops |-> Keeping, asserts |-> TRUE, restarts |-> TRUE]

(* One process, all calls, and a build without assertions. *)
Contention == [clients |-> {viewer}, ops |-> Kind, asserts |-> FALSE, restarts |-> FALSE]

MCSettings == {TwoClients, Contention}

=============================================================================
