------------------------------- MODULE Servers ------------------------------
(***************************************************************************)
(* Who works on an instance at the same time: the threads of the local      *)
(* server (a ThreadingHTTPServer, src/agents/local_api.py), which share one *)
(* memory, and commands of src/scripts/apxv_ctl.py, each a process.         *)
(***************************************************************************)
CONSTANTS ServerThreads, Commands

Threads == ServerThreads \cup Commands

Process(t) == IF t \in ServerThreads THEN "server" ELSE t

Processes == {Process(t) : t \in Threads}

Others(t) == Threads \ {t}

(* The threads that die when t's process does.                              *)
Killed(t) == {u \in Threads : Process(u) = Process(t)}
=============================================================================
