----------------------------- MODULE AuditLog ------------------------------
(***************************************************************************)
(* One audit log file of src/agents/audit_logger.py, shared by the threads  *)
(* of the server and by command-line tools.  The lock of the file is kept   *)
(* per process: it orders the threads of the server and nothing else.       *)
(*                                                                          *)
(* A hash stands for all it covers: the hash of an entry is the sequence of *)
(* the events up to it.  Events are numbered in the order of their          *)
(* timestamps; event 0 marks a line that does not parse.                    *)
(***************************************************************************)
EXTENDS Naturals, Sequences, FiniteSets

CONSTANTS ServerThreads,  \* threads of the server process
          Commands        \* command-line tools, each a process of its own

ASSUME AuditAssumption == ServerThreads \cap Commands = {}

Threads == ServerThreads \cup Commands

SameProcess(t, u) == t = u \/ {t, u} \subseteq ServerThreads

VARIABLES lines,    \* the lines of the file
          unended,  \* the last line has no end of line
          clock,    \* events so far
          auditor,  \* what each thread is doing to the log
          (* History variables, read by the properties only.              *)
          mixed,    \* processes met in the file, or one died in it
          kept      \* events that the log was asked to keep

audit == <<lines, unended, clock, auditor, mixed, kept>>

Entry(e, p) == [event |-> e, previous |-> p]
Torn == Entry(0, <<>>)
Parses(line) == line.event # 0
Hash(entry) == Append(entry.previous, entry.event)

Idle == [pc |-> "idle", entry |-> Torn, source |-> <<>>, next |-> 0]

(* An empty file.                                                           *)
AuditInit == /\ lines = <<>>
             /\ unended = FALSE
             /\ clock = 0
             /\ auditor = [t \in Threads |-> Idle]
             /\ mixed = FALSE
             /\ kept = {}

-----------------------------------------------------------------------------
(* Mutant: every reader and writer goes without the lock.                   *)
NeverLocked(t) == FALSE

Inside(u) == auditor[u].pc \in {"append", "truncate", "rewrite"}

Locked(t) == \E u \in Threads : SameProcess(t, u) /\ Inside(u)

(* Another process is between its read and its write of the file.           *)
Foreign(t) == \E u \in Threads : ~SameProcess(t, u) /\ Inside(u)

Good == {i \in DOMAIN lines : Parses(lines[i])}

EventsIn(s) == {s[i].event : i \in DOMAIN s} \ {0}

LastHash ==
  IF Good = {} THEN <<>>
  ELSE Hash(lines[CHOOSE i \in Good : \A j \in Good : j <= i])

(* log_event takes the lock and links a new entry to the last valid one.    *)
LogBegin(t) ==
  /\ auditor[t].pc = "idle"
  /\ ~Locked(t)
  /\ clock' = clock + 1
  /\ auditor' = [auditor EXCEPT ![t] =
                   [Idle EXCEPT !.pc = "append",
                                !.entry = Entry(clock', LastHash)]]
  /\ mixed' = (mixed \/ Foreign(t))
  /\ UNCHANGED <<lines, unended, kept>>

(* A line written behind one that has no end becomes part of it.            *)
Written(line) ==
  IF unended THEN [lines EXCEPT ![Len(lines)] = Torn] ELSE Append(lines, line)

LogAppend(t) ==
  /\ auditor[t].pc = "append"
  /\ lines' = Written(auditor[t].entry)
  /\ unended' = FALSE
  /\ kept' = kept \cup {auditor[t].entry.event}
  /\ auditor' = [auditor EXCEPT ![t] = Idle]
  /\ UNCHANGED <<clock, mixed>>

-----------------------------------------------------------------------------
(* verify_chain: every line parses and is linked to the line before it.     *)
LinkOf(i) == IF i = 1 THEN <<>> ELSE Hash(lines[i - 1])

ChainValid == \A i \in DOMAIN lines : /\ Parses(lines[i])
                                      /\ lines[i].previous = LinkOf(i)

(* repair_audit_logs verifies a log before it takes the lock, and leaves    *)
(* one that verifies alone.                                                 *)
RepairCheck(t) ==
  /\ auditor[t].pc = "idle"
  /\ ~ChainValid
  /\ auditor' = [auditor EXCEPT ![t].pc = "wanted"]
  /\ UNCHANGED <<lines, unended, clock, mixed, kept>>

(* repair_chain returns at once when nothing in the file parses.            *)
RepairNothing(t) ==
  /\ auditor[t].pc = "wanted"
  /\ ~Locked(t)
  /\ Good = {}
  /\ auditor' = [auditor EXCEPT ![t] = Idle]
  /\ UNCHANGED <<lines, unended, clock, mixed, kept>>

RepairBegin(t) ==
  /\ auditor[t].pc = "wanted"
  /\ ~Locked(t)
  /\ Good # {}
  /\ auditor' = [auditor EXCEPT ![t] =
                   [Idle EXCEPT !.pc = "truncate", !.source = lines]]
  /\ mixed' = Foreign(t)
  /\ kept' = EventsIn(lines)
  /\ UNCHANGED <<lines, unended, clock>>

RepairTruncate(t) ==
  /\ auditor[t].pc = "truncate"
  /\ lines' = <<>>
  /\ unended' = FALSE
  /\ auditor' = [auditor EXCEPT ![t].pc = "rewrite", ![t].next = 1]
  /\ UNCHANGED <<clock, mixed, kept>>

(* The entries that parsed are written again one by one, each linked to the *)
(* one that the repair wrote before (entry holds that one).                 *)
Relinked(t) ==
  LET a == auditor[t] IN
  Entry(a.source[a.next].event, IF Parses(a.entry) THEN Hash(a.entry) ELSE <<>>)

RepairAppend(t) ==
  LET a == auditor[t] IN
  /\ a.pc = "rewrite"
  /\ a.next <= Len(a.source)
  /\ IF Parses(a.source[a.next])
     THEN /\ lines' = Written(Relinked(t))
          /\ unended' = FALSE
          /\ auditor' = [auditor EXCEPT ![t].entry = Relinked(t),
                                        ![t].next = a.next + 1]
     ELSE /\ auditor' = [auditor EXCEPT ![t].next = a.next + 1]
          /\ UNCHANGED <<lines, unended>>
  /\ UNCHANGED <<clock, mixed, kept>>

RepairEnd(t) ==
  /\ auditor[t].pc = "rewrite"
  /\ auditor[t].next > Len(auditor[t].source)
  /\ auditor' = [auditor EXCEPT ![t] = Idle]
  /\ UNCHANGED <<lines, unended, clock, mixed, kept>>

-----------------------------------------------------------------------------
(* A process dies: nothing of the line being written, a part of it, or all  *)
(* of it but its end is in the file.  Every lock of the process is gone.    *)
Pending(t) ==
  LET a == auditor[t] IN
  IF a.pc = "append" THEN {a.entry}
  ELSE IF /\ a.pc = "rewrite"
          /\ a.next <= Len(a.source)
          /\ Parses(a.source[a.next])
       THEN {Relinked(t)}
       ELSE {}

Die(t) ==
  LET process == {u \in Threads : SameProcess(t, u)}
      pending == UNION {Pending(u) : u \in process}
  IN
  /\ \/ UNCHANGED <<lines, unended>>
     \/ \E line \in pending \cup {Torn} :
          /\ pending # {}
          /\ lines' = Written(line)
          /\ unended' = TRUE
  /\ auditor' = [u \in Threads |-> IF u \in process THEN Idle ELSE auditor[u]]
  /\ mixed' = (mixed \/ Locked(t))
  /\ UNCHANGED <<clock, kept>>

AuditNext == \E t \in Threads : \/ LogBegin(t)
                                \/ LogAppend(t)
                                \/ RepairCheck(t)
                                \/ RepairNothing(t)
                                \/ RepairBegin(t)
                                \/ RepairTruncate(t)
                                \/ RepairAppend(t)
                                \/ RepairEnd(t)
                                \/ Die(t)

AuditSpec == AuditInit /\ [][AuditNext]_audit

-----------------------------------------------------------------------------
AuditState ==
  [pc: {"idle", "wanted", "append", "truncate", "rewrite"},
   entry: [event: Nat, previous: Seq(Nat)],
   source: Seq([event: Nat, previous: Seq(Nat)]),
   next: Nat]

AuditTypeOK == /\ lines \in Seq([event: Nat, previous: Seq(Nat)])
               /\ unended \in BOOLEAN
               /\ clock \in Nat
               /\ auditor \in [Threads -> AuditState]
               /\ mixed \in BOOLEAN
               /\ kept \subseteq Nat

Repairing == \E t \in Threads : auditor[t].pc \in {"truncate", "rewrite"}

(* As long as no two processes met in the file and none died in it, the     *)
(* chain of the log verifies whenever no repair is rewriting it: threads of *)
(* one server cannot break it, and a repair undisturbed puts it right       *)
(* again.                                                                   *)
ChainHolds == ~mixed /\ ~Repairing => ChainValid /\ ~unended

(* Under the same conditions every event whose log_event returned, and      *)
(* every entry that a repair could still read, is in the log.               *)
NothingLost == ~mixed /\ ~Repairing => kept \subseteq EventsIn(lines)
=============================================================================
