------------------------------ MODULE Records -------------------------------
(***************************************************************************)
(* What a deployment keeps: the system audit log, the artifact store and    *)
(* the backups of both, used at once by the threads of the server and by    *)
(* command-line tools.  Every process creates a runtime                     *)
(* (src/agents/runtime.py), which imports files that lack a row and logs    *)
(* that it started; every operation ends with an event in the log.          *)
(***************************************************************************)
EXTENDS BackupRestore

CONSTANTS MaxOps,      \* bound: operations begun
          MaxStarts,   \* bound: processes started
          MaxDeaths    \* bound: processes that die

ASSUME RecordsAssumption == /\ MaxOps \in Nat
                            /\ MaxStarts \in Nat
                            /\ MaxDeaths \in Nat

VARIABLES up,    \* threads whose process has its runtime
          due,   \* events that each thread is about to log
          ops, starts, deaths

control == <<up, due, ops, starts, deaths>>
vars == <<audit, store, backup, control>>

(* A fresh deployment, or one in which artifact a was stored, the event of  *)
(* it logged, and a backup taken.                                           *)
Fresh == AuditInit /\ StoreInit /\ BackupInit

InUse(a) ==
  LET image == [NoImage EXCEPT !.log = <<Entry(1, <<>>)>>,
                               !.rows = <<Row(a, 1, NoArtifact)>>,
                               !.blobs = {Blob(a, 1)},
                               !.copies = <<Copy(a, NoArtifact)>>]
  IN
  /\ lines = image.log
  /\ unended = FALSE
  /\ clock = 1
  /\ auditor = [t \in Threads |-> Idle]
  /\ mixed = FALSE
  /\ kept = {1}
  /\ rows = image.rows
  /\ blobs = image.blobs
  /\ copies = image.copies
  /\ stamp = 1
  /\ writer = [t \in Threads |-> AtRest]
  /\ crossed = FALSE
  /\ stored = {a}
  /\ indexed = TRUE
  /\ archive = [NoArchives EXCEPT !["backup"] =
                  [NoArchive EXCEPT !.made = TRUE, !.manifest = image,
                                    !.members = image, !.kept = {1},
                                    !.stored = {a}]]
  /\ keeper = [t \in Threads |-> Away]
  /\ partial = FALSE

Init == /\ Fresh \/ \E a \in Artifacts : InUse(a)
        /\ up = ServerThreads
        /\ due = [t \in Threads |-> 0]
        /\ ops = 0
        /\ starts = 0
        /\ deaths = 0

-----------------------------------------------------------------------------
Free(t) == /\ auditor[t].pc = "idle"
           /\ writer[t].pc = "idle"
           /\ keeper[t].pc = "idle"
           /\ due[t] = 0

Process(t) == {u \in Threads : SameProcess(t, u)}

Owe(t, n) == due' = [due EXCEPT ![t] = n]

(* APXVRuntime: the import comes first, then the events.                    *)
Start(t) ==
  /\ t \notin up
  /\ \A u \in Process(t) : Free(u)
  /\ starts < MaxStarts
  /\ ImportBegin(t)
  /\ starts' = starts + 1
  /\ Disturb(t)
  /\ UNCHANGED <<audit, archive, partial, up, due, ops, deaths>>

Started(t) ==
  /\ ImportEnd(t)
  /\ Owe(t, IF writer[t].imported THEN 2 ELSE 1)
  /\ up' = up \cup Process(t)
  /\ Disturb(t)
  /\ UNCHANGED <<audit, archive, partial, ops, starts, deaths>>

Stop(t) ==
  /\ t \in up \cap Commands
  /\ Free(t)
  /\ up' = up \ {t}
  /\ UNCHANGED <<audit, store, backup, due, ops, starts, deaths>>

(* An operation of a process that has its runtime.                          *)
Begin(t) == t \in up /\ Free(t) /\ ops < MaxOps /\ ops' = ops + 1

(* A pipeline run writes its result and logs that it completed.             *)
WriteResult(t) ==
  /\ Begin(t)
  /\ \E a \in Artifacts : WriteBegin(t, a)
  /\ Disturb(t)
  /\ UNCHANGED <<audit, archive, partial, up, due, starts, deaths>>

(* An agent that runs without a runtime writes a file (and logs to a file   *)
(* of its own).                                                             *)
WriteFile(t) ==
  /\ t \in Commands
  /\ Free(t)
  /\ ops < MaxOps
  /\ ops' = ops + 1
  /\ \E a \in Artifacts : FileWriteBegin(t, a)
  /\ Disturb(t)
  /\ UNCHANGED <<audit, archive, partial, up, due, starts, deaths>>

StoreProgress(t) ==
  /\ \/ WriteInsert(t) /\ UNCHANGED due
     \/ WriteCopy(t) /\ Owe(t, 1)
     \/ FileWriteEnd(t) /\ UNCHANGED due
     \/ ImportSkip(t) /\ UNCHANGED due
     \/ ImportWrite(t) /\ UNCHANGED due
  /\ Disturb(t)
  /\ UNCHANGED <<audit, archive, partial, up, ops, starts, deaths>>

LogEvent(t) ==
  /\ \/ due[t] > 0 /\ LogBegin(t) /\ UNCHANGED due
     \/ LogAppend(t) /\ Owe(t, due[t] - 1)
  /\ Disturb(t)
  /\ UNCHANGED <<store, archive, partial, up, ops, starts, deaths>>

Repair(t) ==
  /\ Begin(t)
  /\ RepairCheck(t)
  /\ Disturb(t)
  /\ UNCHANGED <<store, archive, partial, up, due, starts, deaths>>

RepairProgress(t) ==
  /\ \/ RepairNothing(t)
     \/ RepairBegin(t)
     \/ RepairTruncate(t)
     \/ RepairAppend(t)
     \/ RepairEnd(t)
  /\ Disturb(t)
  /\ UNCHANGED <<store, archive, partial, control>>

Backup(t) ==
  /\ Begin(t)
  /\ BackupList(t, "backup", "backup", NoArchive)
  /\ UNCHANGED <<up, due, starts, deaths>>

Restore(t) ==
  /\ Begin(t)
  /\ \E safety \in BOOLEAN : RestoreBegin(t, safety)
  /\ UNCHANGED <<up, due, starts, deaths>>

BackupProgress(t) ==
  /\ \/ BackupHash(t) /\ UNCHANGED due
     \/ BackupClose(t) /\ Owe(t, 1)
     \/ due[t] = 0 /\ RestoreFiles(t) /\ UNCHANGED due
     \/ RestoreDatabase(t) /\ UNCHANGED due
     \/ RestoreBlobs(t) /\ Owe(t, 1)
  /\ UNCHANGED <<up, ops, starts, deaths>>

(* The command is meant for a deployment that is not running.               *)
Reset ==
  /\ up = {}
  /\ \A t \in Threads : Free(t)
  /\ ops < MaxOps
  /\ ops' = ops + 1
  /\ ResetFiles
  /\ UNCHANGED <<up, due, starts, deaths>>

Death(t) ==
  /\ deaths < MaxDeaths
  /\ deaths' = deaths + 1
  /\ Die(t)
  /\ StoreDie(t)
  /\ BackupDie(t)
  /\ up' = up \ Process(t)
  /\ due' = [u \in Threads |-> IF SameProcess(t, u) THEN 0 ELSE due[u]]
  /\ UNCHANGED <<ops, starts>>

Next == \/ \E t \in Threads : \/ Start(t)
                              \/ Started(t)
                              \/ Stop(t)
                              \/ WriteResult(t)
                              \/ WriteFile(t)
                              \/ StoreProgress(t)
                              \/ LogEvent(t)
                              \/ Repair(t)
                              \/ RepairProgress(t)
                              \/ Backup(t)
                              \/ Restore(t)
                              \/ BackupProgress(t)
                              \/ Death(t)
        \/ Reset

Spec == Init /\ [][Next]_vars

-----------------------------------------------------------------------------
TypeOK == /\ AuditTypeOK
          /\ StoreTypeOK
          /\ partial \in BOOLEAN
          /\ up \subseteq Threads
          /\ due \in [Threads -> 0 .. 2]
          /\ ops \in 0 .. MaxOps
          /\ starts \in 0 .. MaxStarts
          /\ deaths \in 0 .. MaxDeaths

(* The chain of the store verifies unless writers crossed; restores and     *)
(* resets included, once a restore of a backup taken while nothing was      *)
(* written has ended undisturbed.                                           *)
StoreChainSurvives == ~partial => StoreChainHolds

(* Under the same condition every artifact reported as stored, or stored    *)
(* when the restored backup was taken, can be read.                         *)
StoredSurvives == ~partial => StoredReadable

(* A backup during which nothing else was written verifies and is complete: *)
(* each row of its database has its blob in the backup (backup_restore.py:  *)
(* "verify-before-restore").                                                *)
BackupComplete ==
  LET made == archive["backup"]
      image == made.manifest
  IN made.made /\ made.calm =>
       /\ Verified(made)
       /\ \A i \in DOMAIN image.rows :
            Blob(image.rows[i].artifact, image.rows[i].blob) \in image.blobs
=============================================================================
