--------------------------- MODULE BackupRestore ----------------------------
(***************************************************************************)
(* src/agents/backup_restore.py: a backup lists and hashes the files of     *)
(* managed/, then lists them again and copies them into an archive; a       *)
(* restore checks the archive against its own manifest and overwrites the   *)
(* live files one after the other.  Neither takes a lock.                   *)
(*                                                                          *)
(* Files are read in the order of their paths: managed/artifacts, the audit *)
(* log, the database, the blobs.  A blob or a copy never changes once       *)
(* written, so the list of them stands for their content.                   *)
(***************************************************************************)
EXTENDS ArtifactStore, Lists

VARIABLES archive,  \* the archives: the one an operator made, and the one
                    \* that a restore makes of the state it overwrites
          keeper,   \* what each thread is doing to an archive
          partial   \* history: the live files are not one whole backup's

backup == <<archive, keeper, partial>>

Slots == {"backup", "safety"}

(* The content of the files of managed/ as read at one time or another.     *)
NoImage == [log |-> <<>>, unended |-> FALSE, rows |-> <<>>, blobs |-> {},
            copies |-> <<>>]

(* The last four fields are history.                                        *)
NoArchive == [made |-> FALSE, manifest |-> NoImage, members |-> NoImage,
              calm |-> TRUE, mixed |-> FALSE, crossed |-> FALSE, kept |-> {},
              stored |-> {}]

Away == [pc |-> "idle", slot |-> "backup", goal |-> "backup",
         draft |-> NoArchive, source |-> NoArchive, calm |-> TRUE]

NoArchives == [s \in Slots |-> NoArchive]

BackupInit == /\ archive = NoArchives
              /\ keeper = [t \in Threads |-> Away]
              /\ partial = FALSE

-----------------------------------------------------------------------------
(* No thread is in the middle of a write of the store or of the log.        *)
Quiet == \A u \in Threads : writer[u].pc = "idle" /\ ~Inside(u)

(* A step of thread t disturbs what the others back up or restore; what t   *)
(* does itself is k.                                                        *)
Moved(t, k) ==
  [u \in Threads |-> IF u = t THEN k
                     ELSE IF keeper[u].pc = "idle" THEN keeper[u]
                     ELSE [keeper[u] EXCEPT !.calm = FALSE]]

Disturb(t) == keeper' = Moved(t, keeper[t])

(* Mutant: the directory of the blobs is not descended into.                *)
ListsTopOnly(t, slot, goal, source) ==
  /\ keeper' = [keeper EXCEPT ![t] =
                  [pc |-> "hashing", slot |-> slot, goal |-> goal,
                   source |-> source, calm |-> Quiet,
                   draft |-> [NoArchive EXCEPT
                                !.manifest = [NoImage EXCEPT
                                   !.copies = copies, !.log = lines,
                                   !.unended = unended]]]]
  /\ UNCHANGED <<audit, store, archive, partial>>

(* build_manifest: the files are listed, then hashed one after the other.   *)
(* The source is the archive to restore afterwards.                         *)
BackupList(t, slot, goal, source) ==
  /\ keeper' = [keeper EXCEPT ![t] =
                  [pc |-> "hashing", slot |-> slot, goal |-> goal,
                   source |-> source, calm |-> Quiet,
                   draft |-> [NoArchive EXCEPT
                                !.manifest = [NoImage EXCEPT
                                   !.blobs = blobs, !.copies = copies,
                                   !.log = lines, !.unended = unended]]]]
  /\ UNCHANGED <<audit, store, archive, partial>>

(* The database is hashed; create_backup lists the files again, and copies  *)
(* them up to the log.                                                      *)
BackupHash(t) ==
  /\ keeper[t].pc = "hashing"
  /\ keeper' = [keeper EXCEPT
       ![t].pc = "copying",
       ![t].draft.manifest.rows = rows,
       ![t].draft.members = [NoImage EXCEPT !.blobs = blobs, !.copies = copies,
                                            !.log = lines, !.unended = unended],
       ![t].draft.mixed = mixed \/ Repairing,
       ![t].draft.kept = kept]
  /\ UNCHANGED <<audit, store, archive, partial>>

(* The database is copied, and the archive is complete.                     *)
BackupClose(t) ==
  LET k == keeper[t] IN
  /\ k.pc = "copying"
  /\ archive' = [archive EXCEPT ![k.slot] =
                   [k.draft EXCEPT !.members.rows = rows, !.made = TRUE,
                                   !.calm = k.calm /\ ~partial,
                                   !.crossed = crossed, !.stored = stored]]
  /\ keeper' = [keeper EXCEPT ![t] =
                  IF k.goal = "restore"
                  THEN [Away EXCEPT !.pc = "restoring", !.calm = Quiet,
                                    !.source = k.source]
                  ELSE Away]
  /\ UNCHANGED <<audit, store, partial>>

-----------------------------------------------------------------------------
(* verify_backup: every file of the manifest is a member with that hash.    *)
Verified(a) ==
  /\ a.made
  /\ a.manifest.log = a.members.log
  /\ a.manifest.unended = a.members.unended
  /\ a.manifest.rows = a.members.rows
  /\ a.manifest.blobs \subseteq a.members.blobs

(* restore_backup verifies, then backs up the live state unless told not    *)
(* to.                                                                      *)
RestoreBegin(t, safety) ==
  /\ Verified(archive["backup"])
  /\ IF safety
     THEN BackupList(t, "safety", "restore", archive["backup"])
     ELSE /\ keeper' = [keeper EXCEPT ![t] =
                          [Away EXCEPT !.pc = "restoring", !.calm = Quiet,
                                       !.source = archive["backup"]]]
          /\ UNCHANGED <<audit, store, archive, partial>>

(* The files of the manifest get new modification times: they come last,    *)
(* in the order of their names, which start with the time of writing.       *)
RestoredCopies(image) ==
  LET restored == {image.copies[i] : i \in DOMAIN image.copies} IN
  Sublist(copies, {i \in DOMAIN copies : copies[i] \notin restored})
    \o image.copies

RestoreFiles(t) ==
  LET k == keeper[t] IN
  /\ k.pc = "restoring"
  /\ copies' = RestoredCopies(k.source.manifest)
  /\ lines' = k.source.manifest.log
  /\ unended' = k.source.manifest.unended
  /\ mixed' = (k.source.mixed \/ \E u \in Threads : Inside(u))
  /\ kept' = k.source.kept
  /\ partial' = TRUE
  /\ indexed' = FALSE
  /\ writer' = [u \in Threads |-> [writer[u] EXCEPT !.whole = FALSE]]
  /\ keeper' = Moved(t, [k EXCEPT !.pc = "database"])
  /\ UNCHANGED <<clock, auditor, rows, blobs, stamp, crossed, stored, archive>>

RestoreDatabase(t) ==
  LET k == keeper[t] IN
  /\ k.pc = "database"
  /\ rows' = k.source.manifest.rows
  /\ crossed' = (k.source.crossed \/ Inserting)
  /\ stored' = k.source.stored
  /\ indexed' = FALSE
  /\ writer' = [u \in Threads |-> [writer[u] EXCEPT !.whole = FALSE]]
  /\ partial' = TRUE
  /\ keeper' = Moved(t, [k EXCEPT !.pc = "blobs"])
  /\ UNCHANGED <<audit, blobs, copies, stamp, archive>>

RestoreBlobs(t) ==
  LET k == keeper[t] IN
  /\ k.pc = "blobs"
  /\ blobs' = blobs \cup k.source.manifest.blobs
  /\ partial' = ~(k.calm /\ k.source.calm)
  /\ keeper' = Moved(t, Away)
  /\ UNCHANGED <<audit, rows, copies, stamp, writer, crossed, stored, indexed,
                 archive>>

(* reset_runtime of src/scripts/fresh_reset.py removes the files, and with  *)
(* them the archive that a restore had left in managed/backups.             *)
ResetFiles ==
  /\ lines' = <<>>
  /\ unended' = FALSE
  /\ mixed' = FALSE
  /\ kept' = {}
  /\ rows' = <<>>
  /\ blobs' = {}
  /\ copies' = <<>>
  /\ stored' = {}
  /\ crossed' = FALSE
  /\ indexed' = TRUE
  /\ partial' = FALSE
  /\ archive' = [archive EXCEPT !["safety"] = NoArchive]
  /\ UNCHANGED <<clock, auditor, stamp, writer, keeper>>

BackupDie(t) ==
  /\ keeper' = [u \in Threads |-> IF SameProcess(t, u) THEN Away ELSE keeper[u]]
  /\ UNCHANGED <<archive, partial>>
=============================================================================
