--------------------------- MODULE ArtifactStore ----------------------------
(***************************************************************************)
(* The artifact store of src/agents/store.py (a SQLite index and one blob   *)
(* file per artifact), the copies that src/agents/artifact_provider.py      *)
(* keeps in managed/artifacts, and the import of such files when a process  *)
(* starts.  An artifact stands for its content and for the hash of it.      *)
(*                                                                          *)
(* Writers read the newest row and write the blob, then insert the row,     *)
(* then write the copy, and nothing orders two writers.                     *)
(***************************************************************************)
EXTENDS AuditLog

CONSTANTS Artifacts, NoArtifact

ASSUME StoreAssumption == NoArtifact \notin Artifacts

VARIABLES rows,    \* the artifacts table, in the order of the row ids
          blobs,   \* the blob files: artifact and time of writing
          copies,  \* managed/artifacts, oldest modification first
          stamp,   \* blobs written so far: the timestamp in a blob's name
          writer,  \* what each thread is doing to the store
          (* History variables, read by the properties only.              *)
          crossed, \* two writers met between the newest row and the insert
          stored,  \* artifacts that a caller was told are stored
          indexed  \* an import has seen all files that lack a row

store == <<rows, blobs, copies, stamp, writer, crossed, stored, indexed>>

Row(a, s, p) == [artifact |-> a, blob |-> s, previous |-> p]
Blob(a, s) == [artifact |-> a, at |-> s]
Copy(a, p) == [artifact |-> a, previous |-> p]

AtRest == [pc |-> "idle", artifact |-> NoArtifact, previous |-> NoArtifact,
           blob |-> 0, import |-> FALSE, todo |-> <<>>, imported |-> FALSE,
           whole |-> FALSE]

StoreInit == /\ rows = <<>>
             /\ blobs = {}
             /\ copies = <<>>
             /\ stamp = 0
             /\ writer = [t \in Threads |-> AtRest]
             /\ crossed = FALSE
             /\ stored = {}
             /\ indexed = TRUE

-----------------------------------------------------------------------------
Indexed(a) == \E i \in DOMAIN rows : rows[i].artifact = a

Rowed == {rows[i].artifact : i \in DOMAIN rows}

Copied == {copies[i].artifact : i \in DOMAIN copies}

(* Mutant: the row itself is taken for its hash.                            *)
LatestRow == IF rows = <<>> THEN NoArtifact ELSE rows[Len(rows)]

Latest == IF rows = <<>> THEN NoArtifact ELSE rows[Len(rows)].artifact

(* Some thread has read the newest row and not inserted its own.            *)
Inserting == \E u \in Threads : writer[u].pc = "blobbed"

(* write_artifact of the store, called by the provider or by the import:    *)
(* the newest row is read in a transaction of its own, and the blob         *)
(* written.                                                                 *)
Select(t, a) ==
  /\ stamp' = stamp + 1
  /\ blobs' = blobs \cup {Blob(a, stamp')}
  /\ writer' = [writer EXCEPT ![t].pc = "blobbed", ![t].artifact = a,
                              ![t].previous = Latest, ![t].blob = stamp']
  /\ crossed' = (crossed \/ Inserting)
  /\ UNCHANGED <<rows, copies, stored, indexed>>

WriteBegin(t, a) == writer[t].pc = "idle" /\ Select(t, a)

(* After an insert the provider writes the copy; the import goes on with    *)
(* the next file.                                                           *)
After(w, inserted) ==
  IF w.import THEN [w EXCEPT !.pc = "importing", !.todo = Tail(@),
                             !.imported = @ \/ inserted]
  ELSE IF inserted THEN [w EXCEPT !.pc = "inserted"]
  ELSE AtRest

(* Mutant: a row is replaced instead of refused.                            *)
InsertOrReplace(t) ==
  LET w == writer[t]
      others == SelectSeq(rows, LAMBDA r : r.artifact # w.artifact)
  IN
  /\ w.pc = "blobbed"
  /\ rows' = Append(others, Row(w.artifact, w.blob, w.previous))
  /\ writer' = [writer EXCEPT ![t] = After(w, TRUE)]
  /\ UNCHANGED <<blobs, copies, stamp, crossed, stored, indexed>>

(* Mutant: after a refusal every blob of the content is cleaned up.         *)
InsertOrCleanUp(t) ==
  LET w == writer[t] IN
  /\ w.pc = "blobbed"
  /\ rows' = IF Indexed(w.artifact) THEN rows
             ELSE Append(rows, Row(w.artifact, w.blob, w.previous))
  /\ blobs' = IF Indexed(w.artifact)
              THEN {b \in blobs : b.artifact # w.artifact} ELSE blobs
  /\ writer' = [writer EXCEPT ![t] = After(w, ~Indexed(w.artifact))]
  /\ UNCHANGED <<copies, stamp, crossed, stored, indexed>>

(* The hash is UNIQUE: a second row for the same content is refused, the    *)
(* blob stays, and the caller gets the error (the import ignores it).       *)
WriteInsert(t) ==
  LET w == writer[t] IN
  /\ w.pc = "blobbed"
  /\ rows' = IF Indexed(w.artifact) THEN rows
             ELSE Append(rows, Row(w.artifact, w.blob, w.previous))
  /\ writer' = [writer EXCEPT ![t] = After(w, ~Indexed(w.artifact))]
  /\ UNCHANGED <<blobs, copies, stamp, crossed, stored, indexed>>

(* A file that no row stands for is not on the list of the imports that are *)
(* under way.                                                               *)
FileAdded(t) ==
  /\ indexed' = (indexed /\ Indexed(writer[t].artifact))
  /\ writer' = [u \in Threads |->
                  IF u = t THEN AtRest
                  ELSE [writer[u] EXCEPT
                          !.whole = @ /\ Indexed(writer[t].artifact)]]

(* _mirror_to_legacy_path, and write_artifact of the provider returns.      *)
WriteCopy(t) ==
  LET w == writer[t] IN
  /\ w.pc = "inserted"
  /\ copies' = Append(copies, Copy(w.artifact, w.previous))
  /\ stored' = stored \cup {w.artifact}
  /\ FileAdded(t)
  /\ UNCHANGED <<rows, blobs, stamp, crossed>>

-----------------------------------------------------------------------------
(* FileArtifactProvider, used by the agents that run without a runtime,     *)
(* writes a file that no row stands for, chained to the newest file.        *)
FileWriteBegin(t, a) ==
  /\ writer[t].pc = "idle"
  /\ writer' = [writer EXCEPT ![t] =
                  [AtRest EXCEPT !.pc = "filing", !.artifact = a,
                                 !.previous = IF copies = <<>> THEN NoArtifact
                                              ELSE copies[Len(copies)].artifact]]
  /\ UNCHANGED <<rows, blobs, copies, stamp, crossed, stored, indexed>>

FileWriteEnd(t) ==
  LET w == writer[t] IN
  /\ w.pc = "filing"
  /\ copies' = Append(copies, Copy(w.artifact, w.previous))
  /\ FileAdded(t)
  /\ UNCHANGED <<rows, blobs, stamp, crossed, stored>>

-----------------------------------------------------------------------------
(* migrate_legacy_artifacts, run by every process that creates a runtime:   *)
(* the files are listed once, and each that has no row is written.          *)
ImportBegin(t) ==
  /\ writer[t].pc = "idle"
  /\ writer' = [writer EXCEPT ![t] =
                  [AtRest EXCEPT !.pc = "importing", !.import = TRUE,
                                 !.todo = copies, !.whole = TRUE]]
  /\ UNCHANGED <<rows, blobs, copies, stamp, crossed, stored, indexed>>

(* Mutant: the first file that has a row ends the import.                   *)
ImportStops(t) ==
  LET w == writer[t] IN
  /\ w.pc = "importing"
  /\ w.todo # <<>>
  /\ Indexed(Head(w.todo).artifact)
  /\ writer' = [writer EXCEPT ![t].todo = <<>>]
  /\ UNCHANGED <<rows, blobs, copies, stamp, crossed, stored, indexed>>

ImportSkip(t) ==
  LET w == writer[t] IN
  /\ w.pc = "importing"
  /\ w.todo # <<>>
  /\ Indexed(Head(w.todo).artifact)
  /\ writer' = [writer EXCEPT ![t].todo = Tail(@)]
  /\ UNCHANGED <<rows, blobs, copies, stamp, crossed, stored, indexed>>

ImportWrite(t) ==
  LET w == writer[t] IN
  /\ w.pc = "importing"
  /\ w.todo # <<>>
  /\ ~Indexed(Head(w.todo).artifact)
  /\ Select(t, Head(w.todo).artifact)

ImportEnd(t) ==
  LET w == writer[t] IN
  /\ w.pc = "importing"
  /\ w.todo = <<>>
  /\ indexed' = (indexed \/ w.whole)
  /\ writer' = [writer EXCEPT ![t] = AtRest]
  /\ UNCHANGED <<rows, blobs, copies, stamp, crossed, stored>>

-----------------------------------------------------------------------------
(* The process of t dies; what its threads left on disk stays.              *)
StoreDie(t) ==
  /\ writer' = [u \in Threads |-> IF SameProcess(t, u) THEN AtRest ELSE writer[u]]
  /\ UNCHANGED <<rows, blobs, copies, stamp, crossed, stored, indexed>>

StoreStep(t) == \/ \E a \in Artifacts : WriteBegin(t, a) \/ FileWriteBegin(t, a)
                \/ WriteInsert(t)
                \/ WriteCopy(t)
                \/ FileWriteEnd(t)
                \/ ImportBegin(t)
                \/ ImportSkip(t)
                \/ ImportWrite(t)
                \/ ImportEnd(t)
                \/ StoreDie(t)

StoreSpec == StoreInit /\ [][\E t \in Threads : StoreStep(t)]_store

-----------------------------------------------------------------------------
Maybe == Artifacts \cup {NoArtifact}

RowType == [artifact: Artifacts, blob: Nat, previous: Maybe]
CopyType == [artifact: Artifacts, previous: Maybe]

WriterState ==
  [pc: {"idle", "blobbed", "inserted", "filing", "importing"},
   artifact: Maybe, previous: Maybe, blob: Nat, import: BOOLEAN,
   todo: Seq(CopyType), imported: BOOLEAN, whole: BOOLEAN]

StoreTypeOK == /\ rows \in Seq(RowType)
               /\ blobs \subseteq [artifact: Artifacts, at: Nat]
               /\ copies \in Seq(CopyType)
               /\ stamp \in Nat
               /\ writer \in [Threads -> WriterState]
               /\ crossed \in BOOLEAN
               /\ stored \subseteq Artifacts
               /\ indexed \in BOOLEAN

(* read_artifact finds the row, and the blob that the row names.            *)
Readable(a) ==
  \E i \in DOMAIN rows : /\ rows[i].artifact = a
                         /\ Blob(a, rows[i].blob) \in blobs

(* verify_artifact_chain: every row names the one before it and has its     *)
(* blob.                                                                    *)
StoreValid ==
  \A i \in DOMAIN rows :
    /\ rows[i].previous = IF i = 1 THEN NoArtifact ELSE rows[i - 1].artifact
    /\ Blob(rows[i].artifact, rows[i].blob) \in blobs

(* As long as no two writers met between the newest row and their insert,   *)
(* the chain of the store verifies, whatever process dies between two steps *)
(* of a write.                                                              *)
StoreChainHolds == ~crossed => StoreValid

(* An artifact whose write returned can be read, even when the chain has    *)
(* forked.                                                                  *)
StoredReadable == \A a \in stored : Readable(a)

(* After an import has seen every file in managed/artifacts, each of them   *)
(* has a row, whatever imports and writes ran beside it.                    *)
FilesIndexed == indexed => Copied \subseteq Rowed
=============================================================================
