---------------------------- MODULE PipelineStore ---------------------------
(***************************************************************************)
(* The library of pipeline documents (src/agents/pipeline_store.py): one    *)
(* file per document, in one of several formats, the first of which to      *)
(* exist is the document.                                                   *)
(***************************************************************************)
EXTENDS Servers, Integers, Sequences, FiniteSets

CONSTANTS Pipelines,
          FormatOrder   \* the order of the formats in _candidate_paths

ASSUME FormatAssumption ==
  /\ FormatOrder \in Seq({FormatOrder[i] : i \in DOMAIN FormatOrder})
  /\ FormatOrder # <<>>
  /\ \A i, j \in DOMAIN FormatOrder : FormatOrder[i] = FormatOrder[j] => i = j

VARIABLES files,       \* the file of each document and format; 0: none
          filer,       \* what each thread is doing to the library
          saves,       \* documents written so far
          (* History variables, read by the properties only.              *)
          latest,      \* the save of each document that stands; 0: none
          filesRaced   \* two changes of a document met, or one died

fileVars == <<files, filer, saves, latest, filesRaced>>

Formats == {FormatOrder[i] : i \in DOMAIN FormatOrder}

TornDocument == -1

NoFiling == [pc |-> "idle", op |-> "none", id |-> CHOOSE p \in Pipelines : TRUE, fmt |-> FormatOrder[1],
             overwrite |-> TRUE]

FileInit == /\ files = [p \in Pipelines |-> [f \in Formats |-> 0]]
            /\ filer = [t \in ServerThreads |-> NoFiling]
            /\ saves = 0
            /\ latest = [p \in Pipelines |-> 0]
            /\ filesRaced = FALSE

-----------------------------------------------------------------------------
Present(p) == {f \in Formats : files[p][f] # 0}

(* find_pipeline_path, for a document that has a file.                      *)
Found(p) == LET i == CHOOSE i \in DOMAIN FormatOrder :
                       /\ FormatOrder[i] \in Present(p)
                       /\ \A j \in 1 .. i - 1 : FormatOrder[j] \notin Present(p)
            IN FormatOrder[i]

FileRequest(t, op, p, f, overwrite) ==
  /\ filer[t].pc = "idle"
  /\ filer' = [filer EXCEPT ![t] = [pc |-> op, op |-> op, id |-> p,
                                    fmt |-> f, overwrite |-> overwrite]]
  /\ filesRaced' = (filesRaced \/ \E u \in ServerThreads : filer[u].pc # "idle"
                                                    /\ filer[u].id = p)
  /\ UNCHANGED <<files, saves, latest>>

Refused(t) == filer' = [filer EXCEPT ![t] = NoFiling]

(* save_pipeline: the format's own file may be in the way; the files of the *)
(* other formats are removed.                                               *)
SaveRefused(t) ==
  LET k == filer[t] IN
  /\ k.pc = "save"
  /\ ~k.overwrite /\ files[k.id][k.fmt] # 0
  /\ Refused(t)
  /\ UNCHANGED <<files, saves, latest, filesRaced>>

(* Mutant: only the format's own file is replaced.                          *)
AllFormats(p, f) == files[p]

OnlyFormat(p, f) == [g \in Formats |-> IF g = f THEN files[p][g] ELSE 0]

SaveRemoves(t) ==
  LET k == filer[t] IN
  /\ k.pc = "save"
  /\ k.overwrite \/ files[k.id][k.fmt] = 0
  /\ files' = [files EXCEPT ![k.id] = OnlyFormat(k.id, k.fmt)]
  /\ filer' = [filer EXCEPT ![t].pc = "empty"]
  /\ UNCHANGED <<saves, latest, filesRaced>>

SaveEmpties(t) ==
  LET k == filer[t] IN
  /\ k.pc = "empty"
  /\ files' = [files EXCEPT ![k.id][k.fmt] = TornDocument]
  /\ filer' = [filer EXCEPT ![t].pc = "write"]
  /\ UNCHANGED <<saves, latest, filesRaced>>

SaveWrites(t) ==
  LET k == filer[t] IN
  /\ k.pc = "write"
  /\ saves' = saves + 1
  /\ files' = [files EXCEPT ![k.id][k.fmt] = saves']
  /\ latest' = [latest EXCEPT ![k.id] = saves']
  /\ filer' = [filer EXCEPT ![t] = NoFiling]
  /\ UNCHANGED filesRaced

(* delete_pipeline removes the file that it finds, and no other.            *)
Deletes(t) ==
  LET k == filer[t]
      p == k.id IN
  /\ k.pc = "delete"
  /\ files' = IF Present(p) = {} THEN files
              ELSE [files EXCEPT ![p][Found(p)] = 0]
  /\ latest' = [latest EXCEPT ![p] = 0]
  /\ filer' = [filer EXCEPT ![t] = NoFiling]
  /\ UNCHANGED <<saves, filesRaced>>

(* The process dies with all its threads.                                   *)
FileDies ==
  /\ filesRaced' = (filesRaced \/ \E t \in ServerThreads : filer[t].pc # "idle")
  /\ filer' = [t \in ServerThreads |-> NoFiling]
  /\ UNCHANGED <<files, saves, latest>>

FileStep(t) == \/ SaveRefused(t)
               \/ SaveRemoves(t)
               \/ SaveEmpties(t)
               \/ SaveWrites(t)
               \/ Deletes(t)

-----------------------------------------------------------------------------
(* One document has one file, with what was saved last, and a deleted one   *)
(* has none, as long as two changes of it never met and none died.          *)
PipelinesStand ==
  ~filesRaced =>
    \A p \in Pipelines :
      (\A t \in ServerThreads : filer[t].pc = "idle") =>
        /\ Cardinality(Present(p)) <= 1
        /\ {files[p][f] : f \in Present(p)}
             = IF latest[p] = 0 THEN {} ELSE {latest[p]}
=============================================================================
