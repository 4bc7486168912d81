--------------------------- MODULE OperatorProofs ---------------------------
(***************************************************************************)
(* Proofs about Operator: a pipeline document has one file, with what was   *)
(* saved last; the record of the active pack says what is in force; no      *)
(* publication of the capability policy drops a grant; the API keys that    *)
(* let in are those handed out and not revoked; and in the studio what is   *)
(* shown as ready was tested, and a promotion that was answered stands.     *)
(***************************************************************************)
EXTENDS Operator, ListsProofs, TLAPS

-----------------------------------------------------------------------------
FilerState == [pc : {"idle", "save", "delete", "empty", "write"}, op : {"none", "save", "delete"},
               id : Pipelines \cup {NoFiling.id}, fmt : Formats,
               overwrite : BOOLEAN]

Typed ==
  /\ files \in [Pipelines -> [Formats -> Nat \cup {TornDocument}]]
  /\ filer \in [ServerThreads -> FilerState]
  /\ \A t \in ServerThreads : filer[t].pc # "idle" => filer[t].id \in Pipelines
  /\ saves \in Nat
  /\ latest \in [Pipelines -> Nat]
  /\ filesRaced \in BOOLEAN

(* What a step of Operator is to the documents.                             *)
FileNext ==
  \/ UNCHANGED fileVars
  \/ \E t \in ServerThreads :
       \/ \E op \in {"save", "delete"}, p \in Pipelines, f \in Formats,
             overwrite \in BOOLEAN : FileRequest(t, op, p, f, overwrite)
       \/ FileStep(t)
  \/ FileDies

LEMMA StepsOfFiles == [Next]_vars => FileNext
  <1> SUFFICES ASSUME [Next]_vars PROVE FileNext
    OBVIOUS
  <1>1. CASE UNCHANGED vars
    BY <1>1 DEF vars, FileNext
  <1>2. ASSUME NEW t \in Threads, Request(t)
        PROVE  FileNext
    <2>1. ASSUME t \in ServerThreads, NEW op \in {"save", "delete"}, NEW p \in Pipelines,
                 NEW f \in Formats, NEW overwrite \in BOOLEAN,
                 PipelineRoute(t, op, p, f, overwrite)
          PROVE  FileNext
      BY <2>1 DEF PipelineRoute, FileNext
    <2>2. ASSUME NEW op, NEW i, NEW force, StudioRoute(t, op, i, force)
          PROVE  UNCHANGED fileVars
      BY <2>2 DEF StudioRoute
    <2>3. ASSUME NEW p, PackRoute(t, p)
          PROVE  UNCHANGED fileVars
      BY <2>3 DEF PackRoute
    <2>4. ASSUME PolicyCommand(t) \/ OtherRoute(t)
          PROVE  UNCHANGED fileVars
      BY <2>4 DEF PolicyCommand, OtherRoute
    <2>5. ASSUME NEW op, NEW k, KeyRoute(t, op, k)
          PROVE  UNCHANGED fileVars
      BY <2>5 DEF KeyRoute
    <2> QED
      BY <1>2, <2>1, <2>2, <2>3, <2>4, <2>5 DEF Request, FileNext
  <1>3. ASSUME NEW t \in Threads, Works(t)
        PROVE  FileNext
    BY <1>3 DEF Works, FileNext
  <1>4. ASSUME NEW t \in Threads, Dies(t)
        PROVE  FileNext
    BY <1>4 DEF Dies, FileNext
  <1> QED
    BY <1>1, <1>2, <1>3, <1>4 DEF Next

LEMMA NoFilingType == NoFiling \in FilerState /\ NoFiling.pc = "idle"
  <1>1. FormatOrder[1] \in Formats
    BY FormatAssumption DEF Formats
  <1> QED
    BY <1>1 DEF NoFiling, FilerState

LEMMA InitTyped == Init => Typed
  <1> SUFFICES ASSUME Init PROVE Typed
    OBVIOUS
  <1>1. filer = [t \in ServerThreads |-> NoFiling]
    BY DEF Init, FileInit
  <1>2. filer \in [ServerThreads -> FilerState]
        /\ \A t \in ServerThreads : filer[t].pc = "idle"
    BY <1>1, NoFilingType
  <1> QED
    BY <1>2 DEF Init, FileInit, Typed

LEMMA StepTyped ==
  ASSUME Typed, [Next]_vars
  PROVE  Typed'
  <1>1. CASE UNCHANGED fileVars
    BY <1>1 DEF fileVars, Typed
  <1>2. ASSUME NEW t \in ServerThreads, NEW op \in {"save", "delete"}, NEW p \in Pipelines,
               NEW f \in Formats, NEW overwrite \in BOOLEAN,
               FileRequest(t, op, p, f, overwrite)
        PROVE  Typed'
    BY <1>2 DEF FileRequest, Typed, FilerState
  <1>3. ASSUME NEW t \in ServerThreads, SaveRefused(t)
        PROVE  Typed'
    BY <1>3, NoFilingType DEF SaveRefused, Refused, Typed
  <1>4. ASSUME NEW t \in ServerThreads, SaveRemoves(t)
        PROVE  Typed'
    <2>1. filer[t].id \in Pipelines
      BY <1>4 DEF SaveRemoves, Typed
    <2>2. OnlyFormat(filer[t].id, filer[t].fmt) \in [Formats -> Nat \cup {TornDocument}]
      BY <2>1 DEF OnlyFormat, Typed
    <2>3. files' \in [Pipelines -> [Formats -> Nat \cup {TornDocument}]]
      BY <1>4, <2>2 DEF SaveRemoves, Typed
    <2>4. filer' = [filer EXCEPT ![t] = [filer[t] EXCEPT !.pc = "empty"]]
      BY <1>4 DEF SaveRemoves, Typed
    <2>5. /\ filer[t] \in FilerState
          /\ [filer[t] EXCEPT !.pc = "empty"] \in FilerState
          /\ [filer[t] EXCEPT !.pc = "empty"].id = filer[t].id
      BY DEF Typed, FilerState
    <2>6. filer' \in [ServerThreads -> FilerState]
          /\ \A u \in ServerThreads : filer'[u].pc # "idle" => filer'[u].id \in Pipelines
      BY <2>1, <2>4, <2>5 DEF Typed
    <2> QED
      BY <1>4, <2>3, <2>6 DEF SaveRemoves, Typed
  <1>5. ASSUME NEW t \in ServerThreads, SaveEmpties(t)
        PROVE  Typed'
    <2>1. filer[t].id \in Pipelines
      BY <1>5 DEF SaveEmpties, Typed
    <2>2. files' \in [Pipelines -> [Formats -> Nat \cup {TornDocument}]]
      BY <1>5 DEF SaveEmpties, Typed
    <2>3. filer' \in [ServerThreads -> FilerState]
          /\ \A u \in ServerThreads : filer'[u].pc # "idle" => filer'[u].id \in Pipelines
      <3> DEFINE k == [filer[t] EXCEPT !.pc = "write"]
      <3>1. k \in FilerState /\ k.id = filer[t].id
        BY DEF Typed, FilerState
      <3>2. filer' = [filer EXCEPT ![t] = k]
        BY <1>5 DEF SaveEmpties
      <3> HIDE DEF k
      <3> QED
        BY <2>1, <3>1, <3>2 DEF Typed
    <2> QED
      BY <1>5, <2>2, <2>3 DEF SaveEmpties, Typed
  <1>6. ASSUME NEW t \in ServerThreads, SaveWrites(t)
        PROVE  Typed'
    <2>1. saves' \in Nat
      BY <1>6 DEF SaveWrites, Typed
    <2>2. files' \in [Pipelines -> [Formats -> Nat \cup {TornDocument}]]
          /\ latest' \in [Pipelines -> Nat]
      BY <1>6, <2>1 DEF SaveWrites, Typed
    <2>3. filer' \in [ServerThreads -> FilerState]
          /\ \A u \in ServerThreads : filer'[u].pc # "idle" => filer'[u].id \in Pipelines
      BY <1>6, NoFilingType DEF SaveWrites, Typed
    <2> QED
      BY <1>6, <2>1, <2>2, <2>3 DEF SaveWrites, Typed
  <1>7. ASSUME NEW t \in ServerThreads, Deletes(t)
        PROVE  Typed'
    <2>1. files' \in [Pipelines -> [Formats -> Nat \cup {TornDocument}]]
      BY <1>7 DEF Deletes, Typed
    <2>2. latest' \in [Pipelines -> Nat]
      BY <1>7 DEF Deletes, Typed
    <2>3. filer' \in [ServerThreads -> FilerState]
          /\ \A u \in ServerThreads : filer'[u].pc # "idle" => filer'[u].id \in Pipelines
      BY <1>7, NoFilingType DEF Deletes, Typed
    <2> QED
      BY <1>7, <2>1, <2>2, <2>3 DEF Deletes, Typed
  <1>8. CASE FileDies
    BY <1>8, NoFilingType DEF FileDies, Typed
  <1>9. FileNext
    BY StepsOfFiles
  <1> QED
    BY <1>1, <1>2, <1>3, <1>4, <1>5, <1>6, <1>7, <1>8, <1>9 DEF FileNext, FileStep
-----------------------------------------------------------------------------
(* Document p has one file, with what was saved last, or none.              *)
OnlyFile(p, f) == \A g \in Formats \ {f} : files[p][g] = 0

Clean(p) ==
  IF latest[p] = 0 THEN \A f \in Formats : files[p][f] = 0
  ELSE \E f \in Formats : files[p][f] = latest[p] /\ OnlyFile(p, f)

WorksOn(t, p) == filer[t].pc # "idle" /\ filer[t].id = p

(* While nobody changed a document that another was changing: one thread    *)
(* at most works on it, which finds it clean and leaves it with one file.   *)
FilesInv ==
  ~filesRaced =>
    \A p \in Pipelines :
      /\ \A t, u \in ServerThreads : WorksOn(t, p) /\ WorksOn(u, p) => t = u
      /\ (\A t \in ServerThreads : ~WorksOn(t, p)) => Clean(p)
      /\ \A t \in ServerThreads : WorksOn(t, p) =>
           /\ filer[t].pc \in {"save", "delete"} => Clean(p)
           /\ filer[t].pc \in {"empty", "write"} => OnlyFile(p, filer[t].fmt)

LEMMA OrStays ==
  ASSUME NEW A, NEW B, NEW C, A = (B \/ C)
  PROVE  ~A => ~B /\ ~C
  BY Zenon

(* What a thread does to its document it does to no other.                  *)
LEMMA OthersStay ==
  ASSUME Typed, NEW t \in ServerThreads, FileStep(t), NEW p \in Pipelines,
         p # filer[t].id
  PROVE  files'[p] = files[p] /\ latest'[p] = latest[p]
  BY DEF Typed, FileStep, SaveRefused, SaveRemoves, SaveEmpties, SaveWrites, Deletes

LEMMA FilersStay ==
  ASSUME Typed, NEW t \in ServerThreads, FileStep(t)
  PROVE  /\ \A u \in ServerThreads \ {t} : filer'[u] = filer[u]
         /\ filesRaced' = filesRaced
         /\ filer[t].pc # "idle" /\ filer[t].id \in Pipelines
         /\ filer'[t].pc = "idle" \/ filer'[t].id = filer[t].id
  <1>1. filer \in [ServerThreads -> FilerState] /\ NoFiling.pc = "idle"
    BY NoFilingType DEF Typed
  <1>2. filer[t].pc # "idle"
    BY DEF FileStep, SaveRefused, SaveRemoves, SaveEmpties, SaveWrites, Deletes
  <1>3. filer[t].id \in Pipelines
    BY <1>2 DEF Typed
  <1>4. (\A u \in ServerThreads \ {t} : filer'[u] = filer[u]) /\ filesRaced' = filesRaced
    BY <1>1 DEF FileStep, SaveRefused, Refused, SaveRemoves, SaveEmpties, SaveWrites,
       Deletes
  <1>5. filer'[t].pc = "idle" \/ filer'[t].id = filer[t].id
    BY <1>1 DEF FileStep, SaveRefused, Refused, SaveRemoves, SaveEmpties, SaveWrites,
       Deletes, FilerState
  <1> QED
    BY <1>2, <1>3, <1>4, <1>5

(* A file that is the only one is the one that is found.                    *)
LEMMA FoundOnly ==
  ASSUME Typed, NEW p \in Pipelines, NEW f \in Formats, files[p][f] # 0, OnlyFile(p, f)
  PROVE  Present(p) = {f} /\ Found(p) = f
  <1>1. Present(p) = {f}
    BY DEF Present, OnlyFile
  <1>2. PICK i \in DOMAIN FormatOrder : FormatOrder[i] = f
    BY DEF Formats
  <1>3. \A j \in DOMAIN FormatOrder : FormatOrder[j] = f => j = i
    BY <1>2, FormatAssumption
  <1>4. \A j \in 1 .. i - 1 : FormatOrder[j] # f
    <2>1. DOMAIN FormatOrder = 1 .. Len(FormatOrder) /\ Len(FormatOrder) \in Nat
      BY FormatAssumption
    <2> QED
      BY <1>2, <1>3, <2>1
  <1> DEFINE Q(k) == /\ FormatOrder[k] \in Present(p)
                     /\ \A j \in 1 .. k - 1 : FormatOrder[j] \notin Present(p)
  <1>5. Q(i)
    BY <1>1, <1>2, <1>4
  <1>6. Q(CHOOSE k \in DOMAIN FormatOrder : Q(k))
    BY <1>2, <1>5
  <1>7. Found(p) \in Present(p)
    BY <1>6 DEF Found
  <1> QED
    BY <1>1, <1>7

(* Each step on a clean or half-saved document.                             *)
LEMMA StepKeepsDocument ==
  ASSUME Typed, NEW t \in ServerThreads, FileStep(t),
         NEW p \in Pipelines, p = filer[t].id,
         filer[t].pc \in {"save", "delete"} => Clean(p),
         filer[t].pc \in {"empty", "write"} => OnlyFile(p, filer[t].fmt)
  PROVE  /\ filer'[t].pc \in {"idle", "save", "delete"} => Clean(p)'
         /\ filer'[t].pc \in {"empty", "write"} =>
              \A g \in Formats \ {filer'[t].fmt} : files'[p][g] = 0
  <1> DEFINE f == filer[t].fmt
  <1>1. p \in Pipelines /\ f \in Formats /\ filer \in [ServerThreads -> FilerState]
        /\ NoFiling.pc = "idle"
    BY FilersStay, NoFilingType DEF Typed, FilerState
  <1>2. /\ files \in [Pipelines -> [Formats -> Nat \cup {TornDocument}]]
        /\ latest \in [Pipelines -> Nat] /\ saves \in Nat
    BY DEF Typed
  <1>3. CASE SaveRefused(t)
    BY <1>1, <1>3 DEF SaveRefused, Refused, Clean, OnlyFile
  <1>4. CASE SaveRemoves(t)
    <2>1. filer'[t].pc = "empty" /\ filer'[t].fmt = f
      BY <1>1, <1>4 DEF SaveRemoves, FilerState
    <2>2. \A g \in Formats \ {f} : files'[p][g] = 0
      BY <1>1, <1>2, <1>4 DEF SaveRemoves, OnlyFormat
    <2> QED
      BY <2>1, <2>2
  <1>5. CASE SaveEmpties(t)
    <2>1. filer'[t].pc = "write" /\ filer'[t].fmt = f
      BY <1>1, <1>5 DEF SaveEmpties, FilerState
    <2>2. \A g \in Formats \ {f} : files'[p][g] = 0
      BY <1>1, <1>2, <1>5 DEF SaveEmpties, OnlyFile
    <2> QED
      BY <2>1, <2>2
  <1>6. CASE SaveWrites(t)
    <2>1. filer'[t].pc = "idle" /\ saves' = saves + 1 /\ saves' # 0
      BY <1>1, <1>2, <1>6 DEF SaveWrites
    <2>2. latest'[p] = saves' /\ files'[p][f] = saves'
          /\ \A g \in Formats \ {f} : files'[p][g] = 0
      BY <1>1, <1>2, <1>6 DEF SaveWrites, OnlyFile
    <2> QED
      BY <1>1, <2>1, <2>2 DEF Clean, OnlyFile
  <1>7. CASE Deletes(t)
    <2>1. filer'[t].pc = "idle" /\ latest'[p] = 0
      BY <1>1, <1>2, <1>7 DEF Deletes
    <2>2. Clean(p)
      BY <1>7 DEF Deletes
    <2>3. \A g \in Formats : files'[p][g] = 0
      <3>1. CASE latest[p] = 0
        <4>1. \A g \in Formats : files[p][g] = 0
          BY <2>2, <3>1 DEF Clean
        <4>2. files' = files
          BY <1>7, <4>1 DEF Deletes, Present
        <4> QED
          BY <4>1, <4>2
      <3>2. CASE latest[p] # 0
        <4>1. PICK g \in Formats : files[p][g] = latest[p] /\ OnlyFile(p, g)
          BY <2>2, <3>2 DEF Clean
        <4>2. Present(p) = {g} /\ Found(p) = g
          BY <1>1, <3>2, <4>1, FoundOnly
        <4>3. files' = [files EXCEPT ![p][g] = 0]
          BY <1>7, <4>2 DEF Deletes
        <4> QED
          BY <1>1, <1>2, <4>1, <4>3 DEF OnlyFile
      <3> QED
        BY <3>1, <3>2
    <2> QED
      BY <2>1, <2>3 DEF Clean
  <1> QED
    BY <1>3, <1>4, <1>5, <1>6, <1>7 DEF FileStep

LEMMA InitFiles == Init => FilesInv
  <1> SUFFICES ASSUME Init PROVE FilesInv
    OBVIOUS
  <1>1. \A t \in ServerThreads : filer[t].pc = "idle"
    BY NoFilingType DEF Init, FileInit
  <1>2. \A p \in Pipelines : latest[p] = 0 /\ \A f \in Formats : files[p][f] = 0
    BY DEF Init, FileInit
  <1> QED
    BY <1>1, <1>2 DEF FilesInv, WorksOn, Clean

LEMMA StepFiles ==
  ASSUME Typed, FilesInv, [Next]_vars
  PROVE  FilesInv'
  <1>1. CASE UNCHANGED fileVars
    BY <1>1 DEF fileVars, FilesInv, WorksOn, Clean, OnlyFile
  <1>2. ASSUME NEW t \in ServerThreads, NEW op \in {"save", "delete"}, NEW q \in Pipelines,
               NEW f \in Formats, NEW overwrite \in BOOLEAN,
               FileRequest(t, op, q, f, overwrite), ~filesRaced'
        PROVE  FilesInv'
    <2>1. ~filesRaced /\ \A u \in ServerThreads : ~WorksOn(u, q)
      BY <1>2, OrStays DEF FileRequest, WorksOn
    <2>2. files' = files /\ latest' = latest /\ filer[t].pc = "idle"
          /\ \A u \in ServerThreads \ {t} : filer'[u] = filer[u]
      BY <1>2 DEF FileRequest, Typed
    <2>3. filer'[t].pc \in {"save", "delete"} /\ filer'[t].id = q
      BY <1>2 DEF FileRequest, Typed
    <2>4. ASSUME NEW p \in Pipelines
          PROVE  /\ \A u, v \in ServerThreads : WorksOn(u, p)' /\ WorksOn(v, p)' => u = v
                 /\ (\A u \in ServerThreads : ~WorksOn(u, p)') => Clean(p)'
                 /\ \A u \in ServerThreads : WorksOn(u, p)' =>
                      /\ filer'[u].pc \in {"save", "delete"} => Clean(p)'
                      /\ filer'[u].pc \in {"empty", "write"} => OnlyFile(p, filer[u].fmt)'
      <3>1. Clean(p)' = Clean(p)
        BY <2>2 DEF Clean, OnlyFile
      <3>2. CASE p = q
        BY <2>1, <2>2, <2>3, <3>1, <3>2 DEF FilesInv, WorksOn
      <3>3. CASE p # q
        BY <2>1, <2>2, <2>3, <3>1, <3>3 DEF FilesInv, WorksOn, OnlyFile
      <3> QED
        BY <3>2, <3>3
    <2> QED
      BY <2>4 DEF FilesInv
  <1>3. ASSUME NEW t \in ServerThreads, FileStep(t), ~filesRaced'
        PROVE  FilesInv'
    <2>1. /\ ~filesRaced /\ WorksOn(t, filer[t].id) /\ filer[t].id \in Pipelines
          /\ \A u \in ServerThreads \ {t} : filer'[u] = filer[u]
          /\ filer'[t].pc = "idle" \/ filer'[t].id = filer[t].id
      BY <1>3, FilersStay DEF WorksOn
    <2>2. /\ filer[t].pc \in {"save", "delete"} => Clean(filer[t].id)
          /\ filer[t].pc \in {"empty", "write"} => OnlyFile(filer[t].id, filer[t].fmt)
          /\ \A u \in ServerThreads \ {t} : ~WorksOn(u, filer[t].id)
      BY <2>1 DEF FilesInv
    <2>3. ASSUME NEW p \in Pipelines, p = filer[t].id
          PROVE  /\ filer'[t].pc \in {"idle", "save", "delete"} => Clean(p)'
                 /\ filer'[t].pc \in {"empty", "write"} =>
                      \A g \in Formats \ {filer'[t].fmt} : files'[p][g] = 0
      BY <1>3, <2>2, <2>3, StepKeepsDocument
    <2>4. filer' \in [ServerThreads -> FilerState]
      BY StepTyped DEF Typed
    <2>5. ASSUME NEW p \in Pipelines
          PROVE  /\ \A u, v \in ServerThreads : WorksOn(u, p)' /\ WorksOn(v, p)' => u = v
                 /\ (\A u \in ServerThreads : ~WorksOn(u, p)') => Clean(p)'
                 /\ \A u \in ServerThreads : WorksOn(u, p)' =>
                      /\ filer'[u].pc \in {"save", "delete"} => Clean(p)'
                      /\ filer'[u].pc \in {"empty", "write"} => OnlyFile(p, filer[u].fmt)'
      <3>1. CASE p = filer[t].id
        <4>1. \A u \in ServerThreads \ {t} : ~WorksOn(u, p)'
          BY <2>1, <2>2, <3>1 DEF WorksOn
        <4>2. /\ filer'[t].pc \in {"idle", "save", "delete"} => Clean(p)'
              /\ filer'[t].pc \in {"empty", "write"} => OnlyFile(p, filer[t].fmt)'
          BY <2>3, <3>1 DEF OnlyFile
        <4> QED
          BY <2>1, <2>4, <3>1, <4>1, <4>2 DEF WorksOn, FilerState
      <3>2. CASE p # filer[t].id
        <4>1. files'[p] = files[p] /\ latest'[p] = latest[p]
          BY <1>3, <3>2, OthersStay
        <4>2. Clean(p)' = Clean(p) /\ ~WorksOn(t, p) /\ ~WorksOn(t, p)'
          BY <2>1, <3>2, <4>1 DEF Clean, OnlyFile, WorksOn
        <4> QED
          BY <2>1, <4>1, <4>2 DEF FilesInv, WorksOn, OnlyFile
      <3> QED
        BY <3>1, <3>2
    <2> QED
      BY <2>5 DEF FilesInv
  <1>4. ASSUME FileDies, ~filesRaced'
        PROVE  FilesInv'
    <2>1. ~filesRaced /\ \A t \in ServerThreads : filer[t].pc = "idle"
      BY <1>4, OrStays DEF FileDies
    <2>2. files' = files /\ latest' = latest
          /\ \A t \in ServerThreads : filer'[t].pc = "idle"
      BY <1>4, NoFilingType DEF FileDies
    <2> QED
      BY <2>1, <2>2 DEF FilesInv, WorksOn, Clean, OnlyFile
  <1>5. filesRaced' => FilesInv'
    BY DEF FilesInv
  <1>6. FileNext
    BY StepsOfFiles
  <1> QED
    BY <1>1, <1>2, <1>3, <1>4, <1>5, <1>6 DEF FileNext

LEMMA CleanIsOne ==
  ASSUME Typed, NEW p \in Pipelines, Clean(p)
  PROVE  /\ Cardinality(Present(p)) <= 1
         /\ {files[p][f] : f \in Present(p)} = IF latest[p] = 0 THEN {} ELSE {latest[p]}
  <1>1. CASE latest[p] = 0
    <2>1. Present(p) = {}
      BY <1>1 DEF Clean, Present
    <2>2. Cardinality(Present(p)) = 0
      BY <2>1, FS_EmptySet
    <2> QED
      BY <1>1, <2>1, <2>2
  <1>2. CASE latest[p] # 0
    <2>1. PICK f \in Formats : files[p][f] = latest[p] /\ OnlyFile(p, f)
      BY <1>2 DEF Clean
    <2>2. Present(p) = {f}
      BY <1>2, <2>1 DEF Present, OnlyFile
    <2>3. Cardinality(Present(p)) = 1
      BY <2>2, FS_Singleton
    <2> QED
      BY <1>2, <2>1, <2>2, <2>3
  <1> QED
    BY <1>1, <1>2

(* A pipeline document has one file, with what was saved last, and a        *)
(* deleted one has none, as long as two changes of it never met: for any    *)
(* threads, documents and formats (pipeline_store.py, save_pipeline).       *)
THEOREM DocumentsStand == Spec => []PipelinesStand
  <1>1. Init => Typed /\ FilesInv
    BY InitTyped, InitFiles
  <1>2. Typed /\ FilesInv /\ [Next]_vars => Typed' /\ FilesInv'
    BY StepTyped, StepFiles
  <1>3. Typed /\ FilesInv => PipelinesStand
    <2> SUFFICES ASSUME Typed, FilesInv, ~filesRaced, NEW p \in Pipelines,
                        \A t \in ServerThreads : filer[t].pc = "idle"
                 PROVE  /\ Cardinality(Present(p)) <= 1
                        /\ {files[p][f] : f \in Present(p)}
                             = IF latest[p] = 0 THEN {} ELSE {latest[p]}
      BY DEF PipelinesStand
    <2>1. Clean(p)
      BY DEF FilesInv, WorksOn
    <2> QED
      BY <2>1, CleanIsOne
  <1> QED
    BY <1>1, <1>2, <1>3, PTL DEF Spec
-----------------------------------------------------------------------------
(* The tasks of the studio, the activations and the publications.  What a   *)
(* task publishes decides where it goes on afterwards.                      *)
Fields == {"pc", "op", "item", "then", "orelse", "agents", "base", "doc", "todo",
           "cat", "last", "force"}

InPublication == {"publish", "signed", "truncated", "written"}
OfPack == {"read_active", "specs", "unrecorded", "record"}
Activation == {"activate", "test"}

FlowAt(k) ==
  /\ DOMAIN k = Fields
  /\ k.pc \in OfPack => k.op \in Activation
  /\ k.pc \in {"define", "grant"} => k.op = "save"
  /\ k.pc \in InPublication =>
       IF k.op \in Activation THEN k.then = "record" /\ k.orelse = "unrecorded"
       ELSE k.then \in {"idle", "reload"} /\ k.orelse = "idle"

Flow == DOMAIN task = Threads /\ \A t \in Threads : FlowAt(task[t])

(* What a step of Operator is to the tasks, the policy and the packs.       *)
TaskNext ==
  \/ UNCHANGED <<task, policyVars, packVars>>
  \/ \E t \in Threads :
       \/ \E op \in {"save", "test", "promote"}, i \in Items, force \in BOOLEAN :
            StudioRoute(t, op, i, force)
       \/ \E p \in Packs : PackRoute(t, p)
       \/ PolicyCommand(t)
       \/ PublishStep(t) /\ UNCHANGED packVars
       \/ PackStep(t)
       \/ StudioStep(t)
       \/ Dies(t)

LEMMA StepsOfTasks == [Next]_vars => TaskNext
  <1> SUFFICES ASSUME [Next]_vars PROVE TaskNext
    OBVIOUS
  <1>1. CASE UNCHANGED vars
    BY <1>1 DEF vars, TaskNext
  <1>2. ASSUME NEW t \in Threads, Request(t)
        PROVE  TaskNext
    <2>1. ASSUME NEW op, NEW p, NEW f, NEW overwrite, PipelineRoute(t, op, p, f, overwrite)
          PROVE  UNCHANGED <<task, policyVars, packVars>>
      BY <2>1 DEF PipelineRoute
    <2>2. ASSUME NEW op, NEW k, KeyRoute(t, op, k)
          PROVE  UNCHANGED <<task, policyVars, packVars>>
      BY <2>2 DEF KeyRoute
    <2>3. ASSUME OtherRoute(t)
          PROVE  UNCHANGED <<task, policyVars, packVars>>
      BY <2>3 DEF OtherRoute
    <2> QED
      BY <1>2, <2>1, <2>2, <2>3 DEF Request, TaskNext
  <1>3. ASSUME NEW t \in Threads, Works(t)
        PROVE  TaskNext
    BY <1>3 DEF Works, TaskNext
  <1>4. ASSUME NEW t \in Threads, Dies(t)
        PROVE  TaskNext
    BY <1>4 DEF TaskNext
  <1> QED
    BY <1>1, <1>2, <1>3, <1>4 DEF Next

(* The other threads go on as they were, and t as Flow has it.              *)
Alone(t) == /\ DOMAIN task' = Threads
            /\ \A u \in Threads \ {t} : task'[u] = task[u]
            /\ FlowAt(task'[t])

LEMMA AtRestFlows == FlowAt(AtRest) /\ AtRest.pc = "idle"
  BY DEF AtRest, FlowAt, Fields, OfPack, InPublication

LEMMA Goes ==
  ASSUME Flow, NEW t \in Threads, NEW pc, Goto(t, pc),
         pc \notin InPublication, pc \notin {"define", "grant"},
         pc \in OfPack => task[t].op \in Activation
  PROVE  /\ Alone(t)
         /\ task'[t].pc = pc
         /\ pc # "idle" => task'[t] = [task[t] EXCEPT !.pc = pc]
  <1>1. CASE pc = "idle"
    BY <1>1, AtRestFlows DEF Goto, Flow, Alone
  <1>2. CASE pc # "idle"
    BY <1>2 DEF Goto, Flow, FlowAt, Alone, Fields
  <1> QED
    BY <1>1, <1>2

(* A step of a publication.                                                 *)
LEMMA Publishes ==
  ASSUME Flow, NEW t \in Threads, PublishStep(t), task[t].pc \in InPublication
  PROVE  /\ Alone(t)
         /\ task'[t].pc \notin InPublication =>
              task'[t].pc = task[t].then \/ task'[t].pc = task[t].orelse
         /\ task'[t].pc \in InPublication \cup OfPack =>
              task'[t].op = task[t].op /\ task'[t].item = task[t].item
  <1>1. FlowAt(task[t]) /\ task[t].pc # "start"
    BY DEF Flow, InPublication
  <1>2. CASE PublishReads(t)
    BY <1>1, <1>2 DEF PublishReads, At, Flow, FlowAt, Alone, Fields, InPublication, OfPack
  <1>3. CASE PublishRaises(t)
    <2>1. /\ task[t].orelse \notin InPublication \cup {"define", "grant"}
          /\ task[t].orelse \in OfPack => task[t].op \in Activation
      BY <1>1, <1>3 DEF FlowAt, InPublication, OfPack
    <2>2. Goto(t, task[t].orelse)
      BY <1>3 DEF PublishRaises
    <2>3. /\ Alone(t) /\ task'[t].pc = task[t].orelse
          /\ task[t].orelse # "idle" => task'[t] = [task[t] EXCEPT !.pc = task[t].orelse]
      BY <2>1, <2>2, Goes
    <2> QED
      BY <1>1, <2>1, <2>3 DEF FlowAt, Fields, OfPack
  <1>4. CASE PublishTruncates(t)
    BY <1>1, <1>4 DEF PublishTruncates, Goto, At, Flow, FlowAt, Alone, Fields,
       InPublication, OfPack
  <1>5. CASE PublishWrites(t)
    BY <1>1, <1>5 DEF PublishWrites, Goto, At, Flow, FlowAt, Alone, Fields,
       InPublication, OfPack
  <1>6. CASE PublishRecords(t)
    <2>1. /\ task[t].then \notin InPublication \cup {"define", "grant"}
          /\ task[t].then \in OfPack => task[t].op \in Activation
      BY <1>1, <1>6 DEF FlowAt, InPublication, OfPack
    <2>2. Goto(t, task[t].then)
      BY <1>6 DEF PublishRecords
    <2>3. /\ Alone(t) /\ task'[t].pc = task[t].then
          /\ task[t].then # "idle" => task'[t] = [task[t] EXCEPT !.pc = task[t].then]
      BY <2>1, <2>2, Goes
    <2> QED
      BY <1>1, <2>1, <2>3 DEF FlowAt, Fields, OfPack
  <1> QED
    BY <1>1, <1>2, <1>3, <1>4, <1>5, <1>6 DEF PublishStep, Sign, At

(* The steps that begin a publication.                                      *)
LEMMA BeginsPublication ==
  ASSUME Flow, NEW t \in Threads, Sign(t) \/ Grants(t) \/ ActivateGrants(t)
  PROVE  /\ Alone(t)
         /\ ActivateGrants(t) => task'[t].item = task[t].item
         /\ task'[t].pc \in {"idle", "publish"}
         /\ ~ActivateGrants(t) => task'[t].op = "none" \/ task'[t].op \notin Activation
  <1>1. FlowAt(task[t])
    BY DEF Flow
  <1>2. CASE Sign(t)
    <2>1. CASE grants[Process(t)].trusted
      BY <1>1, <1>2, <2>1 DEF Sign, At, ActivateGrants, Flow, FlowAt, Alone, Fields,
         InPublication, OfPack, Activation
    <2>2. CASE ~grants[Process(t)].trusted
      <3>1. task' = [task EXCEPT ![t] = AtRest] /\ ~ActivateGrants(t)
        BY <1>2, <2>2 DEF Sign, At, ActivateGrants
      <3>2. AtRest.op = "none"
        BY DEF AtRest
      <3> QED
        BY <3>1, <3>2, AtRestFlows DEF Flow, Alone
    <2> QED
      BY <2>1, <2>2
  <1>3. CASE Grants(t)
    BY <1>1, <1>3 DEF Grants, At, ActivateGrants, Flow, FlowAt, Alone, Fields,
       InPublication, OfPack, Activation
  <1>4. CASE ActivateGrants(t)
    BY <1>1, <1>4 DEF ActivateGrants, At, Flow, FlowAt, Alone, Fields, InPublication,
       OfPack, Activation
  <1> QED
    BY <1>2, <1>3, <1>4

(* Every other step of t moves its task outside of a publication.           *)
Aside(t) == Alone(t) /\ task'[t].pc \notin InPublication

LEMMA RoutesAside ==
  ASSUME Flow, NEW t \in Threads,
         \/ \E op \in {"save", "test", "promote"}, i \in Items, force \in BOOLEAN :
              StudioRoute(t, op, i, force)
         \/ \E p \in Packs : PackRoute(t, p)
         \/ PolicyCommand(t)
  PROVE  Aside(t)
  <1>1. ASSUME NEW k, FlowAt(k), k.pc \notin InPublication, task' = [task EXCEPT ![t] = k]
        PROVE  Aside(t)
    BY <1>1 DEF Flow, Alone, Aside
  <1>2. ASSUME NEW op, NEW i, NEW force, StudioRoute(t, op, i, force)
        PROVE  Aside(t)
    <2> DEFINE k == [AtRest EXCEPT !.pc = "start", !.op = op, !.item = i, !.force = force]
    <2>1. FlowAt(k) /\ k.pc \notin InPublication
      BY DEF AtRest, FlowAt, Fields, OfPack, InPublication
    <2>2. task' = [task EXCEPT ![t] = k]
      BY <1>2 DEF StudioRoute
    <2> HIDE DEF k
    <2> QED
      BY <1>1, <2>1, <2>2
  <1>3. ASSUME NEW p, PackRoute(t, p)
        PROVE  Aside(t)
    <2> DEFINE k == [AtRest EXCEPT !.pc = "read_active", !.op = "activate", !.item = p]
    <2>1. FlowAt(k) /\ k.pc \notin InPublication
      BY DEF AtRest, FlowAt, Fields, OfPack, InPublication, Activation
    <2>2. task' = [task EXCEPT ![t] = k]
      BY <1>3 DEF PackRoute
    <2> HIDE DEF k
    <2> QED
      BY <1>1, <2>1, <2>2
  <1>4. CASE PolicyCommand(t)
    <2> DEFINE k == [AtRest EXCEPT !.pc = "start", !.op = "sign"]
    <2>1. FlowAt(k) /\ k.pc \notin InPublication
      BY DEF AtRest, FlowAt, Fields, OfPack, InPublication
    <2>2. task' = [task EXCEPT ![t] = k]
      BY <1>4 DEF PolicyCommand
    <2> HIDE DEF k
    <2> QED
      BY <1>1, <2>1, <2>2
  <1> QED
    BY <1>2, <1>3, <1>4

(* Of an activation: it leaves the policy and the memories alone.           *)
LEMMA PackAside ==
  ASSUME Flow, NEW t \in Threads, PackStep(t), ~ActivateGrants(t)
  PROVE  /\ Aside(t)
         /\ UNCHANGED policyVars
         /\ task[t].pc \in OfPack
         /\ task'[t].pc \in OfPack =>
              task'[t].op = task[t].op /\ task'[t].item = task[t].item
  <1>1. /\ FlowAt(task[t])
        /\ Ends(t) \in {"idle", "run"}
    BY DEF Flow, Ends
  <1>2. ASSUME NEW pc \in {"idle", "run", "record"}, Goto(t, pc), task[t].pc \in OfPack
        PROVE  /\ Aside(t)
               /\ task'[t].pc = pc
               /\ pc = "record" => task'[t].op = task[t].op /\ task'[t].item = task[t].item
    <2>1. pc \notin InPublication /\ pc \notin {"define", "grant"}
          /\ task[t].op \in Activation
      BY <1>1, <1>2 DEF FlowAt, InPublication
    <2>2. /\ Alone(t) /\ task'[t].pc = pc
          /\ pc # "idle" => task'[t] = [task[t] EXCEPT !.pc = pc]
      BY <1>2, <2>1, Goes
    <2> QED
      BY <1>1, <2>1, <2>2 DEF Aside, FlowAt, Fields
  <1>3. CASE ActivateBegins(t)
    <2>1. task[t].pc \in OfPack
      BY <1>3 DEF ActivateBegins, At, OfPack
    <2>2. CASE content[task[t].item] = 0
      <3>1. Goto(t, Ends(t)) /\ UNCHANGED policyVars
        BY <1>3, <2>2 DEF ActivateBegins
      <3> QED
        BY <1>1, <1>2, <2>1, <3>1 DEF OfPack
    <2>3. CASE content[task[t].item] # 0
      <3>1. /\ task' = [task EXCEPT ![t].pc = "specs", ![t].todo = SpecOrder]
            /\ UNCHANGED policyVars
        BY <1>3, <2>3 DEF ActivateBegins
      <3> QED
        BY <1>1, <2>1, <3>1 DEF Flow, FlowAt, Alone, Aside, Fields, OfPack, InPublication
    <2> QED
      BY <2>2, <2>3
  <1>4. CASE ActivateApplies(t)
    BY <1>1, <1>4 DEF ActivateApplies, At, Flow, FlowAt, Alone, Aside, Fields, OfPack,
       InPublication
  <1>5. CASE ActivateRaises(t)
    <2>1. Goto(t, Ends(t)) /\ UNCHANGED policyVars /\ task[t].pc \in OfPack
      BY <1>5 DEF ActivateRaises, At, OfPack
    <2> QED
      BY <1>1, <1>2, <2>1 DEF OfPack
  <1>6. CASE ActivateNoDelta(t)
    <2>1. Goto(t, "record") /\ UNCHANGED policyVars /\ task[t].pc \in OfPack
      BY <1>6 DEF ActivateNoDelta, At, OfPack
    <2> QED
      BY <1>1, <1>2, <2>1
  <1>7. CASE ActivateUnrecorded(t)
    <2>1. Goto(t, Ends(t)) /\ UNCHANGED policyVars /\ task[t].pc \in OfPack
      BY <1>7 DEF ActivateUnrecorded, At, OfPack
    <2> QED
      BY <1>1, <1>2, <2>1 DEF OfPack
  <1>8. CASE ActivateRecords(t)
    <2>1. Goto(t, Ends(t)) /\ UNCHANGED policyVars /\ task[t].pc \in OfPack
      BY <1>8 DEF ActivateRecords, At, OfPack
    <2> QED
      BY <1>1, <1>2, <2>1 DEF OfPack
  <1> QED
    BY <1>3, <1>4, <1>5, <1>6, <1>7, <1>8 DEF PackStep

(* Of the studio: only a reload touches a memory, and only a test goes over *)
(* to an activation.                                                        *)
LEMMA StudioAside ==
  ASSUME Flow, NEW t \in Threads, StudioStep(t), ~Grants(t)
  PROVE  /\ Aside(t)
         /\ UNCHANGED <<policy, docs, history, granted, behind>>
         /\ \/ UNCHANGED grants
            \/ grants' = [grants EXCEPT ![Process(t)] = Loaded(@)]
         /\ task[t].pc \notin OfPack \cup InPublication
         /\ task'[t].pc \in OfPack => task'[t].pc = "read_active"
         /\ UNCHANGED <<specs, active>> /\ (mixed => mixed')
         /\ ~Defines(t) => UNCHANGED mixed
  <1>1. FlowAt(task[t])
    BY DEF Flow
  <1> DEFINE Rest(k) == /\ FlowAt(k) /\ k.pc \notin InPublication
                        /\ k.pc \in OfPack => k.pc = "read_active"
             Off == Aside(t) /\ (task'[t].pc \in OfPack => task'[t].pc = "read_active")
             Kept0 == /\ UNCHANGED policyVars /\ UNCHANGED <<specs, active, mixed>>
                      /\ task[t].pc \notin OfPack \cup InPublication
  <1>2. ASSUME NEW k, Rest(k), task' = [task EXCEPT ![t] = k]
        PROVE  Off
    BY <1>2 DEF Flow, Alone, Aside
  <1>3. ASSUME NEW pc, Goto(t, pc),
               \/ pc \in {"idle", "emptied", "manifest", "load", "cat", "run"}
               \/ pc \in {"define", "grant"} /\ task[t].op = "save"
               \/ pc = "read_active" /\ task[t].op = "test"
        PROVE  Off
    <2> DEFINE k == IF pc = "idle" THEN AtRest ELSE [task[t] EXCEPT !.pc = pc]
    <2>1. task' = [task EXCEPT ![t] = k]
      BY <1>3 DEF Goto
    <2>2. CASE pc = "idle"
      BY <1>2, <2>1, <2>2, AtRestFlows DEF OfPack, InPublication
    <2>3. CASE pc # "idle"
      <3>1. Rest([task[t] EXCEPT !.pc = pc])
        BY <1>1, <1>3, <2>3 DEF FlowAt, Fields, OfPack, InPublication, Activation
      <3>2. task' = [task EXCEPT ![t] = [task[t] EXCEPT !.pc = pc]]
        BY <2>1, <2>3
      <3> HIDE DEF Rest
      <3> QED
        BY <1>2, <3>1, <3>2
    <2> QED
      BY <2>2, <2>3
  <1>4. CASE Loads(t)
    <2>1. PICK c : c = [catalog EXCEPT ![task[t].item] = Edited(task[t], @)]
      OBVIOUS
    <2>2. PICK pc : pc = IF task[t].op = "save" /\ task[t].item \notin Packs
                         THEN "define" ELSE "cat"
      OBVIOUS
    <2>a. task' = [task EXCEPT ![t].cat = c, ![t].pc = pc]
      BY <1>4, <2>1, <2>2 DEF Loads
    <2>b. pc = "cat" \/ (pc = "define" /\ task[t].op = "save")
      BY <2>2
    <2> DEFINE k == [task[t] EXCEPT !.cat = c, !.pc = pc]
    <2>3. Rest(k) /\ task' = [task EXCEPT ![t] = k]
      BY <1>1, <2>a, <2>b DEF FlowAt, Fields, OfPack, InPublication
    <2>4. Kept0
      BY <1>4 DEF Loads, At, packVars, OfPack, InPublication
    <2> HIDE DEF k, Rest
    <2> QED
      BY <1>2, <2>3, <2>4 DEF policyVars
  <1>5. CASE Empties(t)
    <2>1. Goto(t, "emptied") /\ Kept0
      BY <1>5 DEF Empties, At, packVars, OfPack, InPublication
    <2>2. Off
      BY <1>3, <2>1
    <2> QED
      BY <2>1, <2>2 DEF policyVars
  <1>6. CASE Writes(t)
    <2>1. (Goto(t, "manifest") \/ Goto(t, "idle")) /\ Kept0
      BY <1>6 DEF Writes, At, packVars, OfPack, InPublication
    <2>2. Off
      BY <1>3, <2>1
    <2> QED
      BY <2>1, <2>2 DEF policyVars
  <1>7. CASE Follows(t)
    <2>1. Goto(t, "idle") /\ Kept0
      BY <1>7 DEF Follows, At, packVars, OfPack, InPublication
    <2>2. Off
      BY <1>3, <2>1
    <2> QED
      BY <2>1, <2>2 DEF policyVars
  <1>8. CASE Saves(t)
    <2>1. (Goto(t, "define") \/ Goto(t, "load")) /\ Kept0 /\ task[t].op = "save"
      BY <1>8 DEF Saves, At, packVars, OfPack, InPublication
    <2>2. Off
      BY <1>3, <2>1
    <2> QED
      BY <2>1, <2>2 DEF policyVars
  <1>9. CASE Defines(t)
    <2>1. /\ Goto(t, "load") \/ Goto(t, "grant") \/ Goto(t, "cat")
          /\ UNCHANGED policyVars /\ UNCHANGED <<specs, active>>
          /\ mixed => mixed'
          /\ task[t].pc = "define"
      BY <1>9 DEF Defines, At
    <2>2. task[t].op = "save"
      BY <1>1, <2>1 DEF FlowAt
    <2> QED
      BY <1>3, <1>9, <2>1, <2>2 DEF policyVars, OfPack, InPublication
  <1>10. CASE Reloads(t)
    <2>1. /\ Goto(t, "cat") /\ grants' = [grants EXCEPT ![Process(t)] = Loaded(@)]
          /\ UNCHANGED <<policy, docs, history, granted, behind>>
          /\ UNCHANGED <<specs, active, mixed>>
          /\ task[t].pc \notin OfPack \cup InPublication
      BY <1>10 DEF Reloads, At, packVars, OfPack, InPublication
    <2> QED
      BY <1>3, <2>1
  <1>11. CASE Tests(t)
    <2>1. /\ Goto(t, "read_active") \/ Goto(t, "run") \/ Goto(t, "idle")
          /\ Kept0 /\ task[t].op = "test"
      BY <1>11 DEF Tests, At, packVars, OfPack, InPublication
    <2>2. Off
      BY <1>3, <2>1
    <2> QED
      BY <2>1, <2>2 DEF policyVars
  <1>12. ASSUME NEW status, Runs(t, status)
         PROVE  /\ Kept0 /\ Aside(t)
                /\ task'[t].pc \in OfPack => task'[t].pc = "read_active"
    <2>1. \E last : task' = [task EXCEPT ![t].pc = "load", ![t].last = last]
      BY <1>12 DEF Runs
    <2>2. PICK last : task' = [task EXCEPT ![t].pc = "load", ![t].last = last]
      BY <2>1
    <2> DEFINE k == [task[t] EXCEPT !.pc = "load", !.last = last]
    <2>3. Rest(k) /\ task' = [task EXCEPT ![t] = k]
      BY <1>1, <2>2 DEF FlowAt, Fields, OfPack, InPublication
    <2>4. Kept0
      BY <1>12 DEF Runs, At, packVars, OfPack, InPublication
    <2> HIDE DEF k, Rest
    <2> QED
      BY <1>2, <2>3, <2>4
  <1>13. CASE Promotes(t)
    <2>1. /\ \/ Goto(t, "idle")
             \/ \E last : task' = [task EXCEPT ![t].pc = "load", ![t].last = last]
          /\ Kept0
      BY <1>13 DEF Promotes, At, packVars, OfPack, InPublication
    <2>2. ASSUME NEW last, task' = [task EXCEPT ![t].pc = "load", ![t].last = last]
          PROVE  Off
      <3> DEFINE k == [task[t] EXCEPT !.pc = "load", !.last = last]
      <3>1. Rest(k) /\ task' = [task EXCEPT ![t] = k]
        BY <1>1, <2>2 DEF FlowAt, Fields, OfPack, InPublication
      <3> HIDE DEF k, Rest
      <3> QED
        BY <1>2, <3>1
    <2>3. Off
      BY <1>3, <2>1, <2>2
    <2> QED
      BY <2>1, <2>3 DEF policyVars
  <1>14. CASE PromotesPack(t)
    <2>1. /\ \/ Goto(t, "idle")
             \/ \E c : task' = [task EXCEPT ![t].pc = "cat", ![t].cat = c]
          /\ Kept0
      BY <1>14 DEF PromotesPack, At, packVars, OfPack, InPublication
    <2>2. ASSUME NEW c, task' = [task EXCEPT ![t].pc = "cat", ![t].cat = c]
          PROVE  Off
      <3> DEFINE k == [task[t] EXCEPT !.pc = "cat", !.cat = c]
      <3>1. Rest(k) /\ task' = [task EXCEPT ![t] = k]
        BY <1>1, <2>2 DEF FlowAt, Fields, OfPack, InPublication
      <3> HIDE DEF k, Rest
      <3> QED
        BY <1>2, <3>1
    <2>3. Off
      BY <1>3, <2>1, <2>2
    <2> QED
      BY <2>1, <2>3 DEF policyVars
  <1>15. /\ \A s \in {"succeeded", "failed"} : Runs(t, s) => Kept0 /\ Aside(t)
         /\ \A s \in {"succeeded", "failed"} : Runs(t, s) =>
              (task'[t].pc \in OfPack => task'[t].pc = "read_active")
    BY <1>12
  <1> QED
    BY <1>4, <1>5, <1>6, <1>7, <1>8, <1>9, <1>10, <1>11, <1>13, <1>14, <1>15
       DEF StudioStep, policyVars

LEMMA InitFlow == Init => Flow
  BY AtRestFlows DEF Init, StudioInit, PolicyInit, Flow

LEMMA AloneFlow ==
  ASSUME Flow, NEW t \in Threads, Alone(t)
  PROVE  Flow'
  <1>1. DOMAIN task' = Threads /\ FlowAt(task'[t])
        /\ \A u \in Threads \ {t} : task'[u] = task[u]
    BY DEF Alone
  <1>2. ASSUME NEW u \in Threads PROVE FlowAt(task'[u])
    <2>1. CASE u = t
      BY <1>1, <2>1
    <2>2. CASE u # t
      <3>1. task'[u] = task[u] /\ FlowAt(task[u])
        BY <1>1, <2>2 DEF Flow
      <3> QED
        BY <3>1
    <2> QED
      BY <2>1, <2>2
  <1> QED
    BY <1>1, <1>2 DEF Flow

LEMMA DeathOfTasks ==
  ASSUME Flow, NEW t \in Threads, Dies(t)
  PROVE  /\ Flow'
         /\ \A u \in Threads : task'[u] = task[u] \/ task'[u] = AtRest
         /\ \A u \in Threads \ Killed(t) : task'[u] = task[u]
         /\ \A u \in Killed(t) : task'[u] = AtRest
  BY AtRestFlows DEF Dies, Flow, Killed

LEMMA StepFlow ==
  ASSUME Flow, [Next]_vars
  PROVE  Flow'
  <1>1. CASE UNCHANGED task
    BY <1>1 DEF Flow
  <1>2. ASSUME NEW t \in Threads, Alone(t)
        PROVE  Flow'
    BY <1>2, AloneFlow
  <1>3. ASSUME NEW t \in Threads,
               \/ \E op \in {"save", "test", "promote"}, i \in Items, force \in BOOLEAN :
                    StudioRoute(t, op, i, force)
               \/ \E p \in Packs : PackRoute(t, p)
               \/ PolicyCommand(t)
        PROVE  Alone(t)
    BY <1>3, RoutesAside DEF Aside
  <1>4. ASSUME NEW t \in Threads, PublishStep(t)
        PROVE  Alone(t)
    <2>1. CASE Sign(t)
      BY <2>1, BeginsPublication
    <2>2. CASE ~Sign(t)
      <3>1. task[t].pc \in InPublication
        BY <1>4, <2>2 DEF PublishStep, PublishReads, PublishRaises, PublishTruncates,
           PublishWrites, PublishRecords, At, InPublication
      <3> QED
        BY <1>4, <3>1, Publishes
    <2> QED
      BY <2>1, <2>2
  <1>5. ASSUME NEW t \in Threads, PackStep(t)
        PROVE  Alone(t)
    BY <1>5, PackAside, BeginsPublication DEF Aside
  <1>6. ASSUME NEW t \in Threads, StudioStep(t)
        PROVE  Alone(t)
    BY <1>6, StudioAside, BeginsPublication DEF Aside
  <1>7. TaskNext
    BY StepsOfTasks
  <1> QED
    BY <1>1, <1>2, <1>3, <1>4, <1>5, <1>6, <1>7, DeathOfTasks DEF TaskNext
-----------------------------------------------------------------------------
(* An activation that has begun.                                            *)
ActivatingAt(k) == k.pc \in OfPack \/ (k.op \in Activation /\ k.pc \in InPublication)
ApplyingAt(k) == ActivatingAt(k) /\ k.pc # "read_active"

(* What was applied so far of the pack in k; the rest is still to be done.  *)
AppliedAt(k, in) ==
  /\ k.pc = "specs" =>
       /\ k.todo \in Seq(SpecTypes)
       /\ Len(k.todo) <= Len(SpecOrder)
       /\ \A s \in SpecTypes :
            in[s].pack = k.item \/ \E i \in 1 .. Len(k.todo) : k.todo[i] = s
  /\ k.pc = "record" \/ (k.op \in Activation /\ k.pc \in InPublication) =>
       \A s \in SpecTypes : in[s].pack = k.item

(* The record tells the truth.                                              *)
Truth(in, record) ==
  \A s \in SpecTypes : in[s] = record.specs[s] /\ in[s].pack = record.pack

(* As long as activations did not meet and none failed half-way, one task   *)
(* at most is applying a pack; before it applied anything, and when there   *)
(* is none, the record is true.                                             *)
ActiveInv ==
  /\ DOMAIN specs = SpecTypes
  /\ ~mixed =>
       /\ \A t, u \in Threads : ApplyingAt(task[t]) /\ ApplyingAt(task[u]) => t = u
       /\ (\A t \in Threads : ~ApplyingAt(task[t])) => Truth(specs, active)
       /\ \A t \in Threads :
            /\ AppliedAt(task[t], specs)
            /\ task[t].pc = "specs" /\ task[t].todo = SpecOrder => Truth(specs, active)

LEMMA ActivatingMeans ==
  \A t \in Threads : Activating(t) <=> ActivatingAt(task[t])
  BY DEF Activating, ActivatingAt, Publishing, OfPack, Activation, InPublication

LEMMA InitActive == Init => ActiveInv
  <1> SUFFICES ASSUME Init PROVE ActiveInv
    OBVIOUS
  <1>1. \A t \in Threads : task[t].pc = "idle"
    BY AtRestFlows DEF Init, StudioInit, PolicyInit
  <1>2. DOMAIN specs = SpecTypes
    BY DEF Init, PackInit
  <1>3. Truth(specs, active)
    <2>1. PICK p \in Shipped : /\ specs = [s \in SpecTypes |-> Version(p, 1)]
                               /\ active = [pack |-> p, specs |-> specs]
      BY DEF Init, PackInit
    <2>2. \A s \in SpecTypes : specs[s] = Version(p, 1) /\ Version(p, 1).pack = p
      BY <2>1 DEF Version
    <2>3. active.pack = p /\ active.specs = specs
      BY <2>1
    <2> QED
      BY <2>2, <2>3 DEF Truth
  <1> QED
    BY <1>1, <1>2, <1>3 DEF ActiveInv, ApplyingAt, ActivatingAt, AppliedAt, OfPack,
       InPublication

(* A step that touches no specification and neither begins, goes on with    *)
(* nor ends an activation.                                                  *)
LEMMA ActiveStays ==
  ASSUME ActiveInv, NEW t \in Threads, UNCHANGED <<specs, active>>,
         \A u \in Threads \ {t} : task'[u] = task[u],
         ~ApplyingAt(task[t]), ~ApplyingAt(task'[t]),
         ~mixed' => ~mixed
  PROVE  ActiveInv'
  <1> SUFFICES ASSUME ~mixed' PROVE ActiveInv'
    BY DEF ActiveInv
  <1>1. AppliedAt(task'[t], specs) /\ task'[t].pc # "specs"
    BY DEF ApplyingAt, ActivatingAt, AppliedAt, OfPack, InPublication
  <1>2. \A u \in Threads : ApplyingAt(task'[u]) => u # t /\ task'[u] = task[u]
    OBVIOUS
  <1>3. \A u \in Threads : ApplyingAt(task[u]) => u # t /\ task'[u] = task[u]
    OBVIOUS
  <1>4. \A u \in Threads : AppliedAt(task'[u], specs)
    BY <1>1 DEF ActiveInv
  <1>5. /\ \A u, v \in Threads : ApplyingAt(task'[u]) /\ ApplyingAt(task'[v]) => u = v
        /\ (\A u \in Threads : ~ApplyingAt(task'[u])) => Truth(specs, active)
    BY <1>2, <1>3 DEF ActiveInv
  <1>6. \A u \in Threads : task'[u].pc = "specs" /\ task'[u].todo = SpecOrder =>
                             Truth(specs, active)
    BY <1>1 DEF ActiveInv
  <1> QED
    BY <1>4, <1>5, <1>6 DEF ActiveInv

(* A step of the task t that is applying a pack.                            *)
LEMMA ActiveGoes ==
  ASSUME ActiveInv, NEW t \in Threads, ApplyingAt(task[t]), ~mixed,
         \A u \in Threads \ {t} : task'[u] = task[u],
         DOMAIN specs' = SpecTypes,
         AppliedAt(task'[t], specs'),
         task'[t].pc = "specs" => task'[t].todo # SpecOrder,
         ~ApplyingAt(task'[t]) => Truth(specs', active')
  PROVE  ActiveInv'
  <1>1. \A u \in Threads \ {t} : ~ApplyingAt(task[u])
    BY DEF ActiveInv
  <1>2. \A u \in Threads \ {t} : ~ApplyingAt(task'[u])
    BY <1>1
  <1>3. \A u \in Threads \ {t} : task'[u].pc # "specs" /\ AppliedAt(task'[u], specs')
    BY <1>2 DEF ApplyingAt, ActivatingAt, AppliedAt, OfPack, InPublication
  <1>4. \A u \in Threads : AppliedAt(task'[u], specs')
    BY <1>3
  <1>5. \A u \in Threads : ~(task'[u].pc = "specs" /\ task'[u].todo = SpecOrder)
    BY <1>3
  <1>6. /\ \A u, v \in Threads : ApplyingAt(task'[u]) /\ ApplyingAt(task'[v]) => u = v
        /\ (\A u \in Threads : ~ApplyingAt(task'[u])) => Truth(specs', active')
    BY <1>2
  <1> QED
    BY <1>4, <1>5, <1>6 DEF ActiveInv

LEMMA ActivationStep ==
  ASSUME Flow, ActiveInv, NEW t \in Threads, PackStep(t), ~mixed'
  PROVE  ActiveInv'
  <1>1. FlowAt(task[t]) /\ (ApplyingAt(task[t]) <=> ~At(t, "read_active") /\ Activating(t))
        /\ DOMAIN specs = SpecTypes
    BY ActivatingMeans DEF Flow, ApplyingAt, At, ActiveInv
  <1>2. Alone(t)
    BY PackAside, BeginsPublication DEF Aside
  <1>3. (\A u \in Threads \ {t} : task'[u] = task[u]) /\ FlowAt(task'[t])
    BY <1>2 DEF Alone
  <1>4. ASSUME NEW pc \in {"idle", "run"}, Goto(t, pc)
        PROVE  task'[t].pc = pc /\ ~ApplyingAt(task'[t])
    <2>1. task'[t].pc = pc
      BY <1>4, Goes DEF InPublication, OfPack
    <2> QED
      BY <1>4, <2>1 DEF ApplyingAt, ActivatingAt, OfPack, InPublication
  <1>5. Ends(t) \in {"idle", "run"}
    BY DEF Ends
  <1>6. CASE ActivateBegins(t)
    <2>1. /\ ~mixed /\ (\A u \in Others(t) : ~Activating(u))
          /\ UNCHANGED <<specs, active>> /\ task[t].pc = "read_active"
      BY <1>6, OrStays DEF ActivateBegins, At
    <2>2. /\ \A u \in Threads : ~ApplyingAt(task[u])
      BY <2>1, ActivatingMeans DEF Others, ApplyingAt
    <2>3. CASE content[task[t].item] = 0
      <3>1. ~ApplyingAt(task'[t])
        BY <1>4, <1>5, <1>6, <2>3 DEF ActivateBegins
      <3> QED
        BY <1>3, <2>1, <2>2, <3>1, ActiveStays
    <2>4. CASE content[task[t].item] # 0
      <3>1. task' = [task EXCEPT ![t].pc = "specs", ![t].todo = SpecOrder]
        BY <1>6, <2>4 DEF ActivateBegins
      <3>2. task'[t].pc = "specs" /\ task'[t].todo = SpecOrder
        BY <1>1, <3>1 DEF Flow, FlowAt, Fields
      <3>3. Truth(specs, active)
        BY <2>1, <2>2 DEF ActiveInv
      <3>4. /\ SpecOrder \in Seq(SpecTypes) /\ Len(SpecOrder) <= Len(SpecOrder)
            /\ \A s \in SpecTypes : \E i \in 1 .. Len(SpecOrder) : SpecOrder[i] = s
        BY SpecOrderAssumption DEF SpecTypes
      <3>5. AppliedAt(task'[t], specs)
        BY <3>2, <3>4 DEF AppliedAt, InPublication
      <3>6. \A u \in Threads : u # t =>
              ~ApplyingAt(task'[u]) /\ AppliedAt(task'[u], specs)
        BY <1>3, <2>1, <2>2 DEF ActiveInv
      <3>7. ApplyingAt(task'[t])
        BY <3>2 DEF ApplyingAt, ActivatingAt, OfPack
      <3> QED
        BY <1>1, <2>1, <3>3, <3>5, <3>6, <3>7 DEF ActiveInv
    <2> QED
      BY <2>3, <2>4
  <1>7. ASSUME At(t, "specs") \/ At(t, "record") \/ At(t, "unrecorded"), mixed' = mixed
        PROVE  ApplyingAt(task[t]) /\ ~mixed /\ AppliedAt(task[t], specs)
    BY <1>7 DEF At, ApplyingAt, ActivatingAt, OfPack, ActiveInv
  <1>8. CASE ActivateApplies(t)
    <2> DEFINE s == Head(task[t].todo)
    <2>1. /\ specs' = [specs EXCEPT ![s] = Version(task[t].item, content[task[t].item])]
          /\ task' = [task EXCEPT ![t].todo = Tail(task[t].todo)]
          /\ task[t].pc = "specs" /\ task[t].todo # <<>> /\ mixed' = mixed
      BY <1>8 DEF ActivateApplies, AppliedSpec, At
    <2>2. ApplyingAt(task[t]) /\ ~mixed /\ AppliedAt(task[t], specs)
      BY <1>7, <2>1 DEF At
    <2>3. PICK todo \in Seq(SpecTypes) :
            /\ todo = task[t].todo /\ todo # <<>> /\ Len(todo) <= Len(SpecOrder)
            /\ \A r \in SpecTypes :
                 specs[r].pack = task[t].item \/ \E i \in 1 .. Len(todo) : todo[i] = r
      BY <2>1, <2>2 DEF AppliedAt
    <2>4. /\ Tail(todo) \in Seq(SpecTypes) /\ Len(Tail(todo)) = Len(todo) - 1
          /\ Head(todo) = todo[1] /\ Head(todo) \in SpecTypes
          /\ \A i \in 1 .. Len(todo) - 1 : Tail(todo)[i] = todo[i + 1]
          /\ Len(todo) \in Nat
      BY <2>3
    <2>5. Len(SpecOrder) \in Nat /\ Tail(todo) # SpecOrder
      BY <2>3, <2>4, SpecOrderAssumption
    <2>6. /\ task'[t].pc = "specs" /\ task'[t].todo = Tail(todo)
          /\ task'[t].item = task[t].item /\ task'[t].op = task[t].op
      BY <1>1, <2>1, <2>3 DEF Flow, FlowAt, Fields
    <2>7. /\ DOMAIN specs' = SpecTypes
          /\ specs'[s].pack = task[t].item
          /\ \A r \in SpecTypes : r # s => specs'[r] = specs[r]
      BY <1>1, <2>1, <2>3, <2>4 DEF Version
    <2>8. \A r \in SpecTypes :
            specs'[r].pack = task[t].item \/ \E i \in 1 .. Len(Tail(todo)) : Tail(todo)[i] = r
      <3> SUFFICES ASSUME NEW r \in SpecTypes, r # s, specs[r].pack # task[t].item
                   PROVE  \E i \in 1 .. Len(Tail(todo)) : Tail(todo)[i] = r
        BY <2>7
      <3>1. PICK i \in 1 .. Len(todo) : todo[i] = r
        BY <2>3
      <3>2. i # 1
        BY <2>3, <2>4, <3>1
      <3>3. i - 1 \in 1 .. Len(Tail(todo)) /\ Tail(todo)[i - 1] = r
        BY <2>4, <3>1, <3>2
      <3> QED
        BY <3>3
    <2>9. AppliedAt(task'[t], specs')
      BY <2>3, <2>4, <2>6, <2>8 DEF AppliedAt, InPublication
    <2>10. ApplyingAt(task'[t])
      BY <2>6 DEF ApplyingAt, ActivatingAt, OfPack
    <2> QED
      BY <1>3, <2>2, <2>5, <2>6, <2>7, <2>9, <2>10, ActiveGoes
  <1>9. CASE ActivateRaises(t)
    <2>1. /\ ~mixed /\ task[t].todo = SpecOrder /\ task[t].pc = "specs"
          /\ UNCHANGED <<specs, active>> /\ Goto(t, Ends(t))
      BY <1>9, OrStays DEF ActivateRaises, At
    <2>2. Truth(specs, active) /\ ApplyingAt(task[t])
      BY <2>1 DEF ActiveInv, ApplyingAt, ActivatingAt, OfPack
    <2>3. task'[t].pc \in {"idle", "run"} /\ ~ApplyingAt(task'[t])
      BY <1>4, <1>5, <2>1
    <2>4. AppliedAt(task'[t], specs')
      BY <2>3 DEF AppliedAt, InPublication
    <2>5. DOMAIN specs' = SpecTypes /\ Truth(specs', active')
      BY <1>1, <2>1, <2>2
    <2> QED
      BY <1>3, <2>1, <2>2, <2>3, <2>4, <2>5, ActiveGoes
  <1>10. ASSUME At(t, "specs"), task[t].todo = <<>>, mixed' = mixed
         PROVE  /\ ApplyingAt(task[t]) /\ ~mixed
                /\ \A s \in SpecTypes : specs[s].pack = task[t].item
    <2>1. ApplyingAt(task[t]) /\ ~mixed /\ AppliedAt(task[t], specs)
      BY <1>7, <1>10
    <2>2. \A i \in 1 .. Len(task[t].todo) : FALSE
      BY <1>10
    <2> QED
      BY <1>10, <2>1, <2>2 DEF AppliedAt, At
  <1>11. CASE ActivateGrants(t)
    <2>1. /\ At(t, "specs") /\ task[t].todo = <<>> /\ UNCHANGED <<specs, active, mixed>>
      BY <1>11 DEF ActivateGrants, packVars
    <2>2. ApplyingAt(task[t]) /\ ~mixed /\ \A s \in SpecTypes : specs[s].pack = task[t].item
      BY <1>10, <2>1
    <2>3. /\ task'[t].pc = "publish" /\ task'[t].item = task[t].item
          /\ task'[t].op = task[t].op
      BY <1>1, <1>11 DEF ActivateGrants, Flow, FlowAt, Fields
    <2>4. ApplyingAt(task'[t]) /\ AppliedAt(task'[t], specs')
      <3>1. task[t].op \in Activation
        BY <1>1, <2>1 DEF At, FlowAt, OfPack
      <3> QED
        BY <2>1, <2>2, <2>3, <3>1 DEF ApplyingAt, ActivatingAt, AppliedAt, InPublication
    <2>5. DOMAIN specs' = SpecTypes
      BY <1>1, <2>1
    <2> QED
      BY <1>3, <2>2, <2>3, <2>4, <2>5, ActiveGoes
  <1>12. CASE ActivateNoDelta(t)
    <2>1. /\ At(t, "specs") /\ task[t].todo = <<>> /\ UNCHANGED <<specs, active, mixed>>
          /\ Goto(t, "record")
      BY <1>12 DEF ActivateNoDelta, packVars
    <2>2. ApplyingAt(task[t]) /\ ~mixed /\ \A s \in SpecTypes : specs[s].pack = task[t].item
      BY <1>10, <2>1
    <2>3. /\ task'[t].pc = "record" /\ task'[t].item = task[t].item
      BY <1>1, <2>1 DEF Goto, Flow, FlowAt, Fields
    <2>4. ApplyingAt(task'[t]) /\ AppliedAt(task'[t], specs')
      BY <2>1, <2>2, <2>3 DEF ApplyingAt, ActivatingAt, AppliedAt, OfPack
    <2>5. DOMAIN specs' = SpecTypes
      BY <1>1, <2>1
    <2> QED
      BY <1>3, <2>2, <2>3, <2>4, <2>5, ActiveGoes
  <1>13. CASE ActivateUnrecorded(t)
    BY <1>13 DEF ActivateUnrecorded
  <1>14. CASE ActivateRecords(t)
    <2>1. /\ At(t, "record") /\ UNCHANGED <<specs, mixed>> /\ Goto(t, Ends(t))
          /\ active' = [pack |-> task[t].item, specs |-> specs]
      BY <1>14 DEF ActivateRecords
    <2>2. ApplyingAt(task[t]) /\ ~mixed /\ AppliedAt(task[t], specs)
      BY <1>7, <2>1
    <2>3. \A s \in SpecTypes : specs[s].pack = task[t].item
      BY <2>1, <2>2 DEF AppliedAt, At
    <2>4. active'.pack = task[t].item /\ active'.specs = specs
      BY <2>1
    <2>5. Truth(specs', active') /\ DOMAIN specs' = SpecTypes
      BY <1>1, <2>1, <2>3, <2>4 DEF Truth
    <2>6. task'[t].pc \in {"idle", "run"} /\ ~ApplyingAt(task'[t])
      BY <1>4, <1>5, <2>1
    <2>7. AppliedAt(task'[t], specs')
      BY <2>6 DEF AppliedAt, InPublication
    <2> QED
      BY <1>3, <2>2, <2>5, <2>6, <2>7, ActiveGoes
  <1> QED
    BY <1>6, <1>8, <1>9, <1>11, <1>12, <1>13, <1>14 DEF PackStep

(* A publication: an activation goes through it with its specifications     *)
(* applied.                                                                 *)
LEMMA ActivePublishes ==
  ASSUME Flow, ActiveInv, NEW t \in Threads, PublishStep(t), UNCHANGED packVars, ~mixed'
  PROVE  ActiveInv'
  <1>1. FlowAt(task[t]) /\ UNCHANGED <<specs, active, mixed>> /\ DOMAIN specs = SpecTypes
    BY DEF Flow, packVars, ActiveInv
  <1>2. CASE Sign(t)
    <2>1. /\ Alone(t) /\ task'[t].pc \in {"idle", "publish"}
          /\ task'[t].op = "none" \/ task'[t].op \notin Activation
      <3>1. ~ActivateGrants(t)
        BY <1>2 DEF Sign, ActivateGrants, At
      <3> QED
        BY <1>2, <3>1, BeginsPublication
    <2>2. ~ApplyingAt(task[t]) /\ ~ApplyingAt(task'[t])
      BY <1>2, <2>1 DEF Sign, At, ApplyingAt, ActivatingAt, OfPack, InPublication, Activation
    <2> QED
      BY <1>1, <2>1, <2>2, ActiveStays DEF Alone
  <1>3. CASE ~Sign(t)
    <2>1. task[t].pc \in InPublication
      BY <1>3 DEF PublishStep, PublishReads, PublishRaises, PublishTruncates,
         PublishWrites, PublishRecords, At, InPublication
    <2>2. /\ Alone(t)
          /\ task'[t].pc \notin InPublication =>
               task'[t].pc = task[t].then \/ task'[t].pc = task[t].orelse
          /\ task'[t].pc \in InPublication \cup OfPack =>
               task'[t].op = task[t].op /\ task'[t].item = task[t].item
      BY <2>1, Publishes
    <2>3. CASE task[t].op \in Activation
      <3>1. task[t].then = "record" /\ task[t].orelse = "unrecorded"
        BY <1>1, <2>1, <2>3 DEF FlowAt
      <3>2. ApplyingAt(task[t]) /\ ~mixed /\ \A s \in SpecTypes : specs[s].pack = task[t].item
        BY <1>1, <2>1, <2>3 DEF ApplyingAt, ActivatingAt, ActiveInv, AppliedAt, InPublication
      <3>3. /\ task'[t].pc \in InPublication \cup {"record", "unrecorded"}
            /\ task'[t].op = task[t].op /\ task'[t].item = task[t].item
        BY <2>2, <3>1 DEF OfPack
      <3>4. ApplyingAt(task'[t]) /\ AppliedAt(task'[t], specs') /\ task'[t].pc # "specs"
        BY <1>1, <2>3, <3>2, <3>3 DEF ApplyingAt, ActivatingAt, AppliedAt, OfPack,
           InPublication
      <3>5. DOMAIN specs' = SpecTypes
        BY <1>1
      <3> QED
        BY <2>2, <3>2, <3>4, <3>5, ActiveGoes DEF Alone
    <2>4. CASE task[t].op \notin Activation
      <3>1. task[t].then \in {"idle", "reload"} /\ task[t].orelse = "idle"
        BY <1>1, <2>1, <2>4 DEF FlowAt
      <3>2. ~ApplyingAt(task[t]) /\ ~ApplyingAt(task'[t])
        BY <2>1, <2>2, <2>4, <3>1 DEF ApplyingAt, ActivatingAt, OfPack, InPublication
      <3> QED
        BY <1>1, <2>2, <3>2, ActiveStays DEF Alone
    <2> QED
      BY <2>3, <2>4
  <1> QED
    BY <1>2, <1>3

LEMMA StepActive ==
  ASSUME Flow, ActiveInv, [Next]_vars
  PROVE  ActiveInv'
  <1>1. CASE UNCHANGED <<task, packVars>>
    BY <1>1 DEF packVars, ActiveInv
  <1>2. ASSUME mixed' PROVE ActiveInv'
    <2>1. ASSUME NEW t \in Threads, PackStep(t)
          PROVE  DOMAIN specs' = SpecTypes
      <3>1. CASE ActivateApplies(t)
        BY <3>1 DEF ActivateApplies, AppliedSpec, ActiveInv
      <3>2. CASE ~ActivateApplies(t)
        <4>1. specs' = specs
          BY <2>1, <3>2 DEF PackStep, ActivateBegins, ActivateRaises, ActivateGrants,
             ActivateNoDelta, ActivateUnrecorded, ActivateRecords, packVars
        <4> QED
          BY <4>1 DEF ActiveInv
      <3> QED
        BY <3>1, <3>2
    <2>2. ASSUME NEW t \in Threads, StudioStep(t)
          PROVE  specs' = specs
      BY <2>2, StudioAside DEF Grants, packVars
    <2>3. ASSUME NEW t \in Threads,
                 \/ \E op \in {"save", "test", "promote"}, i \in Items, force \in BOOLEAN :
                      StudioRoute(t, op, i, force)
                 \/ \E p \in Packs : PackRoute(t, p)
                 \/ PolicyCommand(t)
                 \/ Dies(t)
          PROVE  specs' = specs
      BY <2>3 DEF StudioRoute, PackRoute, PolicyCommand, packVars, Dies, PackDies
    <2>4. UNCHANGED packVars => specs' = specs
      BY DEF packVars
    <2>5. DOMAIN specs' = SpecTypes
      BY <2>1, <2>2, <2>3, <2>4, StepsOfTasks DEF TaskNext, ActiveInv
    <2> QED
      BY <1>2, <2>5 DEF ActiveInv
  <1> SUFFICES ASSUME ~mixed' PROVE ActiveInv'
    BY <1>2
  <1>3. ASSUME NEW t \in Threads,
               \/ \E op \in {"save", "test", "promote"}, i \in Items, force \in BOOLEAN :
                    StudioRoute(t, op, i, force)
               \/ \E p \in Packs : PackRoute(t, p)
               \/ PolicyCommand(t)
        PROVE  ActiveInv'
    <2>1. UNCHANGED <<specs, active, mixed>> /\ Idle(t)
      BY <1>3 DEF StudioRoute, PackRoute, PolicyCommand, Asked, packVars
    <2>2. DOMAIN task = Threads
      BY DEF Flow
    <2>3. task'[t].pc \in {"start", "read_active"}
      <3>1. ASSUME NEW op \in {"save", "test", "promote"}, NEW i \in Items,
                   NEW force \in BOOLEAN, StudioRoute(t, op, i, force)
            PROVE  task'[t].pc = "start"
        BY <2>2, <3>1 DEF StudioRoute, AtRest
      <3>2. ASSUME NEW p \in Packs, PackRoute(t, p)
            PROVE  task'[t].pc = "read_active"
        BY <2>2, <3>2 DEF PackRoute, AtRest
      <3>3. ASSUME PolicyCommand(t)
            PROVE  task'[t].pc = "start"
        BY <2>2, <3>3 DEF PolicyCommand, AtRest
      <3> QED
        BY <1>3, <3>1, <3>2, <3>3
    <2>4. Alone(t)
      BY <1>3, RoutesAside DEF Aside
    <2>5. ~ApplyingAt(task[t]) /\ ~ApplyingAt(task'[t])
      BY <2>1, <2>3 DEF Idle, ApplyingAt, ActivatingAt, OfPack, InPublication
    <2> QED
      BY <2>1, <2>4, <2>5, ActiveStays DEF Alone
  <1>4. ASSUME NEW t \in Threads, StudioStep(t)
        PROVE  ActiveInv'
    <2>1. CASE Grants(t)
      <3>1. /\ Alone(t) /\ task'[t].pc \in {"idle", "publish"}
            /\ task'[t].op = "none" \/ task'[t].op \notin Activation
        <4>1. ~ActivateGrants(t)
          BY <2>1 DEF Grants, ActivateGrants, At
        <4> QED
          BY <2>1, <4>1, BeginsPublication
      <3>2. ~ApplyingAt(task[t]) /\ ~ApplyingAt(task'[t])
            /\ UNCHANGED <<specs, active, mixed>>
        BY <2>1, <3>1 DEF Grants, At, ApplyingAt, ActivatingAt, OfPack, InPublication,
           Activation, packVars
      <3> QED
        BY <3>1, <3>2, ActiveStays DEF Alone
    <2>2. CASE ~Grants(t)
      <3>1. /\ Aside(t) /\ UNCHANGED <<specs, active>> /\ (mixed => mixed')
            /\ task[t].pc \notin OfPack \cup InPublication
            /\ task'[t].pc \in OfPack => task'[t].pc = "read_active"
        BY <1>4, <2>2, StudioAside
      <3>2. ~ApplyingAt(task[t]) /\ ~ApplyingAt(task'[t])
        BY <3>1 DEF Aside, ApplyingAt, ActivatingAt, InPublication
      <3> QED
        BY <3>1, <3>2, ActiveStays DEF Aside, Alone
    <2> QED
      BY <2>1, <2>2
  <1>5. ASSUME NEW t \in Threads, Dies(t)
        PROVE  ActiveInv'
    <2>1. /\ ~mixed /\ (\A u \in Killed(t) : ~Activating(u))
          /\ UNCHANGED <<specs, active>>
      BY <1>5, OrStays DEF Dies, PackDies
    <2>2. \A u \in Threads : task'[u] # task[u] =>
             ~ApplyingAt(task[u]) /\ task'[u] = AtRest
      BY <1>5, <2>1, DeathOfTasks, ActivatingMeans DEF Killed, ApplyingAt
    <2>3. ~ApplyingAt(AtRest) /\ AppliedAt(AtRest, specs) /\ AtRest.pc # "specs"
      BY AtRestFlows DEF ApplyingAt, ActivatingAt, AppliedAt, OfPack, InPublication
    <2>4. /\ \A u, v \in Threads : ApplyingAt(task'[u]) /\ ApplyingAt(task'[v]) => u = v
          /\ (\A u \in Threads : ~ApplyingAt(task'[u])) => Truth(specs, active)
      BY <2>1, <2>2, <2>3 DEF ActiveInv
    <2>5. \A u \in Threads :
            /\ AppliedAt(task'[u], specs)
            /\ task'[u].pc = "specs" /\ task'[u].todo = SpecOrder => Truth(specs, active)
      BY <2>1, <2>2, <2>3 DEF ActiveInv
    <2> QED
      BY <2>1, <2>4, <2>5 DEF ActiveInv
  <1> QED
    BY <1>1, <1>3, <1>4, <1>5, StepsOfTasks, ActivationStep, ActivePublishes DEF TaskNext

(* active_pack.json names the pack whose specifications are in force, and   *)
(* has their hashes, between activations that neither failed half-way nor   *)
(* met: for any threads, packs and specifications (pack_install.py,         *)
(* activate_pack).                                                          *)
THEOREM RecordIsTrue == Spec => []ActiveInForce
  <1>1. Init => Flow /\ ActiveInv
    BY InitFlow, InitActive
  <1>2. Flow /\ ActiveInv /\ [Next]_vars => Flow' /\ ActiveInv'
    BY StepFlow, StepActive
  <1>3. Flow /\ ActiveInv => ActiveInForce
    BY ActivatingMeans DEF ActiveInv, ActiveInForce, ApplyingAt, Truth
  <1> QED
    BY <1>1, <1>2, <1>3, PTL DEF Spec
-----------------------------------------------------------------------------
Deciding == {"publish", "signed"}
Holding == {"signed", "truncated", "written"}

(* The documents: each publication has one of its own, which nobody has     *)
(* seen before it is in the file.                                           *)
Numbered ==
  /\ docs \in Nat
  /\ policy.id \in 0 .. docs
  /\ policy # Torn => policy.id # 0
  /\ DOMAIN grants = Processes
  /\ \A p \in Processes : /\ DOMAIN grants[p] = {"trusted", "agents", "doc"}
                          /\ grants[p].doc \in 0 .. docs
                          /\ grants[p].trusted => grants[p].doc # 0
  /\ \A t \in Threads : task[t].pc \in Deciding =>
       task[t].base \in Int \ {0} /\ task[t].base <= docs
  /\ \A t \in Threads : task[t].pc \in Holding =>
       /\ task[t].doc.id \in 1 .. docs
       /\ task[t].doc.agents = task[t].agents
       /\ \A u \in Threads \ {t} : task[u].pc \in Holding =>
            task[u].doc.id # task[t].doc.id

Unseen(d) ==
  /\ policy.id # d
  /\ \A p \in Processes : grants[p].doc # d
  /\ \A u \in Threads : task[u].pc \in Deciding => task[u].base # d

Documents ==
  /\ Numbered
  /\ \A t \in Threads :
       /\ task[t].pc \in {"signed", "truncated"} => Unseen(task[t].doc.id)
       /\ task[t].pc = "written" /\ policy.id = task[t].doc.id =>
            policy.agents = task[t].doc.agents

(* What was granted is in the policy, or in the document that is about to   *)
(* be written; what is based on the policy has its grants.                  *)
GrantsInv ==
  ~behind =>
    /\ policy # Torn =>
         /\ granted \subseteq policy.agents
         /\ \A t \in Threads : task[t].pc = "written" =>
              task[t].doc.agents \subseteq policy.agents
         /\ \A t \in Threads : task[t].pc \in Deciding /\ task[t].base = policy.id =>
              policy.agents \subseteq task[t].agents
         /\ \A p \in Processes : grants[p].trusted /\ grants[p].doc = policy.id =>
              policy.agents \subseteq grants[p].agents
    /\ \A t \in Threads : task[t].pc = "truncated" =>
         /\ policy = Torn
         /\ granted \subseteq task[t].doc.agents
         /\ \A u \in Threads : task[u].pc = "written" =>
              task[u].doc.agents \subseteq task[t].doc.agents
         /\ \A u \in Threads : task[u].pc = "truncated" => u = t

PolicyInv == Documents /\ GrantsInv

LEMMA TornIsZero == Torn.id = 0 /\ Torn.agents = {}
  BY DEF Torn, Doc

LEMMA InitPolicy == Init => PolicyInv
  <1> SUFFICES ASSUME Init PROVE PolicyInv
    OBVIOUS
  <1>1. PICK as : PolicyInit(as)
    BY DEF Init, StudioInit
  <1>2. \A t \in Threads : task[t].pc = "idle"
    BY <1>1, AtRestFlows DEF PolicyInit
  <1>3. policy.id = 1 /\ policy.agents = as /\ docs = 1 /\ granted = as
    BY <1>1 DEF PolicyInit, Doc
  <1>4. /\ DOMAIN grants = Processes
        /\ \A p \in Processes : /\ DOMAIN grants[p] = {"trusted", "agents", "doc"}
                                /\ grants[p].doc = 1 /\ grants[p].agents = as
    BY <1>1 DEF PolicyInit
  <1>5. Numbered
    <2>1. docs \in Nat /\ policy.id \in 0 .. docs /\ policy.id # 0 /\ 1 \in 0 .. docs
      BY <1>3
    <2>2. \A t \in Threads : task[t].pc \notin Deciding /\ task[t].pc \notin Holding
      BY <1>2 DEF Deciding, Holding
    <2>3. ASSUME NEW p \in Processes
          PROVE  grants[p].doc \in 0 .. docs /\ grants[p].doc # 0
      <3>1. grants[p].doc = 1
        BY <1>4
      <3> QED
        BY <2>1, <3>1
    <2> QED
      BY <1>4, <2>1, <2>2, <2>3 DEF Numbered
  <1>6. Documents
    BY <1>2, <1>5 DEF Documents
  <1>7. GrantsInv
    BY <1>2, <1>3, <1>4 DEF GrantsInv, Deciding
  <1> QED
    BY <1>6, <1>7 DEF PolicyInv

(* A process that reads the policy, or not.                                 *)
LEMMA LoadedSound ==
  ASSUME Numbered, NEW m, DOMAIN m = {"trusted", "agents", "doc"}, m.doc \in 0 .. docs,
         m.trusted => m.doc # 0
  PROVE  /\ DOMAIN Loaded(m) = {"trusted", "agents", "doc"}
         /\ Loaded(m).doc \in 0 .. docs
         /\ Loaded(m).trusted => Loaded(m).doc # 0
         /\ policy # Torn => Loaded(m).agents = policy.agents
         /\ Loaded(m).doc = m.doc \/ Loaded(m).doc = policy.id
  <1>1. CASE policy = Torn
    BY <1>1 DEF Loaded
  <1>2. CASE policy # Torn
    BY <1>2 DEF Loaded, Numbered
  <1> QED
    BY <1>1, <1>2

LEMMA FreshSound ==
  ASSUME Numbered
  PROVE  /\ DOMAIN Fresh = {"trusted", "agents", "doc"}
         /\ Fresh.doc \in 0 .. docs
         /\ Fresh.trusted => Fresh.doc # 0
         /\ policy # Torn => Fresh.agents = policy.agents
         /\ Fresh.doc = 0 \/ Fresh.doc = policy.id
  <1> DEFINE m == [trusted |-> FALSE, agents |-> {}, doc |-> 0]
  <1>1. DOMAIN m = {"trusted", "agents", "doc"} /\ m.doc = 0 /\ ~m.trusted
    OBVIOUS
  <1>2. m.doc \in 0 .. docs
    BY <1>1 DEF Numbered
  <1>3. Fresh = Loaded(m)
    BY DEF Fresh
  <1> HIDE DEF m
  <1> QED
    BY <1>1, <1>2, <1>3, LoadedSound

(* A memory that is read again, with no task in a publication.              *)
Refreshed ==
  /\ DOMAIN grants' = Processes
  /\ \A p \in Processes : \/ grants'[p] = grants[p]
                          \/ /\ DOMAIN grants'[p] = {"trusted", "agents", "doc"}
                             /\ grants'[p].doc \in 0 .. docs
                             /\ grants'[p].trusted => grants'[p].doc # 0
                             /\ policy # Torn => grants'[p].agents = policy.agents
                             /\ grants'[p].doc \in {0, policy.id, grants[p].doc}

(* The tasks that publish go on as they were, or stop.                      *)
LEMMA PolicyStays ==
  ASSUME PolicyInv, UNCHANGED <<policy, docs, granted, behind>>, Refreshed,
         \A u \in Threads : task'[u] = task[u] \/ task'[u].pc \notin InPublication
  PROVE  PolicyInv'
  <1>1. /\ \A u \in Threads : task'[u].pc \in InPublication => task'[u] = task[u]
        /\ Numbered
    BY DEF PolicyInv, Documents
  <1>2. Deciding \subseteq InPublication /\ Holding \subseteq InPublication
        /\ "written" \in InPublication /\ "truncated" \in InPublication
    BY DEF Deciding, Holding, InPublication
  <1>3. Numbered'
    <2>1. \A p \in Processes : /\ DOMAIN grants'[p] = {"trusted", "agents", "doc"}
                               /\ grants'[p].doc \in 0 .. docs
                               /\ grants'[p].trusted => grants'[p].doc # 0
      BY <1>1 DEF Numbered, Refreshed
    <2>2. \A t \in Threads : task'[t].pc \in Deciding => task'[t].base \in Int \ {0} /\ task'[t].base <= docs
      BY <1>1, <1>2 DEF Numbered
    <2>3. \A t \in Threads : task'[t].pc \in Holding =>
            /\ task'[t].doc.id \in 1 .. docs
            /\ task'[t].doc.agents = task'[t].agents
            /\ \A u \in Threads \ {t} : task'[u].pc \in Holding =>
                 task'[u].doc.id # task'[t].doc.id
      BY <1>1, <1>2 DEF Numbered
    <2> QED
      BY <1>1, <2>1, <2>2, <2>3 DEF Numbered, Refreshed
  <1>4. ASSUME NEW t \in Threads, task'[t].pc \in {"signed", "truncated"}
        PROVE  Unseen(task[t].doc.id)' /\ task'[t] = task[t]
    <2>1. task'[t] = task[t] /\ Unseen(task[t].doc.id) /\ task[t].doc.id # 0
      BY <1>1, <1>2, <1>4 DEF Deciding, Holding, PolicyInv, Documents, Numbered
    <2>2. \A p \in Processes : grants'[p].doc # task[t].doc.id
      BY <2>1 DEF Unseen, Refreshed
    <2>3. \A u \in Threads : task'[u].pc \in Deciding => task'[u].base # task[t].doc.id
      BY <1>1, <1>2, <2>1 DEF Unseen
    <2> QED
      BY <2>1, <2>2, <2>3 DEF Unseen
  <1>5. \A t \in Threads : task'[t].pc = "written" /\ policy.id = task'[t].doc.id =>
          policy.agents = task'[t].doc.agents
    BY <1>1, <1>2 DEF PolicyInv, Documents
  <1>6. Documents'
    BY <1>3, <1>4, <1>5 DEF Documents
  <1>7. ASSUME ~behind PROVE GrantsInv'
    <2>1. ASSUME policy # Torn
          PROVE  /\ granted \subseteq policy.agents
                 /\ \A t \in Threads : task'[t].pc = "written" =>
                      task'[t].doc.agents \subseteq policy.agents
                 /\ \A t \in Threads : task'[t].pc \in Deciding /\ task'[t].base = policy.id =>
                      policy.agents \subseteq task'[t].agents
      BY <1>1, <1>2, <1>7, <2>1 DEF PolicyInv, GrantsInv
    <2>2. ASSUME policy # Torn, NEW p \in Processes, grants'[p].trusted,
                 grants'[p].doc = policy.id
          PROVE  policy.agents \subseteq grants'[p].agents
      <3>1. CASE grants'[p] = grants[p]
        BY <1>7, <2>2, <3>1 DEF PolicyInv, GrantsInv
      <3>2. CASE grants'[p] # grants[p]
        BY <2>2, <3>2 DEF Refreshed
      <3> QED
        BY <3>1, <3>2
    <2>3. \A t \in Threads : task'[t].pc = "truncated" =>
            /\ policy = Torn
            /\ granted \subseteq task'[t].doc.agents
            /\ \A u \in Threads : task'[u].pc = "written" =>
                 task'[u].doc.agents \subseteq task'[t].doc.agents
            /\ \A u \in Threads : task'[u].pc = "truncated" => u = t
      BY <1>1, <1>2, <1>7 DEF PolicyInv, GrantsInv
    <2> QED
      BY <2>1, <2>2, <2>3 DEF GrantsInv
  <1>8. behind' => GrantsInv'
    BY DEF GrantsInv
  <1> QED
    BY <1>6, <1>7, <1>8 DEF PolicyInv

(* A publication begins from a policy, or a memory, that it has read.       *)
LEMMA PolicyBegins ==
  ASSUME PolicyInv, NEW t \in Threads, UNCHANGED <<policy, docs, granted, behind>>,
         \A u \in Threads \ {t} : task'[u] = task[u],
         task'[t].pc = "publish",
         task'[t].base \in Int \ {0} /\ task'[t].base <= docs,
         policy # Torn /\ task'[t].base = policy.id => policy.agents \subseteq task'[t].agents \/ behind,
         \A u \in Threads : task[u].pc \in {"signed", "truncated"} =>
           task'[t].base # task[u].doc.id,
         DOMAIN grants' = Processes,
         \A p \in Processes :
           /\ DOMAIN grants'[p] = {"trusted", "agents", "doc"}
           /\ grants'[p].doc = grants[p].doc
           /\ grants'[p].trusted = grants[p].trusted
           /\ grants[p].agents \subseteq grants'[p].agents
  PROVE  PolicyInv'
  <1>1. Numbered
    BY DEF PolicyInv, Documents
  <1>2. Numbered'
    <2>1. \A u \in Threads : task'[u].pc \in Deciding => task'[u].base \in Int \ {0} /\ task'[u].base <= docs
      BY <1>1 DEF Numbered
    <2>2. \A u \in Threads : task'[u].pc \in Holding =>
            /\ task'[u].doc.id \in 1 .. docs
            /\ task'[u].doc.agents = task'[u].agents
            /\ \A v \in Threads \ {u} : task'[v].pc \in Holding =>
                 task'[v].doc.id # task'[u].doc.id
      BY <1>1 DEF Numbered, Holding
    <2>3. \A p \in Processes : /\ DOMAIN grants'[p] = {"trusted", "agents", "doc"}
                               /\ grants'[p].doc \in 0 .. docs
                               /\ grants'[p].trusted => grants'[p].doc # 0
      BY <1>1 DEF Numbered
    <2> QED
      BY <1>1, <2>1, <2>2, <2>3 DEF Numbered
  <1>3. ASSUME NEW u \in Threads, task'[u].pc \in {"signed", "truncated"}
        PROVE  Unseen(task[u].doc.id)' /\ task'[u] = task[u]
    <2>1. u # t /\ task'[u] = task[u] /\ Unseen(task[u].doc.id)
      BY <1>3 DEF PolicyInv, Documents
    <2>2. \A v \in Threads : task'[v].pc \in Deciding => task'[v].base # task[u].doc.id
      BY <1>3, <2>1 DEF Unseen
    <2> QED
      BY <2>1, <2>2 DEF Unseen
  <1>4. \A u \in Threads : task'[u].pc = "written" /\ policy.id = task'[u].doc.id =>
          policy.agents = task'[u].doc.agents
    BY DEF PolicyInv, Documents
  <1>5. Documents'
    BY <1>2, <1>3, <1>4 DEF Documents
  <1>6. ASSUME ~behind PROVE GrantsInv'
    <2>1. ASSUME policy # Torn
          PROVE  /\ granted \subseteq policy.agents
                 /\ \A u \in Threads : task'[u].pc = "written" =>
                      task'[u].doc.agents \subseteq policy.agents
                 /\ \A u \in Threads : task'[u].pc \in Deciding /\ task'[u].base = policy.id =>
                      policy.agents \subseteq task'[u].agents
                 /\ \A p \in Processes : grants'[p].trusted /\ grants'[p].doc = policy.id =>
                      policy.agents \subseteq grants'[p].agents
      BY <1>6, <2>1 DEF PolicyInv, GrantsInv
    <2>2. \A u \in Threads : task'[u].pc = "truncated" =>
            /\ policy = Torn
            /\ granted \subseteq task'[u].doc.agents
            /\ \A v \in Threads : task'[v].pc = "written" =>
                 task'[v].doc.agents \subseteq task'[u].doc.agents
            /\ \A v \in Threads : task'[v].pc = "truncated" => v = u
      BY <1>6 DEF PolicyInv, GrantsInv
    <2> QED
      BY <2>1, <2>2 DEF GrantsInv
  <1>7. behind' => GrantsInv'
    BY DEF GrantsInv
  <1> QED
    BY <1>5, <1>6, <1>7 DEF PolicyInv

LEMMA ReadsStep ==
  ASSUME Flow, PolicyInv, NEW t \in Threads, PublishReads(t)
  PROVE  PolicyInv'
  <1>1. /\ Numbered /\ FlowAt(task[t]) /\ DOMAIN task = Threads
    BY DEF PolicyInv, Documents, Flow
  <1> DEFINE d == Doc(docs', policy.version + 1, policy.id, task[t].agents)
  <1>2. /\ task[t].pc = "publish" /\ policy # Torn /\ docs' = docs + 1
        /\ UNCHANGED <<policy, grants, granted, behind>>
        /\ task' = [task EXCEPT ![t].pc = "signed", ![t].doc = d]
    BY DEF PublishReads, At
  <1>3. d.id = docs + 1 /\ d.agents = task[t].agents
    BY <1>2 DEF Doc
  <1> HIDE DEF d
  <1>4. /\ task'[t].pc = "signed" /\ task'[t].doc = d
        /\ task'[t].agents = task[t].agents /\ task'[t].base = task[t].base
        /\ \A u \in Threads \ {t} : task'[u] = task[u]
    BY <1>1, <1>2 DEF FlowAt, Fields
  <1>5. /\ docs \in Nat /\ policy.id \in 0 .. docs
        /\ \A p \in Processes : grants[p].doc \in 0 .. docs
        /\ \A u \in Threads : task[u].pc \in Deciding => task[u].base \in Int \ {0} /\ task[u].base <= docs
        /\ \A u \in Threads : task[u].pc \in Holding => task[u].doc.id \in 1 .. docs
        /\ task[t].pc \in Deciding
    BY <1>1, <1>2 DEF Numbered, Deciding
  <1>6. \A u \in Threads : task'[u].pc \in Deciding =>
          /\ task[u].pc \in Deciding /\ task'[u].base = task[u].base
          /\ task'[u].agents = task[u].agents
    BY <1>4, <1>5
  <1>7. \A u \in Threads \ {t} : task[u].pc \in Holding => task[u].doc.id # d.id
    BY <1>3, <1>5
  <1>8. Numbered'
    <2>1. docs' \in Nat /\ policy.id \in 0 .. docs'
      BY <1>2, <1>5
    <2>2. \A p \in Processes : grants[p].doc \in 0 .. docs'
      BY <1>2, <1>5
    <2>3. ASSUME NEW u \in Threads, task'[u].pc \in Deciding
          PROVE  task'[u].base \in Int \ {0} /\ task'[u].base <= docs'
      <3>1. PICK b \in Int \ {0} : b = task[u].base /\ b <= docs /\ task'[u].base = b
        BY <1>5, <1>6, <2>3
      <3> QED
        BY <1>2, <1>5, <3>1
    <2>4. ASSUME NEW u \in Threads, task'[u].pc \in Holding
          PROVE  /\ task'[u].doc.id \in 1 .. docs'
                 /\ task'[u].doc.agents = task'[u].agents
                 /\ \A v \in Threads \ {u} : task'[v].pc \in Holding =>
                      task'[v].doc.id # task'[u].doc.id
      <3>1. CASE u = t
        <4>1. d.id \in 1 .. docs'
          BY <1>2, <1>3, <1>5
        <4>2. \A v \in Threads \ {t} : task'[v].pc \in Holding => task'[v].doc.id # d.id
          BY <1>4, <1>7
        <4> QED
          BY <1>3, <1>4, <3>1, <4>1, <4>2
      <3>2. CASE u # t
        BY <1>1, <1>2, <1>4, <1>5, <1>7, <2>4, <3>2 DEF Numbered
      <3> QED
        BY <3>1, <3>2
    <2> QED
      BY <1>1, <1>2, <2>1, <2>2, <2>3, <2>4 DEF Numbered
  <1>9. ASSUME NEW u \in Threads, task'[u].pc \in {"signed", "truncated"}
        PROVE  Unseen(task[u].doc.id)'
    <2>1. CASE u = t
      <3>1. /\ policy.id # d.id
            /\ \A p \in Processes : grants[p].doc # d.id
            /\ \A v \in Threads : task'[v].pc \in Deciding => task'[v].base # d.id
        BY <1>3, <1>5, <1>6
      <3> QED
        BY <1>2, <1>4, <2>1, <3>1 DEF Unseen
    <2>2. CASE u # t
      <3>1. task'[u] = task[u] /\ Unseen(task[u].doc.id)
        BY <1>4, <1>9, <2>2 DEF PolicyInv, Documents
      <3>2. \A v \in Threads : task'[v].pc \in Deciding => task'[v].base # task[u].doc.id
        BY <1>6, <3>1 DEF Unseen
      <3> QED
        BY <1>2, <3>1, <3>2 DEF Unseen
    <2> QED
      BY <2>1, <2>2
  <1>10. \A u \in Threads : task'[u].pc = "written" /\ policy.id = task'[u].doc.id =>
           policy.agents = task'[u].doc.agents
    BY <1>4 DEF PolicyInv, Documents
  <1>11. Documents'
    BY <1>2, <1>8, <1>9, <1>10 DEF Documents
  <1>12. ASSUME ~behind PROVE GrantsInv'
    <2>a. /\ granted \subseteq policy.agents
          /\ \A u \in Threads : task[u].pc = "written" =>
               task[u].doc.agents \subseteq policy.agents
          /\ \A u \in Threads : task[u].pc \in Deciding /\ task[u].base = policy.id =>
               policy.agents \subseteq task[u].agents
          /\ \A p \in Processes : grants[p].trusted /\ grants[p].doc = policy.id =>
               policy.agents \subseteq grants[p].agents
      BY <1>2, <1>12 DEF PolicyInv, GrantsInv
    <2>b. \A u \in Threads : task'[u].pc \in Deciding /\ task'[u].base = policy.id =>
            policy.agents \subseteq task'[u].agents
      BY <1>6, <2>a
    <2>c. \A u \in Threads : task'[u].pc = "written" =>
            task'[u].doc.agents \subseteq policy.agents
      BY <1>4, <2>a
    <2>1. /\ granted \subseteq policy.agents
          /\ \A u \in Threads : task'[u].pc = "written" =>
               task'[u].doc.agents \subseteq policy.agents
          /\ \A u \in Threads : task'[u].pc \in Deciding /\ task'[u].base = policy.id =>
               policy.agents \subseteq task'[u].agents
          /\ \A p \in Processes : grants[p].trusted /\ grants[p].doc = policy.id =>
               policy.agents \subseteq grants[p].agents
      BY <2>a, <2>b, <2>c
    <2>2. \A u \in Threads : task'[u].pc # "truncated"
      BY <1>2, <1>4, <1>12 DEF PolicyInv, GrantsInv
    <2> QED
      BY <1>2, <2>1, <2>2 DEF GrantsInv
  <1>13. behind' => GrantsInv'
    BY DEF GrantsInv
  <1> QED
    BY <1>2, <1>11, <1>12, <1>13 DEF PolicyInv

(* What the steps that write a document have in common.                     *)
LEMMA Writing ==
  ASSUME Flow, PolicyInv, NEW t \in Threads,
         PublishTruncates(t) \/ PublishWrites(t)
  PROVE  /\ Numbered /\ task[t].pc \in Holding
         /\ \A u \in Threads \ {t} : task'[u] = task[u]
         /\ task'[t].pc = IF PublishTruncates(t) THEN "truncated" ELSE "written"
         /\ task'[t].doc = task[t].doc /\ task'[t].agents = task[t].agents
         /\ task'[t].base = task[t].base
         /\ UNCHANGED <<docs, grants, granted>>
         /\ \A u \in Threads : task'[u].pc \in Deciding => u # t /\ task'[u] = task[u]
         /\ \A u \in Threads : task'[u].pc \in Holding =>
              /\ task[u].pc \in Holding /\ task'[u].doc = task[u].doc
              /\ task'[u].agents = task[u].agents
  <1>1. Numbered /\ FlowAt(task[t]) /\ DOMAIN task = Threads
    BY DEF PolicyInv, Documents, Flow
  <1>2. /\ task[t].pc \in Holding /\ UNCHANGED <<docs, grants, granted>>
        /\ PublishTruncates(t) => task[t].pc = "signed" /\ Goto(t, "truncated")
        /\ PublishWrites(t) => task[t].pc = "truncated" /\ Goto(t, "written")
    BY DEF PublishTruncates, PublishWrites, At, Holding
  <1>3. PICK pc : pc = IF PublishTruncates(t) THEN "truncated" ELSE "written"
    OBVIOUS
  <1>4. task' = [task EXCEPT ![t] = [task[t] EXCEPT !.pc = pc]] /\ pc # "idle"
    BY <1>2, <1>3 DEF Goto
  <1>5. /\ \A u \in Threads \ {t} : task'[u] = task[u]
        /\ task'[t].pc = pc
        /\ task'[t].doc = task[t].doc /\ task'[t].agents = task[t].agents
        /\ task'[t].base = task[t].base
    BY <1>1, <1>4 DEF FlowAt, Fields
  <1>6. pc \notin Deciding
    BY <1>3 DEF Deciding
  <1> QED
    BY <1>1, <1>2, <1>3, <1>5, <1>6

LEMMA WritingNumbers ==
  ASSUME Flow, PolicyInv, NEW t \in Threads,
         PublishTruncates(t) \/ PublishWrites(t),
         policy'.id \in 0 .. docs, policy' # Torn => policy'.id # 0
  PROVE  Numbered'
  <1>1. \A u \in Threads : task'[u].pc \in Deciding => task'[u].base \in Int \ {0} /\ task'[u].base <= docs
    BY Writing DEF Numbered
  <1>2. \A u \in Threads : task'[u].pc \in Holding =>
          /\ task'[u].doc.id \in 1 .. docs
          /\ task'[u].doc.agents = task'[u].agents
          /\ \A v \in Threads \ {u} : task'[v].pc \in Holding =>
               task'[v].doc.id # task'[u].doc.id
    BY Writing DEF Numbered
  <1> QED
    BY <1>1, <1>2, Writing DEF Numbered

LEMMA TruncatesStep ==
  ASSUME Flow, PolicyInv, NEW t \in Threads, PublishTruncates(t)
  PROVE  PolicyInv'
  <1>1. /\ policy' = Torn /\ task[t].pc = "signed" /\ task'[t].pc = "truncated"
        /\ behind' = (behind \/ policy.id # task[t].base)
    BY Writing DEF PublishTruncates, At
  <1>2. /\ \A u \in Threads \ {t} : task'[u] = task[u]
        /\ task'[t].doc = task[t].doc /\ Numbered /\ task[t].pc \in Holding
        /\ UNCHANGED <<docs, grants, granted>>
        /\ \A u \in Threads : task'[u].pc \in Deciding => u # t /\ task'[u] = task[u]
    BY Writing
  <1>3. Numbered'
    <2>1. policy'.id \in 0 .. docs
      BY <1>1, <1>2, TornIsZero DEF Numbered
    <2> QED
      BY <1>1, <2>1, WritingNumbers
  <1>4. ASSUME NEW u \in Threads, task'[u].pc \in {"signed", "truncated"}
        PROVE  Unseen(task[u].doc.id)'
    <2>1. task'[u].doc = task[u].doc /\ Unseen(task[u].doc.id) /\ task[u].doc.id # 0
      BY <1>1, <1>2, <1>4 DEF PolicyInv, Documents, Numbered, Holding
    <2> QED
      BY <1>1, <1>2, <2>1, TornIsZero DEF Unseen
  <1>5. \A u \in Threads : task'[u].pc = "written" => task'[u].doc.id # 0
    BY <1>1, <1>2 DEF Numbered, Holding
  <1>6. Documents'
    BY <1>1, <1>3, <1>4, <1>5, TornIsZero DEF Documents
  <1>7. ASSUME ~behind' PROVE GrantsInv'
    <2>1. ~behind /\ ~(policy.id # task[t].base)
      BY <1>1, <1>7, OrStays
    <2>2. task[t].base # 0 /\ task[t].doc.agents = task[t].agents
      BY <1>1, <1>2 DEF Numbered, Deciding, Holding
    <2>3. policy # Torn
      BY <2>1, <2>2, TornIsZero
    <2>4. policy.agents \subseteq task[t].doc.agents
      BY <1>1, <2>1, <2>2, <2>3 DEF PolicyInv, GrantsInv, Deciding
    <2>5. /\ granted \subseteq task[t].doc.agents
          /\ \A u \in Threads : task[u].pc = "written" =>
               task[u].doc.agents \subseteq task[t].doc.agents
          /\ \A u \in Threads : task[u].pc # "truncated"
      BY <2>1, <2>3, <2>4 DEF PolicyInv, GrantsInv
    <2>6. \A u \in Threads : task'[u].pc = "truncated" =>
            /\ granted \subseteq task'[u].doc.agents
            /\ \A v \in Threads : task'[v].pc = "written" =>
                 task'[v].doc.agents \subseteq task'[u].doc.agents
            /\ \A v \in Threads : task'[v].pc = "truncated" => v = u
      BY <1>1, <1>2, <2>5
    <2> QED
      BY <1>1, <1>2, <2>6 DEF GrantsInv
  <1>8. behind' => GrantsInv'
    BY DEF GrantsInv
  <1> QED
    BY <1>6, <1>7, <1>8 DEF PolicyInv

LEMMA WritesStep ==
  ASSUME Flow, PolicyInv, NEW t \in Threads, PublishWrites(t)
  PROVE  PolicyInv'
  <1>1. /\ policy' = task[t].doc /\ task[t].pc = "truncated" /\ UNCHANGED behind
        /\ ~PublishTruncates(t)
    BY DEF PublishWrites, PublishTruncates, At
  <1>2. /\ \A u \in Threads \ {t} : task'[u] = task[u]
        /\ task'[t].doc = task[t].doc /\ Numbered /\ task[t].pc \in Holding
        /\ task'[t].pc = "written"
        /\ UNCHANGED <<docs, grants, granted>>
        /\ \A u \in Threads : task'[u].pc \in Deciding => u # t /\ task'[u] = task[u]
    BY <1>1, Writing
  <1>3. /\ policy'.id = task[t].doc.id /\ policy'.id # 0 /\ policy'.id \in 0 .. docs
        /\ Unseen(task[t].doc.id)
        /\ \A u \in Threads \ {t} : task[u].pc \in Holding => task[u].doc.id # task[t].doc.id
    BY <1>1, <1>2 DEF PolicyInv, Documents, Numbered
  <1>4. Numbered'
    BY <1>3, WritingNumbers
  <1>5. ASSUME NEW u \in Threads, task'[u].pc \in {"signed", "truncated"}
        PROVE  Unseen(task[u].doc.id)'
    <2>1. /\ u # t /\ task'[u] = task[u] /\ Unseen(task[u].doc.id)
          /\ task[u].pc \in Holding
      BY <1>2, <1>5 DEF PolicyInv, Documents, Holding
    <2>2. policy'.id # task[u].doc.id
      BY <1>3, <2>1
    <2> QED
      BY <1>2, <2>1, <2>2 DEF Unseen
  <1>6. \A u \in Threads : task'[u].pc = "written" /\ policy'.id = task'[u].doc.id =>
          policy'.agents = task'[u].doc.agents
    BY <1>1, <1>2, <1>3 DEF Holding
  <1>7. Documents'
    BY <1>4, <1>5, <1>6 DEF Documents
  <1>8. ASSUME ~behind PROVE GrantsInv'
    <2>1. /\ granted \subseteq task[t].doc.agents
          /\ \A u \in Threads : task[u].pc = "written" =>
               task[u].doc.agents \subseteq task[t].doc.agents
          /\ \A u \in Threads : task[u].pc = "truncated" => u = t
      BY <1>1, <1>8 DEF PolicyInv, GrantsInv
    <2>2. \A u \in Threads : task'[u].pc = "written" =>
            task'[u].doc.agents \subseteq policy'.agents
      BY <1>1, <1>2, <2>1
    <2>3. \A u \in Threads : task'[u].pc # "truncated"
      BY <1>2, <2>1
    <2>4. \A u \in Threads : task'[u].pc \in Deciding => task'[u].base # policy'.id
      BY <1>2, <1>3 DEF Unseen
    <2>5. \A p \in Processes : grants[p].doc # policy'.id
      BY <1>3 DEF Unseen
    <2> QED
      BY <1>1, <1>2, <2>1, <2>2, <2>3, <2>4, <2>5 DEF GrantsInv
  <1>9. behind' => GrantsInv'
    BY DEF GrantsInv
  <1> QED
    BY <1>1, <1>7, <1>8, <1>9 DEF PolicyInv

LEMMA RecordsStep ==
  ASSUME Flow, PolicyInv, NEW t \in Threads, PublishRecords(t)
  PROVE  PolicyInv'
  <1> DEFINE p == Process(t)
             d == task[t].doc
  <1>1. /\ task[t].pc = "written" /\ UNCHANGED <<policy, docs>>
        /\ granted' = granted \cup d.agents
        /\ \/ UNCHANGED <<grants, behind>>
           \/ /\ grants' = [grants EXCEPT ![p].doc = d.id]
              /\ behind' = (behind \/ grants[p].agents # task[t].agents)
    BY DEF PublishRecords, At
  <1>2. /\ Numbered /\ p \in Processes
    BY DEF PolicyInv, Documents, Processes
  <1>3. /\ \A u \in Threads \ {t} : task'[u] = task[u]
        /\ task'[t].pc \notin InPublication
    <2>1. FlowAt(task[t]) /\ Goto(t, task[t].then)
      BY DEF Flow, PublishRecords
    <2>2. /\ task[t].then \notin InPublication \cup {"define", "grant"}
          /\ task[t].then \in OfPack => task[t].op \in Activation
      BY <1>1, <2>1 DEF FlowAt, InPublication, OfPack
    <2> QED
      BY <2>1, <2>2, Goes DEF Alone
  <1>4. \A u \in Threads : task'[u].pc \in InPublication => u # t /\ task'[u] = task[u]
    BY <1>3
  <1>5. Deciding \subseteq InPublication /\ Holding \subseteq InPublication
        /\ "written" \in InPublication /\ "truncated" \in InPublication
    BY DEF Deciding, Holding, InPublication
  <1>6. /\ d.id \in 1 .. docs /\ d.id \in 0 .. docs /\ d.id # 0 /\ d.agents = task[t].agents
        /\ \A u \in Threads \ {t} : task[u].pc \in Holding => task[u].doc.id # d.id
        /\ policy.id = d.id => policy.agents = d.agents
    <2>1. task[t].pc \in Holding
      BY <1>1 DEF Holding
    <2>2. d.id \in 1 .. docs /\ docs \in Nat
      BY <1>2, <2>1 DEF Numbered
    <2> QED
      BY <1>1, <1>2, <2>1, <2>2 DEF Numbered, PolicyInv, Documents
  <1> HIDE DEF p, d
  <1>7. /\ DOMAIN grants' = Processes
        /\ \A q \in Processes :
             /\ DOMAIN grants'[q] = {"trusted", "agents", "doc"}
             /\ grants'[q].trusted = grants[q].trusted
             /\ grants'[q].agents = grants[q].agents
             /\ grants'[q].doc = grants[q].doc \/ grants'[q].doc = d.id
    BY <1>1, <1>2 DEF Numbered
  <1>8. Numbered'
    <2>1. \A q \in Processes : /\ grants'[q].doc \in 0 .. docs
                               /\ grants'[q].trusted => grants'[q].doc # 0
      BY <1>2, <1>6, <1>7 DEF Numbered
    <2>2. \A u \in Threads : task'[u].pc \in Deciding =>
            task'[u].base \in Int \ {0} /\ task'[u].base <= docs
      BY <1>2, <1>4, <1>5 DEF Numbered
    <2>3. \A u \in Threads : task'[u].pc \in Holding =>
            /\ task'[u].doc.id \in 1 .. docs
            /\ task'[u].doc.agents = task'[u].agents
            /\ \A v \in Threads \ {u} : task'[v].pc \in Holding =>
                 task'[v].doc.id # task'[u].doc.id
      BY <1>2, <1>4, <1>5 DEF Numbered
    <2> QED
      BY <1>1, <1>2, <1>7, <2>1, <2>2, <2>3 DEF Numbered
  <1>9. ASSUME NEW u \in Threads, task'[u].pc \in {"signed", "truncated"}
        PROVE  Unseen(task[u].doc.id)'
    <2>1. /\ u # t /\ task'[u] = task[u] /\ Unseen(task[u].doc.id)
          /\ task[u].pc \in Holding
      BY <1>4, <1>9 DEF InPublication, PolicyInv, Documents, Holding
    <2>2. \A q \in Processes : grants'[q].doc # task[u].doc.id
      BY <1>6, <1>7, <2>1 DEF Unseen
    <2>3. \A v \in Threads : task'[v].pc \in Deciding => task'[v].base # task[u].doc.id
      BY <1>4, <1>5, <2>1 DEF Unseen
    <2> QED
      BY <1>1, <2>1, <2>2, <2>3 DEF Unseen
  <1>10. \A u \in Threads : task'[u].pc = "written" /\ policy.id = task'[u].doc.id =>
           policy.agents = task'[u].doc.agents
    BY <1>4, <1>5 DEF PolicyInv, Documents
  <1>11. Documents'
    BY <1>1, <1>8, <1>9, <1>10 DEF Documents
  <1>12. ASSUME ~behind' PROVE GrantsInv'
    <2>1. /\ ~behind
          /\ grants' # grants => ~(grants[p].agents # task[t].agents)
      <3>1. CASE UNCHANGED <<grants, behind>>
        BY <1>12, <3>1
      <3>2. CASE behind' = (behind \/ grants[p].agents # task[t].agents)
        BY <1>12, <3>2, OrStays
      <3> QED
        BY <1>1, <3>1, <3>2
    <2>2. ASSUME policy # Torn
          PROVE  /\ granted' \subseteq policy.agents
                 /\ \A u \in Threads : task'[u].pc = "written" =>
                      task'[u].doc.agents \subseteq policy.agents
                 /\ \A u \in Threads : task'[u].pc \in Deciding /\ task'[u].base = policy.id =>
                      policy.agents \subseteq task'[u].agents
      <3>1. granted \subseteq policy.agents /\ d.agents \subseteq policy.agents
        BY <1>1, <2>1, <2>2 DEF PolicyInv, GrantsInv, d
      <3> QED
        BY <1>1, <1>4, <1>5, <2>1, <2>2, <3>1 DEF PolicyInv, GrantsInv
    <2>3. ASSUME policy # Torn, NEW q \in Processes, grants'[q].trusted,
                 grants'[q].doc = policy.id
          PROVE  policy.agents \subseteq grants'[q].agents
      <3>1. CASE grants'[q].doc = grants[q].doc
        BY <1>7, <2>1, <2>3, <3>1 DEF PolicyInv, GrantsInv
      <3>2. CASE grants'[q].doc # grants[q].doc
        <4>1. q = p /\ grants'[q].doc = d.id /\ grants' # grants
          BY <1>1, <1>2, <1>7, <3>2 DEF Numbered
        <4>2. policy.agents = d.agents /\ grants[p].agents = d.agents
          BY <1>6, <2>1, <2>3, <4>1
        <4> QED
          BY <1>7, <4>1, <4>2
      <3> QED
        BY <3>1, <3>2
    <2>4. ASSUME NEW u \in Threads, task'[u].pc = "truncated"
          PROVE  /\ policy = Torn
                 /\ granted' \subseteq task'[u].doc.agents
                 /\ \A v \in Threads : task'[v].pc = "written" =>
                      task'[v].doc.agents \subseteq task'[u].doc.agents
                 /\ \A v \in Threads : task'[v].pc = "truncated" => v = u
      <3>1. u # t /\ task'[u] = task[u] /\ task[u].pc = "truncated"
        BY <1>4, <1>5, <2>4
      <3>2. /\ policy = Torn /\ granted \subseteq task[u].doc.agents
            /\ d.agents \subseteq task[u].doc.agents
        BY <1>1, <2>1, <3>1 DEF PolicyInv, GrantsInv, d
      <3>3. /\ \A v \in Threads : task'[v].pc = "written" =>
                 task'[v].doc.agents \subseteq task[u].doc.agents
            /\ \A v \in Threads : task'[v].pc = "truncated" => v = u
        BY <1>4, <1>5, <2>1, <3>1 DEF PolicyInv, GrantsInv
      <3> QED
        BY <1>1, <3>1, <3>2, <3>3
    <2> QED
      BY <1>1, <2>2, <2>3, <2>4 DEF GrantsInv
  <1>13. behind' => GrantsInv'
    BY DEF GrantsInv
  <1> QED
    BY <1>11, <1>12, <1>13 DEF PolicyInv

(* Where a publication begins: at a task that signs the memory, saves an    *)
(* agent or activates a pack.                                               *)
LEMMA MemoryBegins ==
  ASSUME Flow, PolicyInv, NEW t \in Threads,
         \/ Sign(t) /\ grants[Process(t)].trusted
         \/ ActivateGrants(t)
  PROVE  PolicyInv'
  <1> DEFINE m == grants[Process(t)]
  <1>1. /\ Numbered /\ FlowAt(task[t]) /\ DOMAIN task = Threads /\ Process(t) \in Processes
    BY DEF PolicyInv, Documents, Flow, Processes
  <1>2. /\ UNCHANGED <<policy, docs, granted, behind>> /\ m.trusted
    BY DEF Sign, At, ActivateGrants, policyVars
  <1>3. /\ DOMAIN m = {"trusted", "agents", "doc"} /\ m.doc \in 0 .. docs /\ m.doc # 0
        /\ docs \in Nat
    BY <1>1, <1>2 DEF Numbered
  <1>4. /\ task'[t].pc = "publish" /\ task'[t].base = m.doc
        /\ m.agents \subseteq task'[t].agents
        /\ \A u \in Threads \ {t} : task'[u] = task[u]
    <2>1. CASE Sign(t)
      BY <1>1, <1>2, <2>1 DEF Sign, At, FlowAt, Fields
    <2>2. CASE ActivateGrants(t)
      <3>1. PICK a : a = Enlarged(m, task[t].item).agents
        OBVIOUS
      <3>2. m.agents \subseteq a
        BY <1>3, <3>1 DEF Enlarged
      <3>3. task' = [task EXCEPT ![t].pc = "publish", ![t].then = "record",
                      ![t].orelse = "unrecorded", ![t].agents = a, ![t].base = m.doc]
        BY <2>2, <3>1 DEF ActivateGrants
      <3> QED
        BY <1>1, <3>2, <3>3 DEF FlowAt, Fields
    <2> QED
      BY <2>1, <2>2
  <1>5. /\ DOMAIN grants' = Processes
        /\ \A p \in Processes :
             /\ DOMAIN grants'[p] = {"trusted", "agents", "doc"}
             /\ grants'[p].doc = grants[p].doc
             /\ grants'[p].trusted = grants[p].trusted
             /\ grants[p].agents \subseteq grants'[p].agents
    <2>1. CASE Sign(t)
      BY <1>1, <2>1 DEF Sign, policyVars, Numbered
    <2>2. CASE ActivateGrants(t)
      <3>1. grants' = [grants EXCEPT ![Process(t)] = Enlarged(m, task[t].item)]
        BY <2>2 DEF ActivateGrants
      <3>2. /\ DOMAIN Enlarged(m, task[t].item) = {"trusted", "agents", "doc"}
            /\ Enlarged(m, task[t].item).doc = m.doc
            /\ Enlarged(m, task[t].item).trusted = m.trusted
            /\ m.agents \subseteq Enlarged(m, task[t].item).agents
        BY <1>3 DEF Enlarged
      <3> QED
        BY <1>1, <3>1, <3>2 DEF Numbered
    <2> QED
      BY <2>1, <2>2
  <1>6. policy # Torn /\ task'[t].base = policy.id =>
          policy.agents \subseteq task'[t].agents \/ behind
    BY <1>1, <1>2, <1>4 DEF PolicyInv, GrantsInv
  <1>7. \A u \in Threads : task[u].pc \in {"signed", "truncated"} =>
          task'[t].base # task[u].doc.id
    BY <1>1, <1>4 DEF PolicyInv, Documents, Unseen
  <1>8. task'[t].base \in Int \ {0} /\ task'[t].base <= docs
    BY <1>3, <1>4
  <1> QED
    BY <1>2, <1>4, <1>5, <1>6, <1>7, <1>8, PolicyBegins

LEMMA FileBegins ==
  ASSUME Flow, PolicyInv, NEW t \in Threads, Grants(t)
  PROVE  PolicyInv'
  <1>1. /\ Numbered /\ FlowAt(task[t]) /\ DOMAIN task = Threads
    BY DEF PolicyInv, Documents, Flow
  <1>2. UNCHANGED <<policy, docs, granted, behind, grants>>
    BY DEF Grants, policyVars
  <1>3. /\ task'[t].pc = "publish"
        /\ task'[t].base = IF policy = Torn THEN -1 ELSE policy.id
        /\ policy.agents \subseteq task'[t].agents
        /\ \A u \in Threads \ {t} : task'[u] = task[u]
    BY <1>1 DEF Grants, FlowAt, Fields
  <1>4. task'[t].base \in Int \ {0} /\ task'[t].base <= docs
    <2>1. docs \in Nat /\ policy.id \in 0 .. docs /\ (policy # Torn => policy.id # 0)
      BY <1>1 DEF Numbered
    <2>2. CASE policy = Torn
      BY <1>3, <2>1, <2>2
    <2>3. CASE policy # Torn
      BY <1>3, <2>1, <2>3
    <2> QED
      BY <2>2, <2>3
  <1>5. ASSUME NEW u \in Threads, task[u].pc \in {"signed", "truncated"}
        PROVE  task'[t].base # task[u].doc.id
    <2>1. task[u].doc.id \in 1 .. docs /\ docs \in Nat /\ policy.id # task[u].doc.id
      BY <1>1, <1>5 DEF Numbered, Holding, PolicyInv, Documents, Unseen
    <2> QED
      BY <1>3, <2>1
  <1>6. \A p \in Processes : DOMAIN grants[p] = {"trusted", "agents", "doc"}
    BY <1>1 DEF Numbered
  <1>7. DOMAIN grants' = Processes
    BY <1>1, <1>2 DEF Numbered
  <1> QED
    BY <1>2, <1>3, <1>4, <1>5, <1>6, <1>7, PolicyBegins

LEMMA StepPolicy ==
  ASSUME Flow, PolicyInv, [Next]_vars
  PROVE  PolicyInv'
  <1>1. Numbered
    BY DEF PolicyInv, Documents
  <1>2. UNCHANGED grants => Refreshed
    BY <1>1 DEF Refreshed, Numbered
  <1>3. ASSUME NEW p \in Processes, grants' = [grants EXCEPT ![p] = Fresh]
        PROVE  Refreshed
    BY <1>1, <1>3, FreshSound DEF Refreshed, Numbered
  <1>4. ASSUME NEW p \in Processes, grants' = [grants EXCEPT ![p] = Loaded(@)]
        PROVE  Refreshed
    <2>1. /\ DOMAIN grants[p] = {"trusted", "agents", "doc"}
          /\ grants[p].doc \in 0 .. docs /\ (grants[p].trusted => grants[p].doc # 0)
      BY <1>1 DEF Numbered
    <2>2. /\ DOMAIN Loaded(grants[p]) = {"trusted", "agents", "doc"}
          /\ Loaded(grants[p]).doc \in 0 .. docs
          /\ Loaded(grants[p]).trusted => Loaded(grants[p]).doc # 0
          /\ policy # Torn => Loaded(grants[p]).agents = policy.agents
          /\ Loaded(grants[p]).doc \in {0, policy.id, grants[p].doc}
      BY <1>1, <2>1, LoadedSound
    <2>3. grants' = [grants EXCEPT ![p] = Loaded(grants[p])]
      BY <1>4
    <2> QED
      BY <1>1, <2>2, <2>3 DEF Refreshed, Numbered
  <1>5. ASSUME NEW t \in Threads, Aside(t), UNCHANGED <<policy, docs, granted, behind>>,
               Refreshed
        PROVE  PolicyInv'
    BY <1>5, PolicyStays DEF Aside, Alone
  <1>6. CASE UNCHANGED <<task, policyVars>>
    BY <1>2, <1>6, PolicyStays DEF policyVars
  <1>7. ASSUME NEW t \in Threads,
               \/ \E op \in {"save", "test", "promote"}, i \in Items, force \in BOOLEAN :
                    StudioRoute(t, op, i, force)
               \/ \E p \in Packs : PackRoute(t, p)
               \/ PolicyCommand(t)
        PROVE  PolicyInv'
    <2>1. /\ UNCHANGED <<policy, docs, granted, behind>>
          /\ UNCHANGED grants \/ grants' = [grants EXCEPT ![t] = Fresh]
      BY <1>7 DEF StudioRoute, PackRoute, PolicyCommand, Started, policyVars
    <2>2. CASE UNCHANGED grants
      BY <1>2, <1>5, <1>7, <2>1, <2>2, RoutesAside
    <2>3. CASE grants' = [grants EXCEPT ![t] = Fresh]
      <3>1. Refreshed
        BY <1>1, <2>3, FreshSound DEF Refreshed, Numbered
      <3> QED
        BY <1>5, <1>7, <2>1, <3>1, RoutesAside
    <2> QED
      BY <2>1, <2>2, <2>3
  <1>8. ASSUME NEW t \in Threads, PublishStep(t)
        PROVE  PolicyInv'
    <2>1. CASE PublishRaises(t)
      <3>1. FlowAt(task[t]) /\ task[t].pc = "publish" /\ Goto(t, task[t].orelse)
            /\ UNCHANGED policyVars
        BY <2>1 DEF Flow, PublishRaises, At
      <3>2. /\ task[t].orelse \notin InPublication \cup {"define", "grant"}
            /\ task[t].orelse \in OfPack => task[t].op \in Activation
        BY <3>1 DEF FlowAt, InPublication, OfPack
      <3>3. Aside(t)
        BY <3>1, <3>2, Goes DEF Aside
      <3> QED
        BY <1>2, <1>5, <3>1, <3>3 DEF policyVars
    <2>2. CASE Sign(t) /\ ~grants[Process(t)].trusted
      <3>1. task' = [task EXCEPT ![t] = AtRest] /\ UNCHANGED policyVars
        BY <2>2 DEF Sign
      <3>2. Aside(t)
        BY <3>1, AtRestFlows DEF Flow, Aside, Alone, InPublication
      <3> QED
        BY <1>2, <1>5, <3>1, <3>2 DEF policyVars
    <2> QED
      BY <1>8, <2>1, <2>2, ReadsStep, TruncatesStep, WritesStep, RecordsStep, MemoryBegins
         DEF PublishStep
  <1>9. ASSUME NEW t \in Threads, PackStep(t)
        PROVE  PolicyInv'
    <2>1. CASE ~ActivateGrants(t)
      BY <1>2, <1>5, <1>9, <2>1, PackAside DEF policyVars
    <2> QED
      BY <2>1, MemoryBegins
  <1>10. ASSUME NEW t \in Threads, StudioStep(t)
         PROVE  PolicyInv'
    <2>1. CASE ~Grants(t)
      <3>1. /\ Aside(t) /\ UNCHANGED <<policy, docs, granted, behind>>
            /\ UNCHANGED grants \/ grants' = [grants EXCEPT ![Process(t)] = Loaded(@)]
        BY <1>10, <2>1, StudioAside
      <3>2. Refreshed
        BY <1>2, <1>4, <3>1 DEF Processes
      <3> QED
        BY <1>5, <3>1, <3>2
    <2> QED
      BY <2>1, FileBegins
  <1>11. ASSUME NEW t \in Threads, Dies(t)
         PROVE  PolicyInv'
    <2>1. /\ UNCHANGED <<policy, docs, granted, behind>>
          /\ grants' = [grants EXCEPT ![Process(t)] = Fresh]
      BY <1>11 DEF Dies, PolicyDies
    <2>2. \A u \in Threads : task'[u] = task[u] \/ task'[u].pc \notin InPublication
      BY <1>11, DeathOfTasks, AtRestFlows DEF InPublication
    <2> QED
      BY <1>3, <2>1, <2>2, PolicyStays DEF Processes
  <1> QED
    BY <1>6, <1>7, <1>8, <1>9, <1>10, <1>11, StepsOfTasks DEF TaskNext

(* An agent that a finished publication granted stays granted by the        *)
(* policy, as long as every publication replaces a policy that its author   *)
(* read: for any threads, agents and packs (capability_policy.py,           *)
(* publish_policy; capability_checker.py; studio_service.py).               *)
THEOREM GrantsAreKept == Spec => []GrantsStand
  <1>1. Init => Flow /\ PolicyInv
    BY InitFlow, InitPolicy
  <1>2. Flow /\ PolicyInv /\ [Next]_vars => Flow' /\ PolicyInv'
    BY StepFlow, StepPolicy
  <1>3. Flow /\ PolicyInv => GrantsStand
    BY DEF PolicyInv, GrantsInv, GrantsStand
  <1> QED
    BY <1>1, <1>2, <1>3, PTL DEF Spec

-----------------------------------------------------------------------------
(* The API keys.                                                            *)
KeyList == Seq([id : KeyIds \cup {DefaultId}, secret : Nat])

KeyFileType == [whole : BOOLEAN, entries : KeyList]

Clerk == [pc : {"idle", "check", "build", "write", "remember"},
          op : {"none", "create", "revoke"},
          id : KeyIds \cup {DefaultId}, secret : Nat, left : KeyList]

KeysTyped ==
  /\ keyFile \in KeyFileType
  /\ keys \in [Processes -> KeyList]
  /\ secrets \in Nat
  /\ clerk \in [Threads -> Clerk]
  /\ issued \subseteq Nat
  /\ revoked \subseteq issued
  /\ \A n \in issued : n <= secrets
  /\ \A t \in Threads : /\ clerk[t].secret <= secrets
                        /\ clerk[t].pc # "idle" => clerk[t].op # "none"

(* A list that lets somebody in and has no identifier twice.                *)
Proper(es) ==
  /\ es # <<>>
  /\ \A i, j \in DOMAIN es : es[i].id = es[j].id => i = j

(* A change has emptied the file and is not remembered yet.                 *)
Changing(s) == s.pc \in {"write", "remember"}

OneClerk ==
  \A t, u \in Threads :
    clerk[t].pc # "idle" /\ clerk[u].pc # "idle" => t = u

(* Before a change opens the file fs, the memory es it goes by is the file. *)
Reads(s, es, fs) ==
  /\ s.pc \in {"check", "build"} => es = fs
  /\ s.pc = "build" => Allowed(s.op, s.id, fs)

(* The list that a change puts in place of the file: with one secret more,  *)
(* that nobody was given before, or with fewer; the secrets in is were      *)
(* issued, those in rs revoked.                                             *)
Replaces(s, fs, is, rs) ==
  Changing(s) =>
    /\ Proper(s.left)
    /\ s.op = "create" => /\ SecretsOf(s.left) = (is \ rs) \cup {s.secret}
                          /\ s.secret \notin rs
    /\ s.op = "revoke" => SecretsOf(s.left) \subseteq is \ rs
    /\ s.pc = "remember" => fs = s.left

KeysInv ==
  ~keysRaced =>
    /\ OneClerk
    /\ (\A t \in Threads : ~Changing(clerk[t])) =>
         /\ Proper(keyFile.entries)
         /\ SecretsOf(keyFile.entries) = issued \ revoked
    /\ \A t \in Threads : /\ Reads(clerk[t], keys[Process(t)], keyFile.entries)
                         /\ Replaces(clerk[t], keyFile.entries, issued, revoked)
    /\ keyFile.whole => keyFile.entries # <<>>

-----------------------------------------------------------------------------
LEMMA ProcessesAre == \A t \in Threads : Process(t) \in Processes
  BY DEF Processes

(* A list with a new key at its end.                                        *)
LEMMA CreatesList ==
  ASSUME NEW es \in KeyList, NEW k \in KeyIds \cup {DefaultId}, NEW s \in Nat
  PROVE  LET r == Append(es, Entry(k, s)) IN
         /\ r \in KeyList
         /\ r # <<>>
         /\ SecretsOf(r) = SecretsOf(es) \cup {s}
         /\ Proper(es) /\ k \notin IdsOf(es) => Proper(r)
  <1> DEFINE r == Append(es, Entry(k, s))
             n == Len(es)
  <1>1. Entry(k, s) \in [id : KeyIds \cup {DefaultId}, secret : Nat]
    BY DEF Entry
  <1>2. r \in KeyList
    BY <1>1 DEF KeyList
  <1>3. /\ n \in Nat /\ DOMAIN es = 1 .. n
        /\ Len(r) = n + 1 /\ DOMAIN r = 1 .. n + 1
        /\ \A i \in 1 .. n : r[i] = es[i]
        /\ r[n + 1].id = k /\ r[n + 1].secret = s
    BY <1>1 DEF KeyList, Entry
  <1> HIDE DEF r, n
  <1>4. r # <<>>
    BY <1>3
  <1>5. 1 .. n + 1 = (1 .. n) \cup {n + 1}
    BY <1>3
  <1>6. SecretsOf(r) = SecretsOf(es) \cup {s}
    <2>1. \A x : x \in SecretsOf(r) <=> \E i \in 1 .. n + 1 : x = r[i].secret
      BY <1>3 DEF SecretsOf
    <2>2. \A x : x \in SecretsOf(es) <=> \E i \in 1 .. n : x = es[i].secret
      BY <1>3 DEF SecretsOf
    <2>3. ASSUME NEW x  PROVE  x \in SecretsOf(r) <=> x \in SecretsOf(es) \cup {s}
      BY <1>3, <1>5, <2>1, <2>2
    <2> QED
      BY <2>3
  <1>7. ASSUME Proper(es), k \notin IdsOf(es)  PROVE  Proper(r)
    <2>1. \A i \in 1 .. n : es[i].id # k
      BY <1>3, <1>7 DEF IdsOf
    <2>2. \A i, j \in 1 .. n : es[i].id = es[j].id => i = j
      BY <1>3, <1>7 DEF Proper
    <2>3. \A i, j \in 1 .. n + 1 : r[i].id = r[j].id => i = j
      BY <1>3, <1>5, <2>1, <2>2
    <2> QED
      BY <1>3, <1>4, <2>3 DEF Proper
  <1> QED
    BY <1>2, <1>4, <1>6, <1>7 DEF r

(* A list without the entries of an identifier.                             *)
LEMMA RevokesList ==
  ASSUME NEW es \in KeyList, NEW k
  PROVE  /\ Without(es, k) \in KeyList
         /\ SecretsOf(Without(es, k)) \subseteq SecretsOf(es)
         /\ Proper(es) /\ Len(es) > 1 => Proper(Without(es, k))
  <1> DEFINE T == {i \in DOMAIN es : es[i].id # k}
             r == Sublist(es, T)
             n == Len(es)
  <1>0. r = Without(es, k)
    BY DEF Without
  <1>1. T \in SUBSET (DOMAIN es) /\ DOMAIN es = 1 .. n /\ n \in Nat
    BY DEF KeyList
  <1>5. \A i \in DOMAIN es : i \in T <=> es[i].id # k
    OBVIOUS
  <1> HIDE DEF T
  <1>2. /\ Cardinality(T) \in Nat
        /\ r \in KeyList /\ Len(r) = Cardinality(T)
        /\ {r[i] : i \in DOMAIN r} = {es[i] : i \in T}
    <2>1. PICK S : KeyList = Seq(S)
      BY DEF KeyList
    <2>2. es \in Seq(S)
      BY <2>1
    <2>3. T \in SUBSET (DOMAIN es)
      BY <1>1
    <2> HIDE DEF r
    <2>4. /\ Cardinality(T) \in Nat
          /\ r \in Seq(S)
          /\ Len(r) = Cardinality(T)
          /\ {r[i] : i \in DOMAIN r} = {es[i] : i \in T}
      BY <2>2, <2>3, SublistIsList, Zenon DEF r
    <2> QED
      BY <2>1, <2>4, Zenon
  <1>3. PICK p : Picks(p, r, es, T)
    BY <1>1, SublistPlaces
  <1>4. DOMAIN r = 1 .. Cardinality(T)
    BY <1>2 DEF KeyList
  <1> HIDE DEF r, n
  <1>6. SecretsOf(r) \subseteq SecretsOf(es)
    <2>1. \A i \in DOMAIN r : \E j \in DOMAIN es : r[i] = es[j]
      BY <1>1, <1>2
    <2> QED
      BY <2>1 DEF SecretsOf
  <1>7. ASSUME Proper(es), n > 1  PROVE  Proper(r)
    <2>1. \A i, j \in DOMAIN es : es[i].id = es[j].id => i = j
      BY <1>7 DEF Proper
    <2>2. 1 \in T \/ 2 \in T
      <3>1. 1 \in DOMAIN es /\ 2 \in DOMAIN es
        BY <1>1, <1>7
      <3>2. es[1].id # es[2].id
        BY <2>1, <3>1
      <3> QED
        BY <1>5, <3>1, <3>2
    <2>3. r # <<>>
      <3>1. \E i : i \in T
        BY <2>2
      <3>2. {es[i] : i \in T} # {}
        BY <3>1
      <3>3. \E i : i \in DOMAIN r
        BY <1>2, <3>2
      <3> QED
        BY <3>3
    <2>4. ASSUME NEW i \in DOMAIN r, NEW j \in DOMAIN r, r[i].id = r[j].id
          PROVE  i = j
      <3>1. /\ p[i] \in T /\ p[j] \in T
            /\ r[i] = es[p[i]] /\ r[j] = es[p[j]]
            /\ i < j => p[i] < p[j]
            /\ j < i => p[j] < p[i]
        BY <1>3, <1>4 DEF Picks
      <3>2. p[i] = p[j] /\ p[i] \in 1 .. n
        BY <1>1, <2>1, <2>4, <3>1
      <3>3. ~(i < j) /\ ~(j < i)
        BY <1>1, <3>1, <3>2
      <3>4. i \in Nat /\ j \in Nat
        BY <1>2, <1>4
      <3> QED
        BY <3>3, <3>4
    <2> QED
      BY <2>3, <2>4 DEF Proper
  <1> QED
    BY <1>0, <1>2, <1>6, <1>7 DEF n

LEMMA BuiltIsList ==
  ASSUME NEW es \in KeyList, NEW k \in KeyIds \cup {DefaultId}, NEW s \in Nat, NEW op
  PROVE  Built(op, k, s, es) \in KeyList
  <1>1. CASE op = "create"
    <2>1. Append(es, Entry(k, s)) \in KeyList
      BY CreatesList
    <2> QED
      BY <1>1, <2>1 DEF Built
  <1>2. CASE op # "create"
    <2>1. Without(es, k) \in KeyList
      BY RevokesList
    <2> QED
      BY <1>2, <2>1 DEF Built
  <1> QED
    BY <1>1, <1>2

-----------------------------------------------------------------------------
(* What a step is to the keys.                                              *)
KeysNext ==
  \/ UNCHANGED keyVars
  \/ \E t \in Threads :
       \/ \E op \in {"create", "revoke"}, k \in KeyIds : KeyRequest(t, op, k)
       \/ Authenticated(t)
       \/ KeyStep(t)
       \/ KeyDies(t)

LEMMA StepsOfKeys == [Next]_vars => KeysNext
  <1> SUFFICES ASSUME [Next]_vars  PROVE  KeysNext
    OBVIOUS
  <1>1. CASE UNCHANGED vars
    BY <1>1 DEF vars, keyVars, KeysNext
  <1>2. ASSUME NEW t \in Threads, Request(t)
        PROVE  KeysNext
    <2>1. ASSUME NEW op, NEW i, NEW force, StudioRoute(t, op, i, force)
          PROVE  Authenticated(t)
      BY <2>1 DEF StudioRoute
    <2>2. ASSUME NEW p, PackRoute(t, p)
          PROVE  Authenticated(t) \/ UNCHANGED keyVars
      BY <2>2 DEF PackRoute
    <2>3. ASSUME PolicyCommand(t)
          PROVE  UNCHANGED keyVars
      BY <2>3 DEF PolicyCommand
    <2>4. ASSUME NEW op, NEW p, NEW f, NEW overwrite, PipelineRoute(t, op, p, f, overwrite)
          PROVE  Authenticated(t)
      BY <2>4 DEF PipelineRoute
    <2>5. ASSUME NEW op, NEW k, KeyRoute(t, op, k)
          PROVE  KeyRequest(t, op, k)
      BY <2>5 DEF KeyRoute
    <2>6. ASSUME OtherRoute(t)
          PROVE  Authenticated(t)
      BY <2>6 DEF OtherRoute
    <2> QED
      BY <1>2, <2>1, <2>2, <2>3, <2>4, <2>5, <2>6 DEF Request, KeysNext
  <1>3. ASSUME NEW t \in Threads, Works(t)
        PROVE  KeysNext
    BY <1>3 DEF Works, KeysNext
  <1>4. ASSUME NEW t \in Threads, Dies(t)
        PROVE  KeysNext
    BY <1>4 DEF Dies, KeysNext
  <1> QED
    BY <1>1, <1>2, <1>3, <1>4 DEF Next

LEMMA KeyFilesAre ==
  /\ TornFile \in KeyFileType /\ ~TornFile.whole
  /\ \A es \in KeyList : /\ File(es) \in KeyFileType
                         /\ File(es).whole /\ File(es).entries = es
  BY DEF TornFile, File, KeyFileType, KeyList

LEMMA NoChangeIsClerk == NoChange \in Clerk /\ NoChange.pc = "idle" /\ NoChange.secret = 0
  <1>1. <<>> \in KeyList
    BY DEF KeyList
  <1> QED
    BY <1>1 DEF NoChange, Clerk

LEMMA InitKeysTyped == Init => KeysTyped
  <1> SUFFICES ASSUME Init  PROVE  KeysTyped
    OBVIOUS
  <1> DEFINE es == <<Entry(DefaultId, 1)>>
  <1>1. es \in KeyList
    BY DEF KeyList, Entry
  <1> HIDE DEF es
  <1>2. /\ keyFile = File(es) /\ keys = [p \in Processes |-> keyFile.entries]
        /\ secrets = 1 /\ issued = {1} /\ revoked = {}
        /\ clerk = [t \in Threads |-> NoChange]
    BY DEF Init, KeyInit, es
  <1> QED
    BY <1>1, <1>2, KeyFilesAre, NoChangeIsClerk DEF KeysTyped

LEMMA StepKeysTyped == KeysTyped /\ KeysNext => KeysTyped'
  <1> SUFFICES ASSUME KeysTyped, KeysNext  PROVE  KeysTyped'
    OBVIOUS
  <1> USE DEF KeysTyped
  <1>0. keyFile.entries \in KeyList
    BY DEF KeyFileType
  <1>1. CASE UNCHANGED keyVars
    BY <1>1 DEF keyVars
  <1>2. ASSUME NEW t \in Threads, NEW op \in {"create", "revoke"}, NEW k \in KeyIds,
               KeyRequest(t, op, k)
        PROVE  KeysTyped'
    <2> DEFINE r == [NoChange EXCEPT !.pc = "check", !.op = op, !.id = k]
    <2>1. r \in Clerk /\ r.secret = 0 /\ r.op # "none"
      BY NoChangeIsClerk DEF Clerk
    <2> HIDE DEF r
    <2>2. /\ clerk' = [clerk EXCEPT ![t] = r]
          /\ keys' = [keys EXCEPT ![Process(t)] = keyFile.entries]
          /\ UNCHANGED <<keyFile, secrets, issued, revoked>>
      BY <1>2 DEF KeyRequest, LetIn, Reloaded, r
    <2>3. keys' \in [Processes -> KeyList] /\ clerk' \in [Threads -> Clerk]
      BY <1>0, <2>1, <2>2
    <2>4. \A u \in Threads : clerk'[u] \in {clerk[u], r}
      BY <2>2
    <2>5. \A u \in Threads : /\ clerk'[u].secret <= secrets
                             /\ clerk'[u].pc # "idle" => clerk'[u].op # "none"
      BY <2>1, <2>4
    <2> QED
      BY <2>2, <2>3, <2>5
  <1>3. ASSUME NEW t \in Threads, Authenticated(t)
        PROVE  KeysTyped'
    BY <1>0, <1>3 DEF Authenticated, LetIn, Reloaded
  <1>4. ASSUME NEW t \in Threads, KeyChecks(t)
        PROVE  KeysTyped'
    <2> DEFINE r == [clerk[t] EXCEPT !.pc = "build"]
    <2>1. r \in Clerk /\ r.secret = clerk[t].secret /\ r.op = clerk[t].op
      BY DEF Clerk
    <2> HIDE DEF r
    <2>2. /\ clerk[t].pc = "check"
          /\ \/ clerk' = [clerk EXCEPT ![t] = r]
             \/ clerk' = [clerk EXCEPT ![t] = NoChange]
          /\ UNCHANGED <<keyFile, keys, secrets, issued, revoked>>
      BY <1>4 DEF KeyChecks, r
    <2> QED
      BY <2>1, <2>2, NoChangeIsClerk
  <1>5. ASSUME NEW t \in Threads, KeyBuilds(t)
        PROVE  KeysTyped'
    <2> DEFINE s == IF clerk[t].op = "create" THEN secrets + 1 ELSE secrets
               es == Built(clerk[t].op, clerk[t].id, s, keys[Process(t)])
               r == [clerk[t] EXCEPT !.pc = "write", !.secret = s, !.left = es]
    <2>1. clerk[t] \in Clerk /\ clerk[t].id \in KeyIds \cup {DefaultId}
      BY DEF Clerk
    <2>2. s \in Nat /\ s >= secrets
      OBVIOUS
    <2> HIDE DEF s
    <2>3. es \in KeyList
      BY <2>1, <2>2, BuiltIsList, ProcessesAre
    <2> HIDE DEF es
    <2>4. r \in Clerk /\ r.secret = s /\ r.op = clerk[t].op
      BY <2>1, <2>2, <2>3 DEF Clerk
    <2>5. clerk' = [clerk EXCEPT ![t] = r] /\ clerk[t].pc = "build"
      BY <1>5 DEF KeyBuilds, r, es, s
    <2>6. keyFile' = TornFile /\ secrets' = s /\ UNCHANGED <<keys, issued, revoked>>
      BY <1>5 DEF KeyBuilds, s
    <2> HIDE DEF r
    <2>7. \A u \in Threads : clerk'[u] = IF u = t THEN r ELSE clerk[u]
      BY <2>5
    <2>8. clerk' \in [Threads -> Clerk]
      BY <2>4, <2>5
    <2>9. \A u \in Threads : /\ clerk'[u].secret <= s
                             /\ clerk'[u].pc # "idle" => clerk'[u].op # "none"
      <3>1. \A u \in Threads : clerk[u].secret \in Nat
        BY DEF Clerk
      <3> QED
        BY <2>2, <2>4, <2>5, <2>7, <3>1
    <2>10. \A n \in issued : n <= s
      BY <2>2
    <2> QED
      BY <2>2, <2>6, <2>8, <2>9, <2>10, KeyFilesAre
  <1>6. ASSUME NEW t \in Threads, KeyWrites(t)
        PROVE  KeysTyped'
    <2> DEFINE r == [clerk[t] EXCEPT !.pc = "remember"]
    <2>1. /\ r \in Clerk /\ r.secret = clerk[t].secret /\ r.op = clerk[t].op
          /\ clerk[t].left \in KeyList
      BY DEF Clerk
    <2> HIDE DEF r
    <2>2. /\ clerk' = [clerk EXCEPT ![t] = r] /\ clerk[t].pc = "write"
          /\ keyFile' = File(clerk[t].left)
          /\ UNCHANGED <<keys, secrets, issued, revoked>>
      BY <1>6 DEF KeyWrites, r
    <2> QED
      BY <2>1, <2>2, KeyFilesAre
  <1>7. ASSUME NEW t \in Threads, KeyRemembers(t)
        PROVE  KeysTyped'
    <2> DEFINE k == clerk[t]
               p == Process(t)
    <2>1. /\ k \in Clerk /\ k.left \in KeyList /\ k.secret \in Nat
          /\ k.id \in KeyIds \cup {DefaultId} /\ p \in Processes
      BY ProcessesAre DEF Clerk
    <2>2. Append(keys[p], Entry(k.id, k.secret)) \in KeyList
      BY <2>1, CreatesList
    <2>3. clerk' = [clerk EXCEPT ![t] = NoChange] /\ UNCHANGED <<keyFile, secrets>>
      BY <1>7 DEF KeyRemembers
    <2>4. /\ \/ keys' = [keys EXCEPT ![p] = Append(keys[p], Entry(k.id, k.secret))]
             \/ keys' = [keys EXCEPT ![p] = k.left]
          /\ issued' \in {issued, issued \cup {k.secret}}
          /\ revoked' \subseteq issued'
      BY <1>7 DEF KeyRemembers
    <2>5. k.secret <= secrets
      OBVIOUS
    <2> HIDE DEF k, p
    <2>6. keys' \in [Processes -> KeyList]
      BY <2>1, <2>2, <2>4
    <2>7. issued' \subseteq Nat /\ \A n \in issued' : n <= secrets
      BY <2>1, <2>4, <2>5
    <2>8. clerk' \in [Threads -> Clerk]
      BY <2>3, NoChangeIsClerk
    <2>9. \A u \in Threads : clerk'[u] \in {clerk[u], NoChange}
      BY <2>3
    <2>10. \A u \in Threads : /\ clerk'[u].secret <= secrets
                              /\ clerk'[u].pc # "idle" => clerk'[u].op # "none"
      BY <2>9, NoChangeIsClerk
    <2> QED
      BY <2>3, <2>4, <2>6, <2>7, <2>8, <2>10
  <1>8. ASSUME NEW t \in Threads, KeyDies(t)
        PROVE  KeysTyped'
    <2> DEFINE none == t \in ServerThreads /\ keyFile.whole /\ keyFile.entries = <<>>
               new == File(<<Entry(DefaultId, secrets + 1)>>)
    <2>1. /\ \/ /\ secrets' = secrets + 1 /\ issued' = issued \cup {secrets + 1}
                /\ keyFile' = new
             \/ secrets' = secrets /\ issued' = issued /\ keyFile' = keyFile
          /\ keys' = [keys EXCEPT ![Process(t)] = keyFile'.entries]
          /\ clerk' = [u \in Threads |-> IF u \in Killed(t) THEN NoChange ELSE clerk[u]]
          /\ revoked' = revoked
      BY <1>8 DEF KeyDies
    <2>2. new \in KeyFileType
      <3>1. <<Entry(DefaultId, secrets + 1)>> \in KeyList
        BY DEF KeyList, Entry
      <3> QED
        BY <3>1, KeyFilesAre
    <2> HIDE DEF new
    <2>3. keyFile' \in KeyFileType /\ keyFile'.entries \in KeyList
      BY <2>1, <2>2 DEF KeyFileType
    <2>4. secrets' \in Nat /\ secrets' >= secrets /\ issued' \subseteq Nat
          /\ revoked' \subseteq issued' /\ \A n \in issued' : n <= secrets'
      <3>1. CASE secrets' = secrets /\ issued' = issued
        BY <2>1, <3>1
      <3>2. CASE secrets' = secrets + 1 /\ issued' = issued \cup {secrets + 1}
        <4>1. \A n \in issued' : n \in Nat /\ n <= secrets + 1
          BY <3>2
        <4> QED
          BY <2>1, <3>2, <4>1
      <3> QED
        BY <2>1, <3>1, <3>2
    <2>5. /\ clerk' \in [Threads -> Clerk]
          /\ \A u \in Threads : clerk'[u] \in {clerk[u], NoChange}
      BY <2>1, NoChangeIsClerk
    <2>6. \A u \in Threads : /\ clerk'[u].secret <= secrets'
                             /\ clerk'[u].pc # "idle" => clerk'[u].op # "none"
      <3>1. \A u \in Threads : clerk[u].secret \in Nat
        BY DEF Clerk
      <3> QED
        BY <2>4, <2>5, <3>1, NoChangeIsClerk
    <2>7. keys' \in [Processes -> KeyList]
      BY <2>1, <2>3
    <2> QED
      BY <2>3, <2>4, <2>5, <2>6, <2>7
  <1> QED
    BY <1>1, <1>2, <1>3, <1>4, <1>5, <1>6, <1>7, <1>8 DEF KeysNext, KeyStep

-----------------------------------------------------------------------------
LEMMA InitKeys == Init => KeysInv
  <1> SUFFICES ASSUME Init  PROVE  KeysInv
    OBVIOUS
  <1> DEFINE es == <<Entry(DefaultId, 1)>>
  <1>1. /\ keyFile = File(es) /\ issued = {1} /\ revoked = {}
        /\ clerk = [t \in Threads |-> NoChange]
    BY DEF Init, KeyInit
  <1>2. /\ es \in KeyList /\ es # <<>> /\ DOMAIN es = {1} /\ es[1].secret = 1
    BY DEF KeyList, Entry
  <1> HIDE DEF es
  <1>3. Proper(es) /\ SecretsOf(es) = {1}
    BY <1>2 DEF Proper, SecretsOf
  <1>4. \A t \in Threads : clerk[t].pc = "idle"
    BY <1>1 DEF NoChange
  <1>5. keyFile.entries = es
    BY <1>1, <1>2, KeyFilesAre
  <1> QED
    BY <1>1, <1>3, <1>4, <1>5 DEF KeysInv, OneClerk, Changing, Reads, Replaces, Proper

(* A change that nothing overlaps keeps the file as it should be.           *)
LEMMA StepKeys == KeysTyped /\ KeysInv /\ KeysNext => KeysInv'
  <1> SUFFICES ASSUME KeysTyped, KeysInv, KeysNext, ~keysRaced'
               PROVE  KeysInv'
    BY DEF KeysInv
  <1> USE DEF KeysTyped
  <1>0. ~keysRaced
    BY DEF KeysNext, KeyStep, KeyRequest, Authenticated, KeyChecks, KeyBuilds,
           KeyWrites, KeyRemembers, KeyDies, keyVars
  <1>1. /\ OneClerk
        /\ (\A t \in Threads : ~Changing(clerk[t])) =>
             /\ Proper(keyFile.entries)
             /\ SecretsOf(keyFile.entries) = issued \ revoked
        /\ \A t \in Threads : Reads(clerk[t], keys[Process(t)], keyFile.entries)
        /\ \A t \in Threads : Replaces(clerk[t], keyFile.entries, issued, revoked)
        /\ keyFile.whole => keyFile.entries # <<>>
    BY <1>0 DEF KeysInv
  <1>2. ASSUME NEW t \in Threads, clerk[t].pc # "idle"
        PROVE  \A u \in Threads \ {t} : clerk[u].pc = "idle"
    BY <1>1, <1>2 DEF OneClerk
  (* What the steps of the one clerk leave to show.                         *)
  <1>3. ASSUME NEW t \in Threads, NEW r,
               clerk' = [clerk EXCEPT ![t] = r],
               \A u \in Threads \ {t} : clerk[u].pc = "idle",
               ~Changing(r) => /\ Proper(keyFile'.entries)
                               /\ SecretsOf(keyFile'.entries) = issued' \ revoked',
               Reads(r, keys'[Process(t)], keyFile'.entries),
               Replaces(r, keyFile'.entries, issued', revoked'),
               keyFile'.whole => keyFile'.entries # <<>>
        PROVE  KeysInv'
    <2>1. \A u \in Threads : clerk'[u] = IF u = t THEN r ELSE clerk[u]
      BY <1>3
    <2>2. \A u \in Threads \ {t} : clerk'[u].pc = "idle"
      BY <1>3, <2>1
    <2>3. OneClerk'
      BY <2>2 DEF OneClerk
    <2>4. \A u \in Threads \ {t} :
            /\ Reads(clerk'[u], keys'[Process(u)], keyFile'.entries)
            /\ Replaces(clerk'[u], keyFile'.entries, issued', revoked')
      BY <2>2 DEF Reads, Replaces, Changing
    <2> QED
      BY <1>3, <2>1, <2>3, <2>4 DEF KeysInv
  <1>4. CASE UNCHANGED keyVars
    BY <1>0, <1>4 DEF keyVars, KeysInv, OneClerk
  (* A request reads the file, and is the only one.                         *)
  <1>5. ASSUME NEW t \in Threads, NEW op \in {"create", "revoke"}, NEW k \in KeyIds,
               KeyRequest(t, op, k)
        PROVE  KeysInv'
    <2> DEFINE r == [NoChange EXCEPT !.pc = "check", !.op = op, !.id = k]
    <2>1. r.pc = "check"
      BY DEF NoChange
    <2> HIDE DEF r
    <2>2. /\ clerk' = [clerk EXCEPT ![t] = r] /\ clerk[t].pc = "idle"
          /\ keys' = [keys EXCEPT ![Process(t)] = keyFile.entries]
          /\ UNCHANGED <<keyFile, secrets, issued, revoked>>
          /\ ~OthersChange(t)
      BY <1>5 DEF KeyRequest, LetIn, Reloaded, r
    <2>3. \A u \in Threads : clerk[u].pc = "idle"
      BY <2>2 DEF OthersChange, Others
    <2>4. Proper(keyFile.entries) /\ SecretsOf(keyFile.entries) = issued \ revoked
      BY <1>1, <2>3 DEF Changing
    <2>5. keys'[Process(t)] = keyFile.entries
      BY <2>2, ProcessesAre
    <2>6. Reads(r, keys'[Process(t)], keyFile'.entries)
          /\ Replaces(r, keyFile'.entries, issued', revoked')
      BY <2>1, <2>2, <2>5 DEF Reads, Replaces, Changing
    <2> QED
      BY <1>1, <1>3, <2>2, <2>3, <2>4, <2>6
  (* Others reload the same file.                                           *)
  <1>6. ASSUME NEW t \in Threads, Authenticated(t)
        PROVE  KeysInv'
    <2>1. /\ keys' = [keys EXCEPT ![Process(t)] = keyFile.entries]
          /\ UNCHANGED <<keyFile, secrets, clerk, issued, revoked>>
      BY <1>6 DEF Authenticated, LetIn, Reloaded
    <2>2. \A u \in Threads : keys'[Process(u)] \in {keys[Process(u)], keyFile.entries}
      BY <2>1, ProcessesAre
    <2>3. \A u \in Threads : Reads(clerk[u], keys'[Process(u)], keyFile.entries)
      BY <1>1, <2>2 DEF Reads
    <2> QED
      BY <1>0, <1>1, <2>1, <2>3 DEF KeysInv, OneClerk
  <1>7. ASSUME NEW t \in Threads, KeyChecks(t)
        PROVE  KeysInv'
    <2> DEFINE k == clerk[t]
               r == IF Allowed(k.op, k.id, keys[Process(t)])
                    THEN [k EXCEPT !.pc = "build"] ELSE NoChange
    <2>1. /\ clerk' = [clerk EXCEPT ![t] = r] /\ k.pc = "check"
          /\ UNCHANGED <<keyFile, keys, issued, revoked>>
      BY <1>7 DEF KeyChecks
    <2>2. k \in Clerk /\ keys[Process(t)] = keyFile.entries
      BY <1>1, <2>1 DEF Reads
    <2>3. \/ r.pc = "idle"
          \/ r.pc = "build" /\ Allowed(r.op, r.id, keyFile.entries)
      BY <2>2, NoChangeIsClerk DEF Clerk
    <2> HIDE DEF r
    <2>4. \A u \in Threads \ {t} : clerk[u].pc = "idle"
      BY <1>2, <2>1
    <2>5. Proper(keyFile.entries) /\ SecretsOf(keyFile.entries) = issued \ revoked
      BY <1>1, <2>1, <2>4 DEF Changing
    <2>6. Reads(r, keys'[Process(t)], keyFile'.entries)
          /\ Replaces(r, keyFile'.entries, issued', revoked')
      BY <2>1, <2>2, <2>3 DEF Reads, Replaces, Changing
    <2> QED
      BY <1>1, <1>3, <2>1, <2>4, <2>5, <2>6
  (* The new list is built from the file, which is emptied.                 *)
  <1>8. ASSUME NEW t \in Threads, KeyBuilds(t)
        PROVE  KeysInv'
    <2> DEFINE k == clerk[t]
               fs == keyFile.entries
               s == IF k.op = "create" THEN secrets + 1 ELSE secrets
               es == Built(k.op, k.id, s, keys[Process(t)])
               r == [k EXCEPT !.pc = "write", !.secret = s, !.left = es]
    <2>1. /\ clerk' = [clerk EXCEPT ![t] = r] /\ k.pc = "build"
          /\ keyFile' = TornFile /\ UNCHANGED <<keys, issued, revoked>>
      BY <1>8 DEF KeyBuilds
    <2>2. /\ k \in Clerk /\ k.op \in {"create", "revoke"}
          /\ k.id \in KeyIds \cup {DefaultId}
          /\ keys[Process(t)] = fs /\ Allowed(k.op, k.id, fs)
          /\ fs \in KeyList
      BY <1>1, <2>1 DEF Reads, Clerk, KeyFileType
    <2>3. \A u \in Threads \ {t} : clerk[u].pc = "idle"
      BY <1>2, <2>1
    <2>4. Proper(fs) /\ SecretsOf(fs) = issued \ revoked
      BY <1>1, <2>1, <2>3 DEF Changing
    <2>5. r.pc = "write" /\ r.op = k.op /\ r.secret = s /\ r.left = es
      BY <2>2 DEF Clerk
    <2>6. /\ Proper(es)
          /\ k.op = "create" => SecretsOf(es) = (issued \ revoked) \cup {s} /\ s \notin revoked
          /\ k.op = "revoke" => SecretsOf(es) \subseteq issued \ revoked
      <3>1. CASE k.op = "create"
        <4>1. s \in Nat /\ s \notin revoked /\ k.id \notin IdsOf(fs)
          BY <2>2, <3>1 DEF Allowed
        <4>2. es = Append(fs, Entry(k.id, s))
          BY <2>2, <3>1 DEF Built
        <4> HIDE DEF k, fs, s, es, r
        <4> QED
          BY <2>2, <2>4, <3>1, <4>1, <4>2, CreatesList
      <3>2. CASE k.op = "revoke"
        <4>1. Len(fs) > 1
          BY <2>2, <3>2 DEF Allowed
        <4>2. es = Without(fs, k.id)
          BY <2>2, <3>2 DEF Built
        <4> HIDE DEF k, fs, s, es, r
        <4>3. SecretsOf(es) \subseteq SecretsOf(fs) /\ Proper(es)
          BY ONLY <2>2, <2>4, <4>1, <4>2, RevokesList
        <4> QED
          BY <2>4, <3>2, <4>3
      <3> QED
        BY <2>2, <3>1, <3>2
    <2>7. ~keyFile'.whole
      BY <2>1, KeyFilesAre
    <2> HIDE DEF fs, s, es, r
    <2>8. Reads(r, keys'[Process(t)], keyFile'.entries)
          /\ Replaces(r, keyFile'.entries, issued', revoked')
      BY <2>1, <2>5, <2>6 DEF Reads, Replaces, Changing
    <2> QED
      BY <1>3, <2>1, <2>3, <2>5, <2>7, <2>8 DEF Changing
  <1>9. ASSUME NEW t \in Threads, KeyWrites(t)
        PROVE  KeysInv'
    <2> DEFINE k == clerk[t]
               r == [k EXCEPT !.pc = "remember"]
    <2>1. /\ clerk' = [clerk EXCEPT ![t] = r] /\ k.pc = "write"
          /\ keyFile' = File(k.left) /\ UNCHANGED <<keys, issued, revoked>>
      BY <1>9 DEF KeyWrites
    <2>2. k \in Clerk /\ k.left \in KeyList
      BY DEF Clerk
    <2>3. keyFile'.entries = k.left
      BY <2>1, <2>2, KeyFilesAre
    <2>4. r.pc = "remember" /\ r.op = k.op /\ r.secret = k.secret /\ r.left = k.left
      BY <2>2 DEF Clerk
    <2> HIDE DEF r
    <2>5. Replaces(k, keyFile.entries, issued, revoked)
      BY <1>1
    <2>6. Replaces(r, keyFile'.entries, issued', revoked') /\ Proper(k.left)
      BY <2>1, <2>3, <2>4, <2>5 DEF Replaces, Changing
    <2>7. Reads(r, keys'[Process(t)], keyFile'.entries)
      BY <2>4 DEF Reads
    <2>8. \A u \in Threads \ {t} : clerk[u].pc = "idle"
      BY <1>2, <2>1
    <2>9. keyFile'.entries # <<>>
      BY <2>3, <2>6 DEF Proper
    <2> QED
      BY <1>3, <2>1, <2>4, <2>6, <2>7, <2>8, <2>9 DEF Changing
  (* What is answered is what the file has.                                 *)
  <1>10. ASSUME NEW t \in Threads, KeyRemembers(t)
         PROVE  KeysInv'
    <2> DEFINE k == clerk[t]
    <2>1. /\ clerk' = [clerk EXCEPT ![t] = NoChange] /\ k.pc = "remember"
          /\ UNCHANGED keyFile
          /\ \/ /\ k.op = "create"
                /\ issued' = issued \cup {k.secret} /\ revoked' = revoked
             \/ /\ k.op # "create"
                /\ revoked' = revoked \cup (issued \ SecretsOf(k.left))
                /\ issued' = issued
      BY <1>10 DEF KeyRemembers
    <2>2. k.op \in {"create", "revoke"}
      BY <2>1 DEF Clerk
    <2>3. Replaces(k, keyFile.entries, issued, revoked)
      BY <1>1
    <2>4. Proper(keyFile.entries) /\ SecretsOf(keyFile.entries) = issued' \ revoked'
      BY <2>1, <2>2, <2>3 DEF Replaces, Changing
    <2>5. \A u \in Threads \ {t} : clerk[u].pc = "idle"
      BY <1>2, <2>1
    <2>6. Reads(NoChange, keys'[Process(t)], keyFile'.entries)
          /\ Replaces(NoChange, keyFile'.entries, issued', revoked')
      BY NoChangeIsClerk DEF Reads, Replaces, Changing
    <2> QED
      BY <1>1, <1>3, <2>1, <2>4, <2>5, <2>6
  (* A process without a change dies.                                       *)
  <1>11. ASSUME NEW t \in Threads, KeyDies(t)
         PROVE  KeysInv'
    <2>1. \A u \in Killed(t) \cap Threads : clerk[u].pc = "idle"
      BY <1>11 DEF KeyDies, Killed
    <2>2. ~(keyFile.whole /\ keyFile.entries = <<>>)
      BY <1>1
    <2>3. /\ UNCHANGED <<keyFile, issued, revoked>>
          /\ keys' = [keys EXCEPT ![Process(t)] = keyFile'.entries]
          /\ clerk' = [u \in Threads |-> IF u \in Killed(t) THEN NoChange ELSE clerk[u]]
      BY <1>11, <2>2 DEF KeyDies
    <2>4. \A u \in Threads :
            \/ clerk'[u] = clerk[u]
            \/ clerk'[u].pc = "idle" /\ clerk[u].pc = "idle"
      BY <2>1, <2>3, NoChangeIsClerk
    <2>5. \A u \in Threads : keys'[Process(u)] \in {keys[Process(u)], keyFile.entries}
      BY <2>3, ProcessesAre
    <2>6. \A u \in Threads : /\ Reads(clerk'[u], keys'[Process(u)], keyFile.entries)
                             /\ Replaces(clerk'[u], keyFile.entries, issued, revoked)
      BY <1>1, <2>4, <2>5 DEF Reads, Replaces, Changing
    <2>7. OneClerk'
      BY <1>1, <2>4 DEF OneClerk
    <2>8. (\A u \in Threads : ~Changing(clerk'[u])) =>
             /\ Proper(keyFile.entries)
             /\ SecretsOf(keyFile.entries) = issued \ revoked
      BY <1>1, <2>4 DEF Changing
    <2> QED
      BY <1>1, <2>3, <2>6, <2>7, <2>8 DEF KeysInv
  <1> QED
    BY <1>4, <1>5, <1>6, <1>7, <1>8, <1>9, <1>10, <1>11 DEF KeysNext, KeyStep

(* The key file lets in the keys that were handed out and not revoked, and  *)
(* never nobody, as long as two changes never met and no process died in    *)
(* one: for any threads, commands and identifiers (auth.py).                *)
THEOREM KeysAreKept == Spec => []KeysStand
  <1>1. KeysTyped /\ KeysInv => KeysStand
    BY DEF KeysStand, KeysInv, Changing, Proper
  <1>2. Init => KeysTyped /\ KeysInv
    BY InitKeysTyped, InitKeys
  <1>3. KeysTyped /\ KeysInv /\ [Next]_vars => (KeysTyped /\ KeysInv)'
    BY StepsOfKeys, StepKeysTyped, StepKeys
  <1> QED
    BY <1>1, <1>2, <1>3, PTL DEF Spec


-----------------------------------------------------------------------------
(* The types, and what a task of the studio may be at in each kind of       *)
(* request.                                                                 *)
Requests == {"save", "test", "promote"}
InStudio == {"load", "cat", "emptied", "manifest", "define", "grant", "reload",
             "run"}
Outcome == [status : {"none", "succeeded", "failed"}, of : Nat]
Meta == [promoted : {"absent", "yes", "no"}, maturity : {"absent", "draft", "ready"},
         last : Outcome]

WorkAt(k) ==
  /\ k.cat \in [Items -> Meta] /\ k.last \in Outcome
  /\ k.op \in Requests \cup {"activate"} => k.item \in Items
  /\ k.pc \in InStudio => k.op \in Requests
  /\ k.pc = "run" => k.op = "test"
  /\ k.pc = "reload" => k.op = "save"
  /\ k.pc \in InPublication /\ k.then = "reload" => k.op = "save"
  /\ k.pc \in {"grant", "reload"} \cup InPublication /\ k.op = "save" =>
       k.item \notin Packs
  /\ k.pc = "manifest" => k.item \notin Packs
  /\ k.pc = "load" /\ k.op = "promote" => k.item \notin Packs

Works0 == \A t \in Threads : WorkAt(task[t])

Stores ==
  /\ content \in [Items -> Nat]
  /\ catalog \in [Items -> Meta]
  /\ manifest \in [Items -> Meta]
  /\ \A i \in Packs : manifest[i] = NoMeta
  /\ promoted \subseteq Items
  /\ \A i \in Items : \A n : <<i, n>> \in passed => n \in 1 .. content[i]

(* Whatever is ready, or carries a test that succeeded, was tested once.    *)
Earned(m) == m.maturity = "ready" \/ m.last.status = "succeeded"

PassedOnce(i) == \E n : <<i, n>> \in passed

EarnedInv ==
  /\ \A i \in Items : Earned(catalog[i]) \/ Earned(manifest[i]) => PassedOnce(i)
  /\ \A t \in Threads : \A i \in Items : Earned(task[t].cat[i]) => PassedOnce(i)
  /\ \A t \in Threads : task[t].last.status = "succeeded" => PassedOnce(task[t].item)

(* A task that holds the catalog as it is going to write it.                *)
OpenAt(k) == \/ k.pc \in {"reload", "cat", "emptied", "manifest"}
             \/ k.op = "save" /\ k.item \notin Packs
                /\ k.pc \in {"define", "grant"} \cup InPublication
InHand(k) == OpenAt(k) /\ k.pc # "manifest"

OneOpen ==
  ~raced => \A t, u \in Threads : OpenAt(task[t]) /\ OpenAt(task[u]) => t = u

(* A save that has changed a pack and is about to make it a draft.          *)
Resaving(k, p) == k.op = "save" /\ k.item = p /\ k.pc \in {"load", "cat", "emptied"}

Fresh0(p) == <<p, content[p]>> \in passed
Excused(p) == Fresh0(p) \/ \E t \in Threads : Resaving(task[t], p)

ReadyInv ==
  ~raced /\ ~outdated =>
    \A p \in Packs :
      /\ Earned(catalog[p]) => Excused(p)
      /\ \A t \in Threads : InHand(task[t]) =>
           /\ Earned(task[t].cat[p]) => Excused(p)
           /\ task[t].op = "save" /\ task[t].item = p => ~Earned(task[t].cat[p])
      /\ \A t \in Threads :
           task[t].op = "test" /\ task[t].item = p /\ task[t].last.status = "succeeded" =>
             Fresh0(p)

(* What is answered is in the catalog, or in the hand that has emptied it.  *)
HeldAt(k) ==
  /\ \A i \in promoted :
       k.cat[i].promoted = "yes" \/ (i = k.item /\ k.op = "save" /\ i \in Packs)
  /\ k.op = "promote" => k.cat[k.item].promoted = "yes"

PromotionInv ==
  ~raced =>
    /\ (\A t \in Threads : task[t].pc # "emptied") =>
         \A i \in promoted : catalog[i].promoted = "yes"
    /\ \A t \in Threads : InHand(task[t]) => HeldAt(task[t])
    /\ \A t \in Threads : task[t].pc = "manifest" /\ task[t].op = "promote" =>
         catalog[task[t].item].promoted = "yes"

StudioInv == /\ Flow /\ Works0 /\ Stores
             /\ EarnedInv /\ OneOpen /\ ReadyInv /\ PromotionInv

-----------------------------------------------------------------------------
(* What a step of Operator is to the studio.                                *)
StudioNext ==
  \/ UNCHANGED <<task, content, studioVars>>
  \/ \E t \in Threads :
       \/ \E op \in Requests, i \in Items, force \in BOOLEAN :
            StudioRoute(t, op, i, force)
       \/ \E p \in Packs : PackRoute(t, p)
       \/ PolicyCommand(t)
       \/ PublishStep(t) /\ UNCHANGED <<content, studioVars>>
       \/ PackStep(t) /\ UNCHANGED <<content, studioVars>>
       \/ StudioStep(t)
       \/ Dies(t)

LEMMA StepsOfStudio == [Next]_vars => StudioNext
  <1> SUFFICES ASSUME [Next]_vars PROVE StudioNext
    OBVIOUS
  <1>1. CASE UNCHANGED vars
    BY <1>1 DEF vars, packVars, StudioNext
  <1>2. ASSUME NEW t \in Threads, Request(t)
        PROVE  StudioNext
    <2>1. ASSUME NEW op, NEW p, NEW f, NEW overwrite, PipelineRoute(t, op, p, f, overwrite)
          PROVE  UNCHANGED <<task, content, studioVars>>
      BY <2>1 DEF PipelineRoute, packVars
    <2>2. ASSUME NEW op, NEW k, KeyRoute(t, op, k)
          PROVE  UNCHANGED <<task, content, studioVars>>
      BY <2>2 DEF KeyRoute, packVars
    <2>3. ASSUME OtherRoute(t)
          PROVE  UNCHANGED <<task, content, studioVars>>
      BY <2>3 DEF OtherRoute, packVars
    <2> QED
      BY <1>2, <2>1, <2>2, <2>3 DEF Request, StudioNext, Requests
  <1>3. ASSUME NEW t \in Threads, Works(t)
        PROVE  StudioNext
    <2>1. ASSUME PackStep(t) PROVE UNCHANGED content
      BY <2>1 DEF PackStep, ActivateBegins, ActivateApplies, ActivateRaises, ActivateGrants,
         ActivateNoDelta, ActivateUnrecorded, ActivateRecords, packVars
    <2> QED
      BY <1>3, <2>1 DEF Works, StudioNext, packVars
  <1>4. ASSUME NEW t \in Threads, Dies(t)
        PROVE  StudioNext
    BY <1>4 DEF StudioNext
  <1> QED
    BY <1>1, <1>2, <1>3, <1>4 DEF Next

LEMMA OpenIs == \A t \in Threads : Open(t) <=> OpenAt(task[t])
  BY DEF Open, OpenAt, InPublication

LEMMA NothingType == NoMeta \in Meta /\ Nothing \in Outcome /\ ~Earned(NoMeta)
  BY DEF NoMeta, Nothing, Meta, Outcome, Earned

LEMMA RestWorks ==
  /\ WorkAt(AtRest) /\ ~OpenAt(AtRest) /\ AtRest.last.status # "succeeded"
  /\ \A i \in Items : AtRest.cat[i] = NoMeta
  BY NothingType DEF AtRest, WorkAt, OpenAt, Requests, InStudio, InPublication, Nothing

-----------------------------------------------------------------------------
(* A step of t from k to n that leaves the stores alone and opens no        *)
(* catalog.                                                                 *)
Quiet(k, n) ==
  /\ WorkAt(n)
  /\ n.cat = k.cat \/ n.cat = AtRest.cat
  /\ n.last.status = "succeeded" =>
       /\ PassedOnce(n.item)
       /\ n.op = "test" => k.last = n.last /\ k.op = n.op /\ k.item = n.item
  /\ OpenAt(n) => OpenAt(k) /\ n.cat = k.cat /\ n.op = k.op /\ n.item = k.item
  /\ n.pc \notin {"emptied", "manifest"}
  /\ k.pc \notin {"load", "cat", "emptied", "manifest"}

LEMMA QuietStep ==
  ASSUME StudioInv, NEW t \in Threads, UNCHANGED <<content, studioVars>>, Flow',
         \A u \in Threads \ {t} : task'[u] = task[u],
         Quiet(task[t], task'[t])
  PROVE  StudioInv'
  <1>1. UNCHANGED <<content, catalog, manifest, passed, promoted, raced, outdated>>
    BY DEF studioVars
  <1>2. Works0' /\ Stores'
    <2>1. Works0'
      BY DEF StudioInv, Works0, Quiet
    <2>2. Stores'
      BY <1>1 DEF StudioInv, Stores
    <2> QED
      BY <2>1, <2>2
  <1>3. EarnedInv'
    <2>1. \A i : PassedOnce(i)' <=> PassedOnce(i)
      BY <1>1 DEF PassedOnce
    <2>2. \A u \in Threads : \A i \in Items : Earned(task'[u].cat[i]) => PassedOnce(i)
      <3> SUFFICES ASSUME NEW u \in Threads, NEW i \in Items, Earned(task'[u].cat[i])
                   PROVE  PassedOnce(i)
        OBVIOUS
      <3>1. \/ task'[u].cat = task[u].cat
            \/ task'[u].cat = AtRest.cat
        BY DEF Quiet
      <3>2. task'[u].cat # AtRest.cat
        BY RestWorks, NothingType
      <3> QED
        BY <3>1, <3>2 DEF StudioInv, EarnedInv
    <2>3. \A u \in Threads : task'[u].last.status = "succeeded" => PassedOnce(task'[u].item)
      <3> SUFFICES ASSUME NEW u \in Threads, task'[u].last.status = "succeeded"
                   PROVE  PassedOnce(task'[u].item)
        OBVIOUS
      <3>1. CASE u = t
        BY <3>1 DEF Quiet
      <3>2. CASE u # t
        BY <3>2 DEF StudioInv, EarnedInv
      <3> QED
        BY <3>1, <3>2
    <2>4. \A i \in Items : Earned(catalog'[i]) \/ Earned(manifest'[i]) => PassedOnce(i)
      BY <1>1 DEF StudioInv, EarnedInv
    <2> QED
      BY <2>1, <2>2, <2>3, <2>4 DEF EarnedInv
  <1>4. OneOpen'
    <2>1. \A u \in Threads : OpenAt(task'[u]) => OpenAt(task[u])
      BY DEF Quiet
    <2> QED
      BY <1>1, <2>1 DEF StudioInv, OneOpen
  <1>5. \A u \in Threads : InHand(task'[u]) =>
          /\ InHand(task[u]) /\ task'[u].cat = task[u].cat
          /\ task'[u].op = task[u].op /\ task'[u].item = task[u].item
    BY DEF Quiet, InHand
  <1>6. ReadyInv'
    <2> SUFFICES ASSUME ~raced, ~outdated PROVE ReadyInv'
      BY <1>1 DEF ReadyInv
    <2>1. \A p : Excused(p) => Excused(p)'
      <3>1. \A p : Fresh0(p)' <=> Fresh0(p)
        BY <1>1 DEF Fresh0
      <3>2. \A p : \A u \in Threads : Resaving(task[u], p) => Resaving(task'[u], p)
        BY DEF Resaving, Quiet
      <3> QED
        BY <3>1, <3>2 DEF Excused
    <2> SUFFICES ASSUME NEW p \in Packs
                 PROVE  /\ Earned(catalog'[p]) => Excused(p)'
                        /\ \A u \in Threads : InHand(task'[u]) =>
                             /\ Earned(task'[u].cat[p]) => Excused(p)'
                             /\ task'[u].op = "save" /\ task'[u].item = p =>
                                  ~Earned(task'[u].cat[p])
                        /\ \A u \in Threads : task'[u].op = "test" /\ task'[u].item = p
                             /\ task'[u].last.status = "succeeded" => Fresh0(p)'
      BY DEF ReadyInv
    <2>2. Earned(catalog'[p]) => Excused(p)'
      BY <1>1, <2>1 DEF StudioInv, ReadyInv
    <2>3. ASSUME NEW u \in Threads, InHand(task'[u])
          PROVE  /\ Earned(task'[u].cat[p]) => Excused(p)'
                 /\ task'[u].op = "save" /\ task'[u].item = p => ~Earned(task'[u].cat[p])
      BY <1>5, <2>1, <2>3 DEF StudioInv, ReadyInv
    <2>4. ASSUME NEW u \in Threads, task'[u].op = "test", task'[u].item = p,
                 task'[u].last.status = "succeeded"
          PROVE  Fresh0(p)'
      <3>1. task[u].op = "test" /\ task[u].item = p /\ task[u].last.status = "succeeded"
        BY <2>4 DEF Quiet
      <3>2. Fresh0(p)
        BY <3>1 DEF StudioInv, ReadyInv
      <3> QED
        BY <1>1, <3>2 DEF Fresh0
    <2> QED
      BY <2>2, <2>3, <2>4
  <1>7. PromotionInv'
    <2> SUFFICES ASSUME ~raced PROVE PromotionInv'
      BY <1>1 DEF PromotionInv
    <2>1. (\A u \in Threads : task'[u].pc # "emptied") =>
            \A u \in Threads : task[u].pc # "emptied"
      BY DEF Quiet
    <2>2. \A u \in Threads : InHand(task'[u]) => HeldAt(task[u])'
      <3> SUFFICES ASSUME NEW u \in Threads, InHand(task'[u])
                   PROVE  HeldAt(task[u])'
        OBVIOUS
      <3>1. HeldAt(task[u]) /\ task'[u].cat = task[u].cat
            /\ task'[u].op = task[u].op /\ task'[u].item = task[u].item
        BY <1>5 DEF StudioInv, PromotionInv
      <3> QED
        BY <1>1, <3>1 DEF HeldAt
    <2>3. \A u \in Threads : task'[u].pc = "manifest" => u # t /\ task'[u] = task[u]
      BY DEF Quiet
    <2> QED
      BY <1>1, <2>1, <2>2, <2>3 DEF StudioInv, PromotionInv
  <1> QED
    BY <1>2, <1>3, <1>4, <1>6, <1>7 DEF StudioInv

LEMMA RestQuiet ==
  ASSUME NEW k, k.pc \notin {"load", "cat", "emptied", "manifest"}
  PROVE  Quiet(k, AtRest)
  <1>1. AtRest.pc = "idle"
    BY DEF AtRest
  <1> QED
    BY <1>1, RestWorks DEF Quiet

LEMMA SameQuiet ==
  ASSUME NEW k, NEW n, WorkAt(k),
         k.pc \notin {"load", "cat", "emptied", "manifest"},
         k.last.status = "succeeded" => PassedOnce(k.item),
         n.op = k.op, n.item = k.item, n.cat = k.cat, n.last = k.last,
         n.pc \notin {"emptied", "manifest"},
         n.pc = "load" /\ n.op = "promote" => n.item \notin Packs,
         n.pc \in InStudio => n.op \in Requests,
         n.pc = "run" => n.op = "test",
         n.pc = "reload" => n.op = "save",
         n.pc \in InPublication /\ n.then = "reload" => n.op = "save",
         n.pc \in {"grant", "reload"} \cup InPublication /\ n.op = "save" =>
           n.item \notin Packs,
         OpenAt(n) => OpenAt(k)
  PROVE  Quiet(k, n)
  BY DEF Quiet, WorkAt

LEMMA WorkOf ==
  ASSUME StudioInv, NEW t \in Threads
  PROVE  /\ Flow /\ FlowAt(task[t]) /\ WorkAt(task[t])
         /\ DOMAIN task = Threads /\ DOMAIN task[t] = Fields
         /\ task[t].last.status = "succeeded" => PassedOnce(task[t].item)
  BY DEF StudioInv, Flow, FlowAt, Works0, EarnedInv

LEMMA RoutesQuiet ==
  ASSUME StudioInv, NEW t \in Threads,
         \/ \E op \in Requests, i \in Items, force \in BOOLEAN : StudioRoute(t, op, i, force)
         \/ \E p \in Packs : PackRoute(t, p)
         \/ PolicyCommand(t)
  PROVE  Quiet(task[t], task'[t]) /\ UNCHANGED <<content, studioVars>>
  <1>1. ASSUME NEW n, n.pc \in {"start", "read_active"}, n.cat = AtRest.cat,
               n.last = AtRest.last, n.op \in Requests \cup {"activate"} => n.item \in Items,
               task[t].pc = "idle"
        PROVE  Quiet(task[t], n)
    <2>1. AtRest.last.status # "succeeded" /\ WorkAt(AtRest)
      BY RestWorks
    <2>2. WorkAt(n) /\ ~OpenAt(n)
      BY <1>1, <2>1 DEF WorkAt, OpenAt, InStudio, InPublication
    <2> QED
      BY <1>1, <2>1, <2>2 DEF Quiet
  <1>2. ASSUME NEW op \in Requests, NEW i \in Items, NEW force \in BOOLEAN,
               StudioRoute(t, op, i, force)
        PROVE  Quiet(task[t], task'[t]) /\ UNCHANGED <<content, studioVars>>
    <2>1. task'[t] = [AtRest EXCEPT !.pc = "start", !.op = op, !.item = i, !.force = force]
      BY <1>2, WorkOf DEF StudioRoute
    <2>2. /\ task'[t].pc = "start" /\ task'[t].cat = AtRest.cat
          /\ task'[t].last = AtRest.last /\ task'[t].item = i
      BY <2>1 DEF AtRest
    <2>3. task[t].pc = "idle" /\ UNCHANGED <<content, studioVars>>
      BY <1>2 DEF StudioRoute, Asked, Idle, packVars
    <2> QED
      BY <1>1, <2>2, <2>3
  <1>3. ASSUME NEW p \in Packs, PackRoute(t, p)
        PROVE  Quiet(task[t], task'[t]) /\ UNCHANGED <<content, studioVars>>
    <2>1. task'[t] = [AtRest EXCEPT !.pc = "read_active", !.op = "activate", !.item = p]
      BY <1>3, WorkOf DEF PackRoute
    <2>2. /\ task'[t].pc = "read_active" /\ task'[t].cat = AtRest.cat
          /\ task'[t].last = AtRest.last /\ task'[t].item = p
      BY <2>1 DEF AtRest
    <2>3. task[t].pc = "idle" /\ UNCHANGED <<content, studioVars>> /\ p \in Items
      BY <1>3 DEF PackRoute, Asked, Idle, packVars, Items
    <2> QED
      BY <1>1, <2>2, <2>3
  <1>4. CASE PolicyCommand(t)
    <2>1. task'[t] = [AtRest EXCEPT !.pc = "start", !.op = "sign"]
      BY <1>4, WorkOf DEF PolicyCommand
    <2>2. /\ task'[t].pc = "start" /\ task'[t].cat = AtRest.cat
          /\ task'[t].last = AtRest.last /\ task'[t].op = "sign"
      BY <2>1 DEF AtRest
    <2>3. task[t].pc = "idle" /\ UNCHANGED <<content, studioVars>>
      BY <1>4 DEF PolicyCommand, Asked, Idle, packVars
    <2>4. "sign" \notin Requests \cup {"activate"}
      BY DEF Requests
    <2> QED
      BY <1>1, <2>2, <2>3, <2>4
  <1> QED
    BY <1>2, <1>3, <1>4

(* A step to another point of the same request.                             *)
LEMMA GotoQuiet ==
  ASSUME StudioInv, NEW t \in Threads, NEW pc, Goto(t, pc),
         task[t].pc \notin {"load", "cat", "emptied", "manifest"},
         \/ pc \in {"idle", "unrecorded", "record"}
         \/ pc \in {"run", "read_active"} /\ task[t].op = "test"
         \/ pc = "reload" /\ OpenAt(task[t]) /\ task[t].op = "save"
              /\ task[t].item \notin Packs
         \/ pc = "cat" /\ OpenAt(task[t]) /\ task[t].op \in Requests
         \/ pc = "define" /\ task[t].op = "save" /\ task[t].item \in Packs
         \/ pc = "load" /\ task[t].op = "save"
         \/ pc \in InPublication /\ task[t].pc \in InPublication
  PROVE  Quiet(task[t], task'[t])
  <1>1. CASE pc = "idle"
    BY <1>1, RestQuiet, WorkOf DEF Goto
  <1>2. CASE pc # "idle"
    <2> DEFINE k == task[t]
               n == task'[t]
    <2>1. n = [k EXCEPT !.pc = pc]
      BY <1>2, WorkOf DEF Goto
    <2>2. /\ DOMAIN k = Fields /\ WorkAt(k) /\ FlowAt(k)
          /\ k.last.status = "succeeded" => PassedOnce(k.item)
      BY WorkOf
    <2>3. /\ n.pc = pc /\ n.op = k.op /\ n.item = k.item /\ n.cat = k.cat /\ n.last = k.last
          /\ n.then = k.then
      BY <2>1, <2>2 DEF Fields
    <2> HIDE DEF n, k
    <2>4. /\ n.pc = "run" => n.op = "test"
          /\ n.pc = "reload" => n.op = "save"
          /\ n.pc \in InPublication /\ n.then = "reload" => n.op = "save"
          /\ n.pc \in {"grant", "reload"} \cup InPublication /\ n.op = "save" =>
               n.item \notin Packs
          /\ n.pc \in InStudio => n.op \in Requests
          /\ n.pc = "load" /\ n.op = "promote" => n.item \notin Packs
      BY <2>2, <2>3 DEF k, WorkAt, InStudio, InPublication, Requests
    <2>5. OpenAt(n) => OpenAt(k)
      BY <2>2, <2>3 DEF k, OpenAt, WorkAt, InStudio, InPublication
    <2>6. Quiet(k, n)
      BY <2>2, <2>3, <2>4, <2>5, SameQuiet DEF k, InPublication
    <2> QED
      BY <2>6 DEF k, n
  <1> QED
    BY <1>1, <1>2

LEMMA PublishQuiet ==
  ASSUME StudioInv, NEW t \in Threads, PublishStep(t)
  PROVE  Quiet(task[t], task'[t])
  <1> DEFINE k == task[t]
             n == task'[t]
  <1>1. /\ DOMAIN k = Fields /\ WorkAt(k) /\ FlowAt(k) /\ DOMAIN task = Threads
        /\ k.last.status = "succeeded" => PassedOnce(k.item)
    BY WorkOf
  <1>2. ASSUME k.pc \in {"start", "publish"},
               n.op = k.op, n.item = k.item, n.cat = k.cat, n.last = k.last,
               n.pc \in {"publish", "signed"},
               n.then = "reload" => k.pc = "publish" /\ n.then = k.then,
               k.pc = "start" => k.op = "sign"
        PROVE  Quiet(k, n)
    <2> HIDE DEF k, n
    <2>1. OpenAt(n) => OpenAt(k)
      BY <1>2 DEF OpenAt, InPublication
    <2> QED
      BY <1>1, <1>2, <2>1, SameQuiet DEF WorkAt, InPublication, InStudio, Requests
  <1>3. CASE PublishReads(t)
    <2>1. /\ n = [k EXCEPT !.pc = "signed", !.doc = n.doc] /\ k.pc = "publish"
      BY <1>1, <1>3 DEF PublishReads, At
    <2>2. /\ n.op = k.op /\ n.item = k.item /\ n.cat = k.cat /\ n.last = k.last
          /\ n.pc = "signed" /\ n.then = k.then
      BY <1>1, <2>1 DEF Fields
    <2> QED
      BY <1>2, <2>1, <2>2
  <1>4. CASE PublishRaises(t)
    <2>1. Goto(t, k.orelse) /\ k.pc = "publish"
      BY <1>4 DEF PublishRaises, At
    <2>2. k.orelse \in {"idle", "unrecorded"}
      BY <1>1, <2>1 DEF FlowAt, InPublication
    <2> QED
      BY <2>1, <2>2, GotoQuiet
  <1>5. CASE PublishTruncates(t)
    <2>1. Goto(t, "truncated") /\ k.pc = "signed"
      BY <1>5 DEF PublishTruncates, At
    <2> QED
      BY <2>1, GotoQuiet DEF InPublication
  <1>6. CASE PublishWrites(t)
    <2>1. Goto(t, "written") /\ k.pc = "truncated"
      BY <1>6 DEF PublishWrites, At
    <2> QED
      BY <2>1, GotoQuiet DEF InPublication
  <1>7. CASE PublishRecords(t)
    <2>1. Goto(t, k.then) /\ k.pc = "written"
      BY <1>7 DEF PublishRecords, At
    <2>2. k.then \in {"idle", "record", "reload"}
      BY <1>1, <2>1 DEF FlowAt, InPublication
    <2>3. k.then = "reload" => k.op = "save" /\ k.item \notin Packs /\ OpenAt(k)
      BY <1>1, <2>1 DEF WorkAt, OpenAt, InPublication
    <2> QED
      BY <2>1, <2>2, <2>3, GotoQuiet
  <1>8. CASE Sign(t)
    <2>1. CASE grants[Process(t)].trusted
      <3> DEFINE m == grants[Process(t)]
      <3>a. /\ task' = [task EXCEPT ![t].pc = "publish", ![t].then = "idle",
                          ![t].orelse = "idle", ![t].agents = m.agents, ![t].base = m.doc]
            /\ k.pc = "start" /\ k.op = "sign"
        BY <1>8, <2>1 DEF Sign, At
      <3> HIDE DEF m
      <3>1. n = [k EXCEPT !.pc = "publish", !.then = "idle", !.orelse = "idle",
                          !.agents = m.agents, !.base = m.doc]
        BY <1>1, <3>a
      <3>2. /\ n.op = k.op /\ n.item = k.item /\ n.cat = k.cat /\ n.last = k.last
            /\ n.pc = "publish" /\ n.then = "idle"
        BY <1>1, <3>1 DEF Fields
      <3> QED
        BY <1>2, <3>a, <3>2
    <2>2. CASE ~grants[Process(t)].trusted
      BY <1>1, <1>8, <2>2, RestQuiet DEF Sign, At
    <2> QED
      BY <2>1, <2>2
  <1> QED
    BY <1>3, <1>4, <1>5, <1>6, <1>7, <1>8 DEF PublishStep

LEMMA PackQuiet ==
  ASSUME StudioInv, NEW t \in Threads, PackStep(t)
  PROVE  Quiet(task[t], task'[t])
  <1> DEFINE k == task[t]
             n == task'[t]
  <1>1. /\ DOMAIN k = Fields /\ WorkAt(k) /\ FlowAt(k) /\ DOMAIN task = Threads
        /\ k.last.status = "succeeded" => PassedOnce(k.item)
    BY WorkOf
  <1>2. ASSUME k.pc \in {"read_active", "specs"},
               n.op = k.op, n.item = k.item, n.cat = k.cat, n.last = k.last,
               n.pc \in {"specs", "publish"}, n.pc = "publish" => n.then = "record"
        PROVE  Quiet(k, n)
    <2>1. k.op \in Activation
      BY <1>1, <1>2 DEF FlowAt, OfPack
    <2> HIDE DEF k, n
    <2>2. ~OpenAt(n)
      BY <1>2, <2>1 DEF OpenAt, InPublication, Activation
    <2> QED
      BY <1>1, <1>2, <2>1, <2>2, SameQuiet DEF InPublication, InStudio, Activation
  <1>3. /\ Goto(t, Ends(t)) /\ k.pc \in OfPack => Quiet(k, n)
        /\ Goto(t, "record") /\ k.pc \in OfPack => Quiet(k, n)
    BY GotoQuiet DEF Ends, OfPack
  <1>4. CASE ActivateBegins(t)
    <2>1. CASE content[k.item] = 0
      BY <1>3, <1>4, <2>1 DEF ActivateBegins, At, OfPack
    <2>2. CASE content[k.item] # 0
      <3>1. n = [k EXCEPT !.pc = "specs", !.todo = SpecOrder] /\ k.pc = "read_active"
        BY <1>1, <1>4, <2>2 DEF ActivateBegins, At
      <3>2. /\ n.op = k.op /\ n.item = k.item /\ n.cat = k.cat /\ n.last = k.last
            /\ n.pc = "specs"
        BY <1>1, <3>1 DEF Fields
      <3> QED
        BY <1>2, <3>1, <3>2
    <2> QED
      BY <2>1, <2>2
  <1>5. CASE ActivateApplies(t)
    <2>1. n = [k EXCEPT !.todo = Tail(@)] /\ k.pc = "specs"
      BY <1>1, <1>5 DEF ActivateApplies, At
    <2>2. /\ n.op = k.op /\ n.item = k.item /\ n.cat = k.cat /\ n.last = k.last
          /\ n.pc = "specs"
      BY <1>1, <2>1 DEF Fields
    <2> QED
      BY <1>2, <2>1, <2>2
  <1>6. CASE ActivateGrants(t)
    <2>1. /\ n = [k EXCEPT !.pc = "publish", !.then = "record", !.orelse = "unrecorded",
                           !.agents = n.agents, !.base = n.base]
          /\ k.pc = "specs"
      BY <1>1, <1>6 DEF ActivateGrants, At
    <2>2. /\ n.op = k.op /\ n.item = k.item /\ n.cat = k.cat /\ n.last = k.last
          /\ n.pc = "publish" /\ n.then = "record"
      BY <1>1, <2>1 DEF Fields
    <2> QED
      BY <1>2, <2>1, <2>2
  <1>7. CASE ActivateRaises(t)
    BY <1>3, <1>7 DEF ActivateRaises, At, OfPack
  <1>8. CASE ActivateNoDelta(t)
    BY <1>3, <1>8 DEF ActivateNoDelta, At, OfPack
  <1>9. CASE ActivateUnrecorded(t)
    BY <1>3, <1>9 DEF ActivateUnrecorded, At, OfPack
  <1>10. CASE ActivateRecords(t)
    BY <1>3, <1>10 DEF ActivateRecords, At, OfPack
  <1> QED
    BY <1>4, <1>5, <1>6, <1>7, <1>8, <1>9, <1>10 DEF PackStep

(* The steps of the studio that neither touch a store nor open the catalog. *)
LEMMA StudioQuiet ==
  ASSUME StudioInv, NEW t \in Threads,
         \/ Saves(t) \/ Grants(t) \/ Reloads(t) \/ Tests(t) \/ Promotes(t)
         \/ PromotesPack(t) /\ Goto(t, "idle")
  PROVE  Quiet(task[t], task'[t])
  <1> DEFINE k == task[t]
             n == task'[t]
  <1>1. /\ DOMAIN k = Fields /\ WorkAt(k) /\ FlowAt(k) /\ DOMAIN task = Threads
        /\ k.last.status = "succeeded" => PassedOnce(k.item)
    BY WorkOf
  <1>2. CASE Saves(t)
    <2>1. /\ k.pc = "start" /\ k.op = "save"
          /\ IF k.item \in Packs THEN Goto(t, "define") ELSE Goto(t, "load")
      BY <1>2 DEF Saves, At
    <2> QED
      BY <2>1, GotoQuiet
  <1>3. CASE Grants(t)
    <2>1. /\ n = [k EXCEPT !.pc = "publish", !.then = "reload", !.orelse = "idle",
                           !.agents = n.agents, !.base = n.base]
          /\ k.pc = "grant"
      BY <1>1, <1>3 DEF Grants, At
    <2>2. /\ n.op = k.op /\ n.item = k.item /\ n.cat = k.cat /\ n.last = k.last
          /\ n.pc = "publish" /\ n.then = "reload"
      BY <1>1, <2>1 DEF Fields
    <2>3. k.op = "save" /\ k.item \notin Packs
      BY <1>1, <2>1 DEF FlowAt, WorkAt
    <2> HIDE DEF k, n
    <2>4. OpenAt(k)
      BY <2>1, <2>3 DEF OpenAt
    <2>5. Quiet(k, n)
      BY <1>1, <2>1, <2>2, <2>3, <2>4, SameQuiet DEF InPublication, InStudio
    <2> QED
      BY <2>5 DEF k, n
  <1>4. CASE Reloads(t)
    <2>1. Goto(t, "cat") /\ k.pc = "reload"
      BY <1>4 DEF Reloads, At
    <2>2. k.op \in Requests /\ OpenAt(k)
      BY <1>1, <2>1 DEF WorkAt, OpenAt, InStudio
    <2> QED
      BY <2>1, <2>2, GotoQuiet
  <1>5. CASE Tests(t)
    <2>1. /\ k.pc = "start" /\ k.op = "test"
          /\ Goto(t, "read_active") \/ Goto(t, "run") \/ Goto(t, "idle")
      BY <1>5 DEF Tests, At
    <2> QED
      BY <2>1, GotoQuiet
  <1>6. CASE PromotesPack(t) /\ Goto(t, "idle")
    <2>1. k.pc = "start"
      BY <1>6 DEF PromotesPack, At
    <2> QED
      BY <1>6, <2>1, GotoQuiet
  <1>7. CASE Promotes(t)
    <2>1. k.pc = "start" /\ k.op = "promote" /\ k.item \notin Packs /\ k.item \in Items
      BY <1>1, <1>7 DEF Promotes, At, WorkAt, Requests
    <2>2. CASE Goto(t, "idle")
      BY <2>1, <2>2, GotoQuiet
    <2>3. CASE ~Goto(t, "idle")
      <3> DEFINE l == Shown(k.item).last
      <3>1. task' = [task EXCEPT ![t].pc = "load", ![t].last = l]
        BY <1>7, <2>3 DEF Promotes
      <3>2. n = [k EXCEPT !.pc = "load", !.last = l]
        BY <1>1, <3>1
      <3>3. l = catalog[k.item].last \/ l = manifest[k.item].last
        BY DEF Shown
      <3>4. /\ l \in Outcome
            /\ l.status = "succeeded" => PassedOnce(k.item)
        BY <2>1, <3>3 DEF StudioInv, Stores, Meta, EarnedInv, Earned
      <3> HIDE DEF l
      <3>5. /\ n.op = k.op /\ n.item = k.item /\ n.cat = k.cat /\ n.last = l
            /\ n.pc = "load"
        BY <1>1, <3>2 DEF Fields
      <3> HIDE DEF n, k
      <3>6. WorkAt(n) /\ ~OpenAt(n)
        BY <1>1, <2>1, <3>4, <3>5 DEF WorkAt, OpenAt, InStudio, InPublication, Requests
      <3>7. Quiet(k, n)
        BY <2>1, <3>4, <3>5, <3>6 DEF Quiet
      <3> QED
        BY <3>7 DEF k, n
    <2> QED
      BY <2>2, <2>3
  <1> QED
    BY <1>2, <1>3, <1>4, <1>5, <1>6, <1>7

-----------------------------------------------------------------------------
(* A task reads the catalog and changes the entry of its item to m.         *)
LEMMA OpensStep ==
  ASSUME StudioInv, NEW t \in Threads, Flow', NEW m \in Meta,
         UNCHANGED <<content, catalog, manifest, passed, promoted, outdated>>,
         raced' = (raced \/ \E u \in Others(t) : Open(u)),
         \A u \in Threads \ {t} : task'[u] = task[u],
         ~OpenAt(task[t]), task[t].op \in Requests,
         task'[t].cat = [catalog EXCEPT ![task[t].item] = m],
         task'[t].op = task[t].op, task'[t].item = task[t].item, task'[t].last = task[t].last,
         \/ task'[t].pc = "cat"
         \/ task'[t].pc = "define" /\ task[t].op = "save" /\ task[t].item \notin Packs,
         Earned(m) => PassedOnce(task[t].item),
         task[t].item \in Packs /\ Earned(m) /\ ~raced /\ ~outdated =>
           Excused(task[t].item) /\ task[t].op # "save",
         catalog[task[t].item].promoted = "yes" =>
           m.promoted = "yes" \/ (task[t].op = "save" /\ task[t].item \in Packs),
         task[t].op = "promote" => m.promoted = "yes"
  PROVE  StudioInv'
  <1> DEFINE i0 == task[t].item
             c == [catalog EXCEPT ![i0] = m]
  <1>1. /\ Stores /\ WorkAt(task[t]) /\ i0 \in Items
        /\ catalog \in [Items -> Meta]
    BY WorkOf DEF StudioInv, Stores, WorkAt
  <1>2. /\ c \in [Items -> Meta] /\ c[i0] = m
        /\ \A i \in Items \ {i0} : c[i] = catalog[i]
    BY <1>1
  <1>3. \A i : PassedOnce(i)' <=> PassedOnce(i)
    BY DEF PassedOnce
  <1>4. Works0' /\ Stores'
    <2>1. WorkAt(task'[t])
      BY <1>1, <1>2 DEF WorkAt, InStudio, InPublication, Requests
    <2>2. Works0'
      BY <2>1 DEF StudioInv, Works0
    <2>3. Stores'
      BY <1>1 DEF Stores
    <2> QED
      BY <2>2, <2>3
  <1> HIDE DEF c, i0
  <1>5. EarnedInv'
    <2>1. \A i \in Items : Earned(c[i]) => PassedOnce(i)
      BY <1>1, <1>2 DEF StudioInv, EarnedInv, i0
    <2>2. \A u \in Threads : \A i \in Items : Earned(task'[u].cat[i]) => PassedOnce(i)
      BY <2>1 DEF StudioInv, EarnedInv, c, i0
    <2>3. \A u \in Threads : task'[u].last.status = "succeeded" => PassedOnce(task'[u].item)
      BY DEF StudioInv, EarnedInv
    <2> QED
      BY <1>3, <2>2, <2>3 DEF StudioInv, EarnedInv
  <1>6. raced \/ raced' \/ \A u \in Threads \ {t} : ~OpenAt(task[u]) /\ ~OpenAt(task'[u])
    BY OpenIs DEF Others
  <1>7. OneOpen'
    BY <1>6 DEF OneOpen
  <1>8. ReadyInv'
    <2> SUFFICES ASSUME ~raced', ~outdated, NEW p \in Packs
                 PROVE  /\ Earned(catalog[p]) => Excused(p)'
                        /\ \A u \in Threads : InHand(task'[u]) =>
                             /\ Earned(task'[u].cat[p]) => Excused(p)'
                             /\ task'[u].op = "save" /\ task'[u].item = p =>
                                  ~Earned(task'[u].cat[p])
                        /\ \A u \in Threads : task'[u].op = "test" /\ task'[u].item = p
                             /\ task'[u].last.status = "succeeded" => Fresh0(p)'
      BY DEF ReadyInv
    <2>1. ~raced /\ p \in Items
      BY DEF Items
    <2>2. Fresh0(p)' <=> Fresh0(p)
      BY DEF Fresh0
    <2>3. Excused(p) => Excused(p)'
      <3>1. \A u \in Threads : Resaving(task[u], p) => Resaving(task'[u], p)
        BY DEF Resaving
      <3> QED
        BY <2>2, <3>1 DEF Excused
    <2>4. Earned(catalog[p]) => Excused(p)
      BY <2>1 DEF StudioInv, ReadyInv
    <2>5. /\ Earned(c[p]) => Excused(p)
          /\ task[t].op = "save" /\ i0 = p => ~Earned(c[p])
      BY <1>2, <2>1, <2>4 DEF i0
    <2>6. \A u \in Threads : InHand(task'[u]) => u = t
      BY <1>6, <2>1 DEF InHand
    <2>7. \A u \in Threads : task'[u].op = task[u].op /\ task'[u].item = task[u].item
                             /\ task'[u].last = task[u].last
      OBVIOUS
    <2>8. \A u \in Threads : task[u].op = "test" /\ task[u].item = p
            /\ task[u].last.status = "succeeded" => Fresh0(p)
      BY <2>1 DEF StudioInv, ReadyInv
    <2>9. task'[t].cat = c /\ task'[t].item = i0 /\ task'[t].op = task[t].op
      BY DEF c, i0
    <2> QED
      BY <2>2, <2>3, <2>4, <2>5, <2>6, <2>7, <2>8, <2>9
  <1>9. PromotionInv'
    <2> SUFFICES ASSUME ~raced' PROVE PromotionInv'
      BY DEF PromotionInv
    <2>1. ~raced /\ promoted \subseteq Items
      BY <1>1 DEF Stores
    <2>2. \A u \in Threads : task[u].pc # "emptied" /\ task'[u].pc \notin {"emptied", "manifest"}
      BY <1>6, <2>1 DEF OpenAt
    <2>3. \A i \in promoted : catalog[i].promoted = "yes"
      BY <2>1, <2>2 DEF StudioInv, PromotionInv
    <2>4. HeldAt(task'[t])
      <3>1. task'[t].cat = c /\ task'[t].item = i0 /\ task'[t].op = task[t].op
        BY DEF c, i0
      <3>2. \A i \in promoted : c[i].promoted = "yes"
                \/ (i = i0 /\ task[t].op = "save" /\ i \in Packs)
        BY <1>2, <2>1, <2>3 DEF i0
      <3>3. task[t].op = "promote" => c[i0].promoted = "yes"
        BY <1>2
      <3> QED
        BY <3>1, <3>2, <3>3 DEF HeldAt
    <2>5. HeldAt(task[t])'
      BY <2>4 DEF HeldAt
    <2>6. \A u \in Threads : InHand(task'[u]) => u = t
      BY <1>6, <2>1 DEF InHand
    <2> QED
      BY <2>2, <2>3, <2>5, <2>6 DEF PromotionInv
  <1> QED
    BY <1>4, <1>5, <1>7, <1>8, <1>9 DEF StudioInv

LEMMA EditedIs ==
  ASSUME NEW k, k.op \in Requests, k.last \in Outcome, NEW m \in Meta
  PROVE  /\ Edited(k, m) \in Meta
         /\ Earned(Edited(k, m)) => Earned(m) \/ k.last.status = "succeeded"
         /\ k.op = "save" /\ k.item \in Packs => ~Earned(Edited(k, m))
         /\ m.promoted = "yes" =>
              Edited(k, m).promoted = "yes" \/ (k.op = "save" /\ k.item \in Packs)
         /\ k.op = "promote" => Edited(k, m).promoted = "yes"
  <1>1. /\ m.promoted \in {"absent", "yes", "no"} /\ m.maturity \in {"absent", "draft", "ready"}
        /\ m.last \in Outcome
    BY DEF Meta
  <1>2. CASE k.op = "save"
    <2>1. Kept(m) \in Meta /\ (Earned(Kept(m)) => Earned(m))
          /\ (m.promoted = "yes" => Kept(m).promoted = "yes")
      BY <1>1 DEF Kept, Either, Meta, Earned
    <2>2. Draft \in Meta /\ ~Earned(Draft)
      BY NothingType DEF Draft, Kept, Either, Meta, Earned, NoMeta, Nothing
    <2> QED
      BY <1>2, <2>1, <2>2 DEF Edited
  <1>3. CASE k.op = "test"
    <2> DEFINE mat == IF k.item \notin Packs /\ k.last.status = "succeeded"
                      THEN Either(m.maturity, "absent", "draft") ELSE m.maturity
    <2>1. Edited(k, m) = [m EXCEPT !.last = k.last, !.maturity = mat]
      BY <1>3 DEF Edited
    <2>2. mat \in {"absent", "draft", "ready"} /\ (mat = "ready" => m.maturity = "ready")
      BY <1>1 DEF Either
    <2> HIDE DEF mat
    <2> QED
      BY <1>3, <2>1, <2>2 DEF Meta, Earned
  <1>4. CASE k.op = "promote"
    <2>1. Edited(k, m) = [m EXCEPT !.promoted = "yes", !.maturity = Ready(k.last)]
      BY <1>4 DEF Edited
    <2>2. Ready(k.last) \in {"draft", "ready"}
          /\ (Ready(k.last) = "ready" => k.last.status = "succeeded")
      BY DEF Ready
    <2> QED
      BY <1>4, <2>1, <2>2 DEF Meta, Earned
  <1> QED
    BY <1>2, <1>3, <1>4 DEF Requests

LEMMA LoadsStep ==
  ASSUME StudioInv, NEW t \in Threads, Flow', Loads(t)
  PROVE  StudioInv'
  <1> DEFINE k == task[t]
             n == task'[t]
             m == Edited(k, catalog[k.item])
  <1>1. /\ DOMAIN k = Fields /\ WorkAt(k) /\ DOMAIN task = Threads
        /\ k.last.status = "succeeded" => PassedOnce(k.item)
    BY WorkOf
  <1>2. PICK c, pc : /\ c = [catalog EXCEPT ![k.item] = m]
                     /\ pc = IF k.op = "save" /\ k.item \notin Packs THEN "define" ELSE "cat"
    OBVIOUS
  <1>3. /\ task' = [task EXCEPT ![t].cat = c, ![t].pc = pc]
        /\ k.pc = "load"
        /\ UNCHANGED <<content, catalog, manifest, passed, promoted, outdated>>
        /\ raced' = (raced \/ \E u \in Others(t) : Open(u))
    BY <1>2 DEF Loads, At, packVars
  <1>4. n = [k EXCEPT !.cat = c, !.pc = pc] /\ \A u \in Threads \ {t} : task'[u] = task[u]
    BY <1>1, <1>3
  <1>5. n.cat = c /\ n.pc = pc /\ n.op = k.op /\ n.item = k.item /\ n.last = k.last
    BY <1>1, <1>4 DEF Fields
  <1>6. k.op \in Requests /\ k.item \in Items /\ k.last \in Outcome /\ ~OpenAt(k)
    BY <1>1, <1>3 DEF WorkAt, OpenAt, InStudio, InPublication
  <1>7. catalog[k.item] \in Meta
    BY <1>6 DEF StudioInv, Stores
  <1>8. /\ m \in Meta
        /\ Earned(m) => Earned(catalog[k.item]) \/ k.last.status = "succeeded"
        /\ k.op = "save" /\ k.item \in Packs => ~Earned(m)
        /\ catalog[k.item].promoted = "yes" =>
             m.promoted = "yes" \/ (k.op = "save" /\ k.item \in Packs)
        /\ k.op = "promote" => m.promoted = "yes"
    BY <1>6, <1>7, EditedIs
  <1>9. Earned(m) => PassedOnce(k.item)
    BY <1>1, <1>6, <1>8 DEF StudioInv, EarnedInv
  <1>10. ASSUME k.item \in Packs, Earned(m), ~raced, ~outdated
         PROVE  Excused(k.item) /\ k.op # "save"
    <2>1. k.op = "test"
      BY <1>1, <1>3, <1>6, <1>8, <1>10 DEF WorkAt, Requests
    <2>2. CASE Earned(catalog[k.item])
      BY <1>10, <2>1, <2>2 DEF StudioInv, ReadyInv
    <2>3. CASE k.last.status = "succeeded"
      <3>1. Fresh0(k.item)
        BY <1>10, <2>1, <2>3 DEF StudioInv, ReadyInv
      <3> QED
        BY <2>1, <3>1 DEF Excused
    <2> QED
      BY <1>8, <1>10, <2>2, <2>3
  <1>11. pc = "cat" \/ (pc = "define" /\ k.op = "save" /\ k.item \notin Packs)
    BY <1>2
  <1> HIDE DEF m
  <1> QED
    BY <1>2, <1>3, <1>4, <1>5, <1>6, <1>8, <1>9, <1>10, <1>11, OpensStep

LEMMA PromotesPackStep ==
  ASSUME StudioInv, NEW t \in Threads, Flow', PromotesPack(t), ~Goto(t, "idle")
  PROVE  StudioInv'
  <1> DEFINE k == task[t]
             n == task'[t]
             l == catalog[k.item].last
             m == Edited([k EXCEPT !.last = l], catalog[k.item])
  <1>1. /\ DOMAIN k = Fields /\ WorkAt(k) /\ DOMAIN task = Threads
    BY WorkOf
  <1>2. PICK c : c = [catalog EXCEPT ![k.item] = m]
    OBVIOUS
  <1>3. /\ task' = [task EXCEPT ![t].pc = "cat", ![t].cat = c]
        /\ k.pc = "start" /\ k.op = "promote" /\ k.item \in Packs
        /\ UNCHANGED <<content, catalog, manifest, passed, promoted, outdated>>
        /\ raced' = (raced \/ \E u \in Others(t) : Open(u))
    BY <1>2 DEF PromotesPack, At, packVars
  <1>4. n = [k EXCEPT !.pc = "cat", !.cat = c] /\ \A u \in Threads \ {t} : task'[u] = task[u]
    BY <1>1, <1>3
  <1>5. n.cat = c /\ n.pc = "cat" /\ n.op = k.op /\ n.item = k.item /\ n.last = k.last
    BY <1>1, <1>4 DEF Fields
  <1>6. k.op \in Requests /\ k.item \in Items /\ ~OpenAt(k)
    BY <1>1, <1>3 DEF WorkAt, OpenAt, InStudio, InPublication, Requests
  <1>7. catalog[k.item] \in Meta /\ l \in Outcome
    BY <1>6 DEF StudioInv, Stores, Meta
  <1>8. l.status = "succeeded" => Earned(catalog[k.item])
    BY DEF Earned
  <1> DEFINE e == [k EXCEPT !.last = l]
  <1>9. e.last = l /\ e.op = k.op /\ e.item = k.item
    BY <1>1 DEF Fields
  <1> HIDE DEF e, l
  <1>10. /\ Edited(e, catalog[k.item]) \in Meta
         /\ Earned(Edited(e, catalog[k.item])) => Earned(catalog[k.item])
         /\ Edited(e, catalog[k.item]).promoted = "yes"
    BY <1>3, <1>6, <1>7, <1>8, <1>9, EditedIs
  <1>11. m \in Meta /\ (Earned(m) => Earned(catalog[k.item])) /\ m.promoted = "yes"
    BY <1>10 DEF e, l
  <1> HIDE DEF m
  <1>12. Earned(m) => PassedOnce(k.item)
    BY <1>6, <1>11 DEF StudioInv, EarnedInv
  <1>13. ~raced /\ ~outdated /\ Earned(m) => Excused(k.item)
    BY <1>3, <1>11 DEF StudioInv, ReadyInv
  <1> QED
    BY <1>2, <1>3, <1>4, <1>5, <1>6, <1>11, <1>12, <1>13, OpensStep

-----------------------------------------------------------------------------
(* The steps that change a store.                                           *)
LEMMA GoesOn ==
  ASSUME StudioInv, NEW t \in Threads, NEW pc, Goto(t, pc)
  PROVE  /\ \A u \in Threads \ {t} : task'[u] = task[u]
         /\ pc = "idle" => task'[t] = AtRest
         /\ pc # "idle" =>
              /\ task'[t].pc = pc /\ task'[t].op = task[t].op
              /\ task'[t].item = task[t].item /\ task'[t].cat = task[t].cat
              /\ task'[t].last = task[t].last
  <1>1. DOMAIN task = Threads /\ DOMAIN task[t] = Fields
    BY WorkOf
  <1>2. CASE pc = "idle"
    BY <1>1, <1>2 DEF Goto
  <1>3. CASE pc # "idle"
    <2>1. task' = [task EXCEPT ![t] = [task[t] EXCEPT !.pc = pc]]
      BY <1>3 DEF Goto
    <2>2. task'[t] = [task[t] EXCEPT !.pc = pc]
          /\ \A u \in Threads \ {t} : task'[u] = task[u]
      BY <1>1, <2>1
    <2> QED
      BY <1>1, <1>3, <2>2 DEF Fields
  <1> QED
    BY <1>2, <1>3

(* Nobody else has the catalog open.                                        *)
LEMMA AloneAtIt ==
  ASSUME StudioInv, NEW t \in Threads, OpenAt(task[t]), ~raced
  PROVE  \A u \in Threads \ {t} : ~OpenAt(task[u]) /\ ~InHand(task[u])
                                  /\ task[u].pc \notin {"emptied", "manifest"}
  BY DEF StudioInv, OneOpen, OpenAt, InHand

LEMMA EmptiesStep ==
  ASSUME StudioInv, NEW t \in Threads, Flow', Empties(t)
  PROVE  StudioInv'
  <1> DEFINE k == task[t]
             n == task'[t]
  <1>1. /\ n.pc = "emptied" /\ n.op = k.op /\ n.item = k.item /\ n.cat = k.cat
        /\ n.last = k.last /\ k.pc = "cat"
        /\ \A u \in Threads \ {t} : task'[u] = task[u]
    <2>1. Goto(t, "emptied") /\ k.pc = "cat"
      BY DEF Empties, At
    <2> QED
      BY <2>1, GoesOn
  <1>2. /\ UNCHANGED <<content, manifest, passed, promoted, raced, outdated>>
        /\ catalog' = Empty
    BY DEF Empties, packVars
  <1>3. \A i \in Items : catalog'[i] = NoMeta
    BY <1>2 DEF Empty
  <1>4. OpenAt(k) /\ InHand(k) /\ WorkAt(k)
    BY <1>1, WorkOf DEF OpenAt, InHand
  <1> HIDE DEF k, n
  <1>5. Works0'
    <2>1. WorkAt(n)
      BY <1>1, <1>4 DEF WorkAt, InStudio, InPublication
    <2> QED
      BY <1>1, <2>1 DEF StudioInv, Works0, n
  <1>6. Stores'
    <2>1. catalog' \in [Items -> Meta]
      BY <1>2, NothingType DEF Empty
    <2> QED
      BY <1>2, <2>1 DEF StudioInv, Stores
  <1>7. EarnedInv'
    <2>1. \A i : PassedOnce(i)' <=> PassedOnce(i)
      BY <1>2 DEF PassedOnce
    <2>2. \A u \in Threads : task'[u].cat = task[u].cat /\ task'[u].last = task[u].last
                             /\ task'[u].item = task[u].item
      BY <1>1 DEF k, n
    <2> QED
      BY <1>2, <1>3, <2>1, <2>2, NothingType DEF StudioInv, EarnedInv
  <1>8. OneOpen'
    <2>1. \A u \in Threads : OpenAt(task'[u]) => OpenAt(task[u])
      BY <1>1, <1>4 DEF k, n
    <2> QED
      BY <1>2, <2>1 DEF StudioInv, OneOpen
  <1>9. \A u \in Threads : /\ InHand(task'[u]) => InHand(task[u])
                           /\ task'[u].cat = task[u].cat /\ task'[u].op = task[u].op
                           /\ task'[u].item = task[u].item /\ task'[u].last = task[u].last
    BY <1>1, <1>4 DEF k, n
  <1>10. ReadyInv'
    <2> SUFFICES ASSUME ~raced, ~outdated, NEW p \in Packs
                 PROVE  /\ Earned(catalog'[p]) => Excused(p)'
                        /\ \A u \in Threads : InHand(task'[u]) =>
                             /\ Earned(task'[u].cat[p]) => Excused(p)'
                             /\ task'[u].op = "save" /\ task'[u].item = p =>
                                  ~Earned(task'[u].cat[p])
                        /\ \A u \in Threads : task'[u].op = "test" /\ task'[u].item = p
                             /\ task'[u].last.status = "succeeded" => Fresh0(p)'
      BY <1>2 DEF ReadyInv
    <2>1. Fresh0(p)' <=> Fresh0(p)
      BY <1>2 DEF Fresh0
    <2>2. \A u \in Threads : Resaving(task[u], p) => Resaving(task'[u], p)
      BY <1>1 DEF Resaving, k, n
    <2>3. Excused(p) => Excused(p)'
      BY <2>1, <2>2 DEF Excused
    <2>4. ~Earned(catalog'[p])
      BY <1>3, NothingType DEF Items
    <2> QED
      BY <1>9, <2>1, <2>3, <2>4 DEF StudioInv, ReadyInv
  <1>11. PromotionInv'
    <2> SUFFICES ASSUME ~raced PROVE PromotionInv'
      BY <1>2 DEF PromotionInv
    <2>1. n.pc = "emptied"
      BY <1>1
    <2>2. \A u \in Threads : task'[u].pc # "manifest"
      BY <1>1, <1>4, AloneAtIt DEF k, n
    <2>3. \A u \in Threads : InHand(task'[u]) => HeldAt(task[u])'
      <3> SUFFICES ASSUME NEW u \in Threads, InHand(task'[u])
                   PROVE  HeldAt(task[u])'
        OBVIOUS
      <3>1. HeldAt(task[u])
        BY <1>9 DEF StudioInv, PromotionInv
      <3> QED
        BY <1>2, <1>9, <3>1 DEF HeldAt
    <2> QED
      BY <2>1, <2>2, <2>3 DEF PromotionInv, n
  <1> QED
    BY <1>5, <1>6, <1>7, <1>8, <1>10, <1>11 DEF StudioInv

LEMMA CatalogWritesStep ==
  ASSUME StudioInv, NEW t \in Threads, Flow', Writes(t)
  PROVE  StudioInv'
  <1> DEFINE k == task[t]
             n == task'[t]
             more == k.op # "save" /\ k.item \notin Packs
  <1>1. /\ k.pc = "emptied" /\ Goto(t, IF more THEN "manifest" ELSE "idle")
        /\ UNCHANGED <<content, manifest, passed, raced, outdated>>
        /\ catalog' = k.cat
        /\ promoted' = IF more THEN promoted ELSE Answered(t)
    BY DEF Writes, At, packVars
  <1>2. /\ \A u \in Threads \ {t} : task'[u] = task[u]
        /\ ~more => n = AtRest
        /\ more => /\ n.pc = "manifest" /\ n.op = k.op /\ n.item = k.item /\ n.cat = k.cat
                   /\ n.last = k.last
    <2>1. CASE more
      BY <1>1, <2>1, GoesOn
    <2>2. CASE ~more
      BY <1>1, <2>2, GoesOn
    <2> QED
      BY <2>1, <2>2
  <1>3. OpenAt(k) /\ InHand(k) /\ WorkAt(k)
    BY <1>1, WorkOf DEF OpenAt, InHand
  <1>4. k.op \in Requests /\ k.item \in Items
    BY <1>1, <1>3 DEF WorkAt, InStudio
  <1>5. promoted' \subseteq promoted \cup {k.item}
    BY <1>1 DEF Answered
  <1> HIDE DEF k, n
  <1>6. Works0'
    <2>1. WorkAt(n)
      BY <1>2, <1>3, <1>4, RestWorks DEF WorkAt, InStudio, InPublication
    <2> QED
      BY <1>2, <2>1 DEF StudioInv, Works0, n
  <1>7. Stores'
    BY <1>1, <1>3, <1>4, <1>5 DEF StudioInv, Stores, WorkAt
  <1>8. \A u \in Threads : task'[u] = AtRest
          \/ /\ task'[u].cat = task[u].cat /\ task'[u].op = task[u].op
             /\ task'[u].item = task[u].item /\ task'[u].last = task[u].last
    BY <1>2 DEF k, n
  <1>9. EarnedInv'
    <2>1. \A i : PassedOnce(i)' <=> PassedOnce(i)
      BY <1>1 DEF PassedOnce
    <2>2. \A i \in Items : Earned(catalog'[i]) \/ Earned(manifest'[i]) => PassedOnce(i)
      BY <1>1 DEF StudioInv, EarnedInv, k
    <2>3. \A u \in Threads : \A i \in Items : Earned(task'[u].cat[i]) => PassedOnce(i)
      <3> SUFFICES ASSUME NEW u \in Threads, NEW i \in Items, Earned(task'[u].cat[i])
                   PROVE  PassedOnce(i)
        OBVIOUS
      <3>1. task'[u] # AtRest
        BY RestWorks, NothingType
      <3> QED
        BY <1>8, <3>1 DEF StudioInv, EarnedInv
    <2>4. \A u \in Threads : task'[u].last.status = "succeeded" => PassedOnce(task'[u].item)
      <3> SUFFICES ASSUME NEW u \in Threads, task'[u].last.status = "succeeded"
                   PROVE  PassedOnce(task'[u].item)
        OBVIOUS
      <3>1. task'[u] # AtRest
        BY RestWorks
      <3> QED
        BY <1>8, <3>1 DEF StudioInv, EarnedInv
    <2> QED
      BY <2>1, <2>2, <2>3, <2>4 DEF EarnedInv
  <1>10. OneOpen'
    <2>1. \A u \in Threads : OpenAt(task'[u]) => OpenAt(task[u])
      BY <1>2, <1>3 DEF k, n
    <2> QED
      BY <1>1, <2>1 DEF StudioInv, OneOpen
  <1>11. ~InHand(n)
    BY <1>2, RestWorks DEF InHand
  <1>12. ~raced => \A u \in Threads : ~InHand(task'[u])
    BY <1>2, <1>3, <1>11, AloneAtIt DEF k, n
  <1>13. ReadyInv'
    <2> SUFFICES ASSUME ~raced, ~outdated, NEW p \in Packs
                 PROVE  /\ Earned(catalog'[p]) => Excused(p)'
                        /\ \A u \in Threads : task'[u].op = "test" /\ task'[u].item = p
                             /\ task'[u].last.status = "succeeded" => Fresh0(p)'
      BY <1>1, <1>12 DEF ReadyInv
    <2>1. Fresh0(p)' <=> Fresh0(p)
      BY <1>1 DEF Fresh0
    <2>2. ASSUME Earned(catalog'[p]) PROVE Excused(p)'
      <3>1. Earned(k.cat[p]) /\ Excused(p)
        BY <1>1, <1>3, <2>2 DEF StudioInv, ReadyInv, k
      <3>2. ~Resaving(k, p)
        BY <1>3, <3>1 DEF StudioInv, ReadyInv, Resaving, k
      <3>3. \A u \in Threads : Resaving(task[u], p) => Resaving(task'[u], p)
        BY <1>2, <3>2 DEF k
      <3> QED
        BY <2>1, <3>1, <3>3 DEF Excused
    <2>3. ASSUME NEW u \in Threads, task'[u].op = "test", task'[u].item = p,
                 task'[u].last.status = "succeeded"
          PROVE  Fresh0(p)'
      <3>1. task'[u] # AtRest
        BY <2>3, RestWorks
      <3> QED
        BY <1>8, <2>1, <2>3, <3>1 DEF StudioInv, ReadyInv
    <2> QED
      BY <2>2, <2>3
  <1>14. PromotionInv'
    <2> SUFFICES ASSUME ~raced PROVE PromotionInv'
      BY <1>1 DEF PromotionInv
    <2>1. HeldAt(k)
      BY <1>3 DEF StudioInv, PromotionInv, k
    <2>2. \A i \in promoted' : k.cat[i].promoted = "yes"
      <3> SUFFICES ASSUME NEW i \in promoted' PROVE k.cat[i].promoted = "yes"
        OBVIOUS
      <3>1. i \in promoted \/ (i = k.item /\ k.op = "promote")
        BY <1>1 DEF Answered, k
      <3>2. ~(i = k.item /\ k.op = "save" /\ i \in Packs)
        BY <1>1 DEF Answered, k
      <3> QED
        BY <2>1, <3>1, <3>2 DEF HeldAt
    <2>3. \A u \in Threads : task'[u].pc = "manifest" =>
            u = t /\ task'[u].op = k.op /\ task'[u].item = k.item
      BY <1>2, <1>3, AloneAtIt DEF k, n, AtRest
    <2>4. k.op = "promote" => k.cat[k.item].promoted = "yes"
      BY <2>1 DEF HeldAt
    <2> QED
      BY <1>1, <1>12, <2>2, <2>3, <2>4 DEF PromotionInv
  <1> QED
    BY <1>6, <1>7, <1>9, <1>10, <1>13, <1>14 DEF StudioInv

LEMMA FollowsStep ==
  ASSUME StudioInv, NEW t \in Threads, Flow', Follows(t)
  PROVE  StudioInv'
  <1> DEFINE k == task[t]
             i0 == task[t].item
  <1>1. /\ k.pc = "manifest" /\ Goto(t, "idle")
        /\ UNCHANGED <<content, catalog, passed, raced, outdated>>
        /\ promoted' = Answered(t)
        /\ manifest' = IF k.op = "test" THEN [manifest EXCEPT ![i0].last = k.last]
                       ELSE [manifest EXCEPT ![i0].promoted = "yes",
                                             ![i0].maturity = Ready(k.last)]
    BY DEF Follows, At, packVars
  <1>2. task'[t] = AtRest /\ \A u \in Threads \ {t} : task'[u] = task[u]
    BY <1>1, GoesOn
  <1>3. OpenAt(k) /\ WorkAt(k) /\ (k.last.status = "succeeded" => PassedOnce(i0))
    BY <1>1, WorkOf DEF OpenAt
  <1>4. i0 \in Items /\ i0 \notin Packs /\ k.last \in Outcome
    BY <1>1, <1>3 DEF WorkAt, InStudio
  <1>5. /\ promoted' \subseteq promoted \cup {i0}
        /\ promoted' # promoted => k.op = "promote"
    BY <1>1, <1>4 DEF Answered
  <1>6. Ready(k.last) \in {"draft", "ready"}
        /\ (Ready(k.last) = "ready" => k.last.status = "succeeded")
    BY DEF Ready
  <1>7. /\ manifest \in [Items -> Meta]
        /\ manifest'[i0] \in Meta
        /\ Earned(manifest'[i0]) => Earned(manifest[i0]) \/ k.last.status = "succeeded"
        /\ \A i \in Items \ {i0} : manifest'[i] = manifest[i]
        /\ manifest' \in [Items -> Meta]
    <2>1. manifest \in [Items -> Meta] /\ manifest[i0] \in Meta
      BY <1>4 DEF StudioInv, Stores
    <2> HIDE DEF k, i0
    <2>2. CASE k.op = "test"
      <3>1. manifest'[i0] = [manifest[i0] EXCEPT !.last = k.last]
            /\ manifest' = [manifest EXCEPT ![i0] = [manifest[i0] EXCEPT !.last = k.last]]
        BY <1>1, <1>4, <2>1, <2>2
      <3>2. [manifest[i0] EXCEPT !.last = k.last] \in Meta
            /\ (Earned([manifest[i0] EXCEPT !.last = k.last]) =>
                  Earned(manifest[i0]) \/ k.last.status = "succeeded")
        BY <1>4, <2>1 DEF Meta, Earned
      <3> QED
        BY <1>4, <2>1, <3>1, <3>2
    <2>3. CASE k.op # "test"
      <3> DEFINE m == [manifest[i0] EXCEPT !.promoted = "yes", !.maturity = Ready(k.last)]
      <3>1. manifest'[i0] = m /\ manifest' = [manifest EXCEPT ![i0] = m]
        BY <1>1, <1>4, <2>1, <2>3
      <3>2. m \in Meta
            /\ (Earned(m) => Earned(manifest[i0]) \/ k.last.status = "succeeded")
        BY <1>4, <1>6, <2>1 DEF Meta, Earned
      <3> HIDE DEF m
      <3> QED
        BY <1>4, <2>1, <3>1, <3>2
    <2> QED
      BY <2>2, <2>3
  <1> HIDE DEF k, i0
  <1>8. Works0'
    BY <1>2, RestWorks DEF StudioInv, Works0
  <1>9. Stores'
    <2>1. \A i \in Packs : manifest'[i] = NoMeta
      BY <1>4, <1>7 DEF StudioInv, Stores, Items
    <2>2. promoted' \subseteq Items
      BY <1>4, <1>5 DEF StudioInv, Stores
    <2>3. UNCHANGED <<content, catalog, passed>>
      BY <1>1
    <2>4. Stores
      BY DEF StudioInv
    <2>5. \A i \in Items : \A n : <<i, n>> \in passed' => n \in 1 .. content'[i]
      BY <2>3, <2>4 DEF Stores
    <2> QED
      BY <1>7, <2>1, <2>2, <2>3, <2>4, <2>5 DEF Stores
  <1>10. EarnedInv'
    <2>1. \A i : PassedOnce(i)' <=> PassedOnce(i)
      BY <1>1 DEF PassedOnce
    <2>2. \A i \in Items : Earned(catalog'[i]) \/ Earned(manifest'[i]) => PassedOnce(i)
      BY <1>1, <1>3, <1>7 DEF StudioInv, EarnedInv
    <2>3. \A u \in Threads : \A i \in Items : Earned(task'[u].cat[i]) => PassedOnce(i)
      BY <1>2, RestWorks, NothingType DEF StudioInv, EarnedInv
    <2>4. \A u \in Threads : task'[u].last.status = "succeeded" => PassedOnce(task'[u].item)
      BY <1>2, RestWorks DEF StudioInv, EarnedInv
    <2> QED
      BY <2>1, <2>2, <2>3, <2>4 DEF EarnedInv
  <1>11. \A u \in Threads : OpenAt(task'[u]) => u # t /\ task'[u] = task[u]
    BY <1>2, RestWorks
  <1>12. OneOpen'
    BY <1>1, <1>11 DEF StudioInv, OneOpen
  <1>13. \A u \in Threads : InHand(task'[u]) => u # t /\ task'[u] = task[u]
    BY <1>11 DEF InHand
  <1>14. ReadyInv'
    <2> SUFFICES ASSUME ~raced, ~outdated, NEW p \in Packs
                 PROVE  /\ Earned(catalog'[p]) => Excused(p)'
                        /\ \A u \in Threads : InHand(task'[u]) =>
                             /\ Earned(task'[u].cat[p]) => Excused(p)'
                             /\ task'[u].op = "save" /\ task'[u].item = p =>
                                  ~Earned(task'[u].cat[p])
                        /\ \A u \in Threads : task'[u].op = "test" /\ task'[u].item = p
                             /\ task'[u].last.status = "succeeded" => Fresh0(p)'
      BY <1>1 DEF ReadyInv
    <2>1. Fresh0(p)' <=> Fresh0(p)
      BY <1>1 DEF Fresh0
    <2>2. \A u \in Threads : Resaving(task[u], p) => Resaving(task'[u], p)
      BY <1>1, <1>2 DEF Resaving, k
    <2>3. Excused(p) => Excused(p)'
      BY <2>1, <2>2 DEF Excused
    <2>4. \A u \in Threads : task'[u].last.status = "succeeded" => task'[u] = task[u]
      BY <1>2, RestWorks
    <2> QED
      BY <1>1, <1>13, <2>1, <2>3, <2>4 DEF StudioInv, ReadyInv
  <1>15. PromotionInv'
    <2> SUFFICES ASSUME ~raced PROVE PromotionInv'
      BY <1>1 DEF PromotionInv
    <2>1. \A u \in Threads : task[u].pc # "emptied"
      BY <1>1, <1>3, AloneAtIt DEF k
    <2>2. \A i \in promoted' : catalog[i].promoted = "yes"
      <3>1. \A i \in promoted : catalog[i].promoted = "yes"
        BY <2>1 DEF StudioInv, PromotionInv
      <3>2. k.op = "promote" => catalog[i0].promoted = "yes"
        <4>1. k.pc = "manifest"
          BY <1>1
        <4> QED
          BY <4>1 DEF StudioInv, PromotionInv, k, i0
      <3>3. \A i \in promoted' : i \in promoted \/ (i = i0 /\ k.op = "promote")
        BY <1>5
      <3> QED
        BY <3>1, <3>2, <3>3
    <2>3. \A u \in Threads : ~InHand(task'[u]) /\ task'[u].pc # "manifest"
      BY <1>2, <1>3, <1>13, AloneAtIt, AtRestFlows DEF k
    <2> QED
      BY <1>1, <2>2, <2>3 DEF PromotionInv
  <1> QED
    BY <1>8, <1>9, <1>10, <1>12, <1>14, <1>15 DEF StudioInv

LEMMA RunsStep ==
  ASSUME StudioInv, NEW t \in Threads, Flow', NEW s \in {"succeeded", "failed"}, Runs(t, s)
  PROVE  StudioInv'
  <1> DEFINE k == task[t]
             n == task'[t]
             i0 == task[t].item
  <1>1. PICK l : l = [status |-> s, of |-> content[i0]]
    OBVIOUS
  <1>2. /\ k.pc = "run" /\ task' = [task EXCEPT ![t].pc = "load", ![t].last = l]
        /\ UNCHANGED <<content, catalog, manifest, promoted, raced, outdated>>
        /\ passed' = IF s = "succeeded" THEN passed \cup {<<i0, content[i0]>>} ELSE passed
        /\ s = "succeeded" => content[i0] > 0
    BY <1>1 DEF Runs, At, MayRun, packVars
  <1>3. /\ WorkAt(k) /\ DOMAIN k = Fields /\ DOMAIN task = Threads
    BY WorkOf
  <1>4. n = [k EXCEPT !.pc = "load", !.last = l] /\ \A u \in Threads \ {t} : task'[u] = task[u]
    BY <1>2, <1>3
  <1>5. n.pc = "load" /\ n.op = k.op /\ n.item = i0 /\ n.cat = k.cat /\ n.last = l
    BY <1>3, <1>4 DEF Fields
  <1>6. k.op = "test" /\ i0 \in Items /\ ~OpenAt(k)
    BY <1>2, <1>3 DEF WorkAt, InStudio, OpenAt, Requests, InPublication
  <1>7. content[i0] \in Nat /\ l \in Outcome /\ l.status = s
    BY <1>1, <1>6 DEF StudioInv, Stores, Outcome
  <1> HIDE DEF k, n, i0
  <1>8. ~OpenAt(n)
    BY <1>5, <1>6 DEF OpenAt
  <1>9. Works0'
    <2>1. WorkAt(n)
      BY <1>3, <1>5, <1>6, <1>7 DEF WorkAt, InStudio, InPublication, Requests, i0, k
    <2> QED
      BY <1>4, <2>1 DEF StudioInv, Works0, n
  <1>10. Stores'
    <2>1. \A i \in Items : \A m : <<i, m>> \in passed' => m \in 1 .. content[i]
      BY <1>2, <1>7 DEF StudioInv, Stores
    <2> QED
      BY <1>2, <2>1 DEF StudioInv, Stores
  <1>11. EarnedInv'
    <2>1. \A i : PassedOnce(i) => PassedOnce(i)'
      BY <1>2 DEF PassedOnce
    <2>2. ASSUME NEW i, i = i0, s = "succeeded" PROVE PassedOnce(i)'
      BY <1>2, <2>2 DEF PassedOnce
    <2>3. \A u \in Threads : task'[u].cat = task[u].cat
      BY <1>4, <1>5 DEF k, n
    <2>4. ASSUME NEW u \in Threads, NEW i, i = task'[u].item, task'[u].last.status = "succeeded"
          PROVE  PassedOnce(i)'
      <3>1. CASE u = t
        <4>1. i = i0 /\ s = "succeeded"
          BY <1>5, <1>7, <2>4, <3>1 DEF n
        <4> QED
          BY <2>2, <4>1
      <3>2. CASE u # t
        <4>1. PassedOnce(i)
          BY <1>4, <2>4, <3>2 DEF StudioInv, EarnedInv
        <4> QED
          BY <2>1, <4>1
      <3> QED
        BY <3>1, <3>2
    <2>5. \A i \in Items : Earned(catalog'[i]) \/ Earned(manifest'[i]) => PassedOnce(i)'
      BY <1>2, <2>1 DEF StudioInv, EarnedInv
    <2>6. \A u \in Threads : \A i \in Items : Earned(task'[u].cat[i]) => PassedOnce(i)'
      BY <2>1, <2>3 DEF StudioInv, EarnedInv
    <2> QED
      BY <2>4, <2>5, <2>6 DEF EarnedInv
  <1>12. \A u \in Threads : OpenAt(task'[u]) => u # t /\ task'[u] = task[u]
    BY <1>4, <1>8 DEF n
  <1>13. OneOpen'
    BY <1>2, <1>12 DEF StudioInv, OneOpen
  <1>14. \A u \in Threads : InHand(task'[u]) => u # t /\ task'[u] = task[u]
    BY <1>12 DEF InHand
  <1>15. ReadyInv'
    <2> SUFFICES ASSUME ~raced, ~outdated, NEW p \in Packs
                 PROVE  /\ Earned(catalog'[p]) => Excused(p)'
                        /\ \A u \in Threads : InHand(task'[u]) =>
                             /\ Earned(task'[u].cat[p]) => Excused(p)'
                             /\ task'[u].op = "save" /\ task'[u].item = p =>
                                  ~Earned(task'[u].cat[p])
                        /\ \A u \in Threads : task'[u].op = "test" /\ task'[u].item = p
                             /\ task'[u].last.status = "succeeded" => Fresh0(p)'
      BY <1>2 DEF ReadyInv
    <2>1. Fresh0(p) => Fresh0(p)'
      BY <1>2 DEF Fresh0
    <2>2. \A u \in Threads : Resaving(task[u], p) => Resaving(task'[u], p)
      BY <1>2, <1>4 DEF Resaving, k
    <2>3. Excused(p) => Excused(p)'
      BY <2>1, <2>2 DEF Excused
    <2>4. ASSUME NEW u \in Threads, task'[u].op = "test", task'[u].item = p,
                 task'[u].last.status = "succeeded"
          PROVE  Fresh0(p)'
      <3>1. CASE u = t
        BY <1>2, <1>5, <1>7, <2>4, <3>1 DEF n, Fresh0
      <3>2. CASE u # t
        BY <1>4, <2>1, <2>4, <3>2 DEF StudioInv, ReadyInv
      <3> QED
        BY <3>1, <3>2
    <2> QED
      BY <1>2, <1>14, <2>3, <2>4 DEF StudioInv, ReadyInv
  <1>16. PromotionInv'
    <2> SUFFICES ASSUME ~raced PROVE PromotionInv'
      BY <1>2 DEF PromotionInv
    <2>1. (\A u \in Threads : task'[u].pc # "emptied") =>
            \A u \in Threads : task[u].pc # "emptied"
      BY <1>2, <1>4 DEF k
    <2>2. \A u \in Threads : task'[u].pc = "manifest" => u # t /\ task'[u] = task[u]
      BY <1>4, <1>5 DEF n
    <2>3. \A u \in Threads : InHand(task'[u]) => HeldAt(task[u])'
      <3> SUFFICES ASSUME NEW u \in Threads, InHand(task'[u])
                   PROVE  HeldAt(task[u])'
        OBVIOUS
      <3>1. HeldAt(task[u]) /\ task'[u] = task[u]
        BY <1>14 DEF StudioInv, PromotionInv
      <3> QED
        BY <1>2, <3>1 DEF HeldAt
    <2> QED
      BY <1>2, <2>1, <2>2, <2>3 DEF StudioInv, PromotionInv
  <1> QED
    BY <1>9, <1>10, <1>11, <1>13, <1>15, <1>16 DEF StudioInv

LEMMA DefinesStep ==
  ASSUME StudioInv, NEW t \in Threads, Flow', Defines(t)
  PROVE  StudioInv'
  <1> DEFINE k == task[t]
             n == task'[t]
             i0 == task[t].item
  <1>1. /\ k.pc = "define"
        /\ Goto(t, IF i0 \in Packs THEN "load" ELSE IF i0 \in Agents THEN "grant" ELSE "cat")
        /\ UNCHANGED <<catalog, passed, promoted, raced>>
        /\ content' = [content EXCEPT ![i0] = @ + 1]
        /\ manifest' = IF i0 \in Packs THEN manifest ELSE [manifest EXCEPT ![i0] = k.cat[i0]]
        /\ outdated' = (outdated \/ (i0 \in Packs /\ Tested(t, i0)))
    BY DEF Defines, At, packVars
  <1>2. /\ n.op = k.op /\ n.item = i0 /\ n.cat = k.cat /\ n.last = k.last
        /\ i0 \in Packs => n.pc = "load"
        /\ i0 \notin Packs => n.pc \in {"grant", "cat"}
        /\ \A u \in Threads \ {t} : task'[u] = task[u]
    <2> DEFINE pc == IF i0 \in Packs THEN "load" ELSE IF i0 \in Agents THEN "grant" ELSE "cat"
    <2>1. pc \in {"load", "grant", "cat"} /\ Goto(t, pc)
      BY <1>1
    <2>2. /\ n.op = k.op /\ n.item = i0 /\ n.cat = k.cat /\ n.last = k.last /\ n.pc = pc
          /\ \A u \in Threads \ {t} : task'[u] = task[u]
      <3> HIDE DEF pc
      <3> QED
        BY <2>1, GoesOn
    <2> QED
      BY <2>2
  <1>3. WorkAt(k) /\ FlowAt(k)
    BY WorkOf
  <1>4. k.op = "save" /\ i0 \in Items
    BY <1>1, <1>3 DEF WorkAt, FlowAt, Requests
  <1>5. /\ i0 \notin Packs => OpenAt(k) /\ InHand(k)
        /\ i0 \in Packs => ~OpenAt(n)
    BY <1>1, <1>2, <1>4 DEF OpenAt, InHand, InPublication
  <1>6. /\ Stores /\ content[i0] \in Nat /\ k.cat \in [Items -> Meta]
        /\ content' \in [Items -> Nat]
    BY <1>1, <1>3, <1>4 DEF StudioInv, Stores, WorkAt
  <1>7. /\ \A p \in Packs : p # i0 => content'[p] = content[p]
        /\ \A i \in Items : content'[i] \in Nat /\ content'[i] >= content[i]
    BY <1>1, <1>4, <1>6 DEF Stores, Items
  <1> HIDE DEF k, n, i0
  <1>8. Works0'
    <2>1. WorkAt(n)
      BY <1>2, <1>3, <1>4 DEF WorkAt, InStudio, InPublication, Requests, i0, k
    <2> QED
      BY <1>2, <2>1 DEF StudioInv, Works0, n
  <1>9. /\ manifest' \in [Items -> Meta]
        /\ \A i \in Items : manifest'[i] = manifest[i] \/ (i = i0 /\ manifest'[i] = k.cat[i])
        /\ \A i \in Packs : manifest'[i] = manifest[i]
    BY <1>1, <1>4, <1>6 DEF Stores, Items
  <1>10. Stores'
    <2>1. \A i \in Items : \A m : <<i, m>> \in passed => m \in 1 .. content'[i]
      BY <1>6, <1>7 DEF Stores
    <2>2. \A i \in Packs : manifest'[i] = NoMeta
      BY <1>6, <1>9 DEF Stores
    <2> QED
      BY <1>1, <1>6, <1>9, <2>1, <2>2 DEF Stores
  <1>11. \A u \in Threads : task'[u].cat = task[u].cat /\ task'[u].last = task[u].last
                            /\ task'[u].item = task[u].item /\ task'[u].op = task[u].op
    BY <1>2 DEF k, n, i0
  <1>12. EarnedInv'
    <2>1. \A i : PassedOnce(i)' <=> PassedOnce(i)
      BY <1>1 DEF PassedOnce
    <2>2. \A i \in Items : Earned(k.cat[i]) => PassedOnce(i)
      BY DEF StudioInv, EarnedInv, k
    <2>3. \A i \in Items : Earned(catalog'[i]) \/ Earned(manifest'[i]) => PassedOnce(i)
      BY <1>1, <1>9, <2>2 DEF StudioInv, EarnedInv
    <2> QED
      BY <1>11, <2>1, <2>3 DEF StudioInv, EarnedInv
  <1>13. \A u \in Threads : OpenAt(task'[u]) => OpenAt(task[u])
    BY <1>2, <1>5 DEF k, n
  <1>14. OneOpen'
    BY <1>1, <1>13 DEF StudioInv, OneOpen
  <1>15. \A u \in Threads : InHand(task'[u]) => InHand(task[u])
    BY <1>2, <1>5, <1>13 DEF k, n, InHand
  <1>16. ReadyInv'
    <2> SUFFICES ASSUME ~raced, ~outdated', NEW p \in Packs
                 PROVE  /\ Earned(catalog'[p]) => Excused(p)'
                        /\ \A u \in Threads : InHand(task'[u]) =>
                             /\ Earned(task'[u].cat[p]) => Excused(p)'
                             /\ task'[u].op = "save" /\ task'[u].item = p =>
                                  ~Earned(task'[u].cat[p])
                        /\ \A u \in Threads : task'[u].op = "test" /\ task'[u].item = p
                             /\ task'[u].last.status = "succeeded" => Fresh0(p)'
      BY <1>1 DEF ReadyInv
    <2>1. ~outdated
      BY <1>1
    <2>2. p # i0 => (Fresh0(p)' <=> Fresh0(p))
      BY <1>1, <1>7 DEF Fresh0
    <2>3. \A u \in Threads : Resaving(task[u], p) => Resaving(task'[u], p)
      BY <1>1, <1>2 DEF Resaving, k
    <2>4. p = i0 => Resaving(task'[t], p)
      BY <1>2, <1>4 DEF Resaving, n
    <2>5. Excused(p) => Excused(p)'
      BY <2>2, <2>3, <2>4 DEF Excused
    <2>6. p = i0 => \A u \in Threads : ~(task'[u].op = "test" /\ task'[u].item = p)
      BY <1>1, <1>4, <1>11 DEF Tested, Others, k
    <2>7. \A u \in Threads : task[u].op = "test" /\ task[u].item = p
            /\ task[u].last.status = "succeeded" => Fresh0(p)
      BY <2>1 DEF StudioInv, ReadyInv
    <2>8. \A u \in Threads : task'[u].op = "test" /\ task'[u].item = p
            /\ task'[u].last.status = "succeeded" => Fresh0(p)'
      BY <1>11, <2>2, <2>6, <2>7
    <2>9. Earned(catalog'[p]) => Excused(p)'
      BY <1>1, <2>1, <2>5 DEF StudioInv, ReadyInv
    <2>10. ASSUME NEW u \in Threads, InHand(task'[u])
           PROVE  /\ Earned(task'[u].cat[p]) => Excused(p)'
                  /\ task'[u].op = "save" /\ task'[u].item = p => ~Earned(task'[u].cat[p])
      BY <1>11, <1>15, <2>1, <2>5, <2>10 DEF StudioInv, ReadyInv
    <2> QED
      BY <2>8, <2>9, <2>10
  <1>17. PromotionInv'
    <2> SUFFICES ASSUME ~raced PROVE PromotionInv'
      BY <1>1 DEF PromotionInv
    <2>1. \A u \in Threads : (task[u].pc = "emptied" <=> task'[u].pc = "emptied")
                             /\ (task[u].pc = "manifest" <=> task'[u].pc = "manifest")
      BY <1>1, <1>2, <1>5 DEF k, n
    <2>2. \A u \in Threads : InHand(task'[u]) => HeldAt(task[u])'
      <3> SUFFICES ASSUME NEW u \in Threads, InHand(task'[u])
                   PROVE  HeldAt(task[u])'
        OBVIOUS
      <3>1. HeldAt(task[u])
        BY <1>15 DEF StudioInv, PromotionInv
      <3> QED
        BY <1>1, <1>11, <3>1 DEF HeldAt
    <2> QED
      BY <1>1, <1>11, <2>1, <2>2 DEF StudioInv, PromotionInv
  <1> QED
    BY <1>8, <1>10, <1>12, <1>14, <1>16, <1>17 DEF StudioInv

LEMMA StudioDiesStep ==
  ASSUME StudioInv, NEW t \in Threads, Dies(t)
  PROVE  StudioInv'
  <1>1. /\ UNCHANGED <<content, catalog, manifest, passed, promoted>>
        /\ raced' = (raced \/ \E u \in Killed(t) : Open(u))
        /\ outdated' = (outdated \/ \E u \in Killed(t) : task[u].op = "save")
    BY DEF Dies, PackDies, StudioDies
  <1>2. /\ Flow'
        /\ \A u \in Threads : task'[u] = task[u] \/ task'[u] = AtRest
        /\ \A u \in Threads : u \in Killed(t) \/ task'[u] = task[u]
    BY DeathOfTasks DEF StudioInv
  <1>3. Killed(t) \subseteq Threads
    BY DEF Killed
  <1>4. Works0' /\ Stores'
    <2>1. Works0'
      BY <1>2, RestWorks DEF StudioInv, Works0
    <2>2. Stores'
      BY <1>1 DEF StudioInv, Stores
    <2> QED
      BY <2>1, <2>2
  <1>5. EarnedInv'
    <2>1. \A i : PassedOnce(i)' <=> PassedOnce(i)
      BY <1>1 DEF PassedOnce
    <2>2. \A u \in Threads : \A i \in Items : Earned(task'[u].cat[i]) => PassedOnce(i)
      BY <1>2, RestWorks, NothingType DEF StudioInv, EarnedInv
    <2>3. \A u \in Threads : task'[u].last.status = "succeeded" => PassedOnce(task'[u].item)
      BY <1>2, RestWorks DEF StudioInv, EarnedInv
    <2>4. \A i \in Items : Earned(catalog'[i]) \/ Earned(manifest'[i]) => PassedOnce(i)
      BY <1>1 DEF StudioInv, EarnedInv
    <2> QED
      BY <2>1, <2>2, <2>3, <2>4 DEF EarnedInv
  <1>6. \A u \in Threads : OpenAt(task'[u]) => task'[u] = task[u]
    BY <1>2, RestWorks
  <1>7. OneOpen'
    <2> SUFFICES ASSUME ~raced', NEW u \in Threads, NEW v \in Threads,
                        OpenAt(task'[u]), OpenAt(task'[v])
                 PROVE  u = v
      BY DEF OneOpen
    <2> QED
      BY <1>1, <1>6 DEF StudioInv, OneOpen
  <1>8. \A u \in Threads : InHand(task'[u]) => task'[u] = task[u]
    BY <1>6 DEF InHand
  <1>9. ReadyInv'
    <2> SUFFICES ASSUME ~raced', ~outdated', NEW p \in Packs
                 PROVE  /\ Earned(catalog'[p]) => Excused(p)'
                        /\ \A u \in Threads : InHand(task'[u]) =>
                             /\ Earned(task'[u].cat[p]) => Excused(p)'
                             /\ task'[u].op = "save" /\ task'[u].item = p =>
                                  ~Earned(task'[u].cat[p])
                        /\ \A u \in Threads : task'[u].op = "test" /\ task'[u].item = p
                             /\ task'[u].last.status = "succeeded" => Fresh0(p)'
      BY DEF ReadyInv
    <2>1. ~raced /\ ~outdated /\ \A u \in Killed(t) : task[u].op # "save"
      BY <1>1
    <2>2. Fresh0(p)' <=> Fresh0(p)
      BY <1>1 DEF Fresh0
    <2>3. \A u \in Threads : Resaving(task[u], p) => Resaving(task'[u], p)
      BY <1>2, <2>1 DEF Resaving
    <2>4. Excused(p) => Excused(p)'
      BY <2>2, <2>3 DEF Excused
    <2>5. \A u \in Threads : task'[u].last.status = "succeeded" => task'[u] = task[u]
      BY <1>2, RestWorks
    <2> QED
      BY <1>1, <1>8, <2>1, <2>2, <2>4, <2>5 DEF StudioInv, ReadyInv
  <1>10. PromotionInv'
    <2> SUFFICES ASSUME ~raced' PROVE PromotionInv'
      BY DEF PromotionInv
    <2>1. ~raced /\ \A u \in Killed(t) : ~OpenAt(task[u])
      BY <1>1, <1>3, OpenIs
    <2>2. (\A u \in Threads : task'[u].pc # "emptied") =>
            \A u \in Threads : task[u].pc # "emptied"
      BY <1>2, <2>1 DEF OpenAt
    <2>3. \A u \in Threads : task'[u].pc = "manifest" => task'[u] = task[u]
      BY <1>2, AtRestFlows
    <2>4. \A u \in Threads : InHand(task'[u]) => HeldAt(task[u])'
      <3> SUFFICES ASSUME NEW u \in Threads, InHand(task'[u])
                   PROVE  HeldAt(task[u])'
        OBVIOUS
      <3>1. HeldAt(task[u]) /\ task'[u] = task[u]
        BY <1>8, <2>1 DEF StudioInv, PromotionInv
      <3> QED
        BY <1>1, <3>1 DEF HeldAt
    <2> QED
      BY <1>1, <2>1, <2>2, <2>3, <2>4 DEF StudioInv, PromotionInv
  <1> QED
    BY <1>2, <1>4, <1>5, <1>7, <1>9, <1>10 DEF StudioInv

-----------------------------------------------------------------------------
LEMMA InitStudio == Init => StudioInv
  <1> SUFFICES ASSUME Init PROVE StudioInv
    OBVIOUS
  <1>1. PICK used \in Histories :
          /\ content = [i \in Items |-> IF i \in used \cup Shipped THEN 1 ELSE 0]
          /\ catalog = [i \in Items |-> IF i \in used THEN Used ELSE NoMeta]
          /\ manifest = [i \in Items |-> IF i \in used \ Packs THEN Used ELSE NoMeta]
          /\ passed = {<<i, 1>> : i \in used}
          /\ promoted = used
          /\ task = [t \in Threads |-> AtRest]
    BY DEF Init, StudioInit, PolicyInit
  <1>2. used \subseteq Items
    BY HistoriesAssumption
  <1>3. Used \in Meta /\ Used.promoted = "yes"
    BY DEF Used, Meta, Outcome
  <1>4. Flow
    BY InitFlow
  <1>5. Works0
    BY <1>1, RestWorks DEF Works0
  <1>6. \A i \in Items : i \in used => content[i] = 1 /\ catalog[i] = Used /\ <<i, 1>> \in passed
    BY <1>1
  <1>7. \A i \in Items : i \notin used => catalog[i] = NoMeta /\ manifest[i] = NoMeta
    BY <1>1
  <1>8. Stores
    <2>1. \A i \in Items : \A n : <<i, n>> \in passed => n = 1 /\ content[i] = 1
      BY <1>1
    <2>2. \A i \in Packs : manifest[i] = NoMeta
      BY <1>1 DEF Items
    <2>3. content \in [Items -> Nat] /\ catalog \in [Items -> Meta]
          /\ manifest \in [Items -> Meta]
      BY <1>1, <1>3, NothingType
    <2> QED
      BY <1>1, <1>2, <2>1, <2>2, <2>3 DEF Stores
  <1>9. \A i \in Items : Earned(catalog[i]) \/ Earned(manifest[i]) => i \in used
    BY <1>7, NothingType
  <1>10. \A t \in Threads : task[t] = AtRest
    BY <1>1
  <1>11. EarnedInv
    <2>1. \A i \in Items : i \in used => PassedOnce(i)
      BY <1>6 DEF PassedOnce
    <2> QED
      BY <1>9, <1>10, <2>1, RestWorks, NothingType DEF EarnedInv
  <1>12. \A t \in Threads : ~OpenAt(task[t]) /\ ~InHand(task[t])
    BY <1>10, RestWorks DEF InHand
  <1>13. OneOpen
    BY <1>12 DEF OneOpen
  <1>14. ReadyInv
    <2>1. \A p \in Packs : Earned(catalog[p]) => Excused(p)
      BY <1>6, <1>9 DEF Items, Excused, Fresh0
    <2> QED
      BY <1>10, <1>12, <2>1, RestWorks DEF ReadyInv
  <1>15. PromotionInv
    <2>1. \A i \in promoted : catalog[i].promoted = "yes"
      BY <1>1, <1>2, <1>3
    <2> QED
      BY <1>10, <1>12, <2>1, AtRestFlows DEF PromotionInv
  <1> QED
    BY <1>4, <1>5, <1>8, <1>11, <1>13, <1>14, <1>15 DEF StudioInv

LEMMA SameStudio ==
  ASSUME StudioInv, UNCHANGED <<task, content, studioVars>>
  PROVE  StudioInv'
  <1>1. UNCHANGED <<task, content, catalog, manifest, passed, promoted, raced, outdated>>
    BY DEF studioVars
  <1>2. Flow' /\ Works0' /\ Stores' /\ OneOpen'
    BY <1>1 DEF StudioInv, Flow, Works0, Stores, OneOpen
  <1>3. EarnedInv'
    BY <1>1 DEF StudioInv, EarnedInv, PassedOnce
  <1>4. ReadyInv'
    BY <1>1 DEF StudioInv, ReadyInv, Excused, Fresh0
  <1>5. PromotionInv'
    BY <1>1 DEF StudioInv, PromotionInv, HeldAt
  <1> QED
    BY <1>2, <1>3, <1>4, <1>5 DEF StudioInv

LEMMA StepStudio ==
  ASSUME StudioInv, [Next]_vars
  PROVE  StudioInv'
  <1>1. Flow'
    BY StepFlow DEF StudioInv
  <1>2. ASSUME NEW t \in Threads, Quiet(task[t], task'[t]), Alone(t),
               UNCHANGED <<content, studioVars>>
        PROVE  StudioInv'
    BY <1>1, <1>2, QuietStep DEF Alone
  <1>3. ASSUME NEW t \in Threads,
               \/ \E op \in Requests, i \in Items, force \in BOOLEAN :
                    StudioRoute(t, op, i, force)
               \/ \E p \in Packs : PackRoute(t, p)
               \/ PolicyCommand(t)
        PROVE  StudioInv'
    <2>1. Alone(t)
      BY <1>3, RoutesAside DEF StudioInv, Aside, Requests
    <2>2. Quiet(task[t], task'[t]) /\ UNCHANGED <<content, studioVars>>
      BY <1>3, RoutesQuiet
    <2> QED
      BY <1>2, <2>1, <2>2
  <1>4. ASSUME NEW t \in Threads, PublishStep(t), UNCHANGED <<content, studioVars>>
        PROVE  StudioInv'
    <2>1. Alone(t)
      <3>1. CASE Sign(t)
        BY <3>1, BeginsPublication DEF StudioInv
      <3>2. CASE ~Sign(t)
        <4>1. task[t].pc \in InPublication
          BY <1>4, <3>2 DEF PublishStep, PublishReads, PublishRaises, PublishTruncates,
             PublishWrites, PublishRecords, At, InPublication
        <4> QED
          BY <1>4, <4>1, Publishes DEF StudioInv
      <3> QED
        BY <3>1, <3>2
    <2> QED
      BY <1>2, <1>4, <2>1, PublishQuiet
  <1>5. ASSUME NEW t \in Threads, PackStep(t), UNCHANGED <<content, studioVars>>
        PROVE  StudioInv'
    <2>1. Alone(t)
      BY <1>5, PackAside, BeginsPublication DEF StudioInv, Aside
    <2> QED
      BY <1>2, <1>5, <2>1, PackQuiet
  <1>6. ASSUME NEW t \in Threads, StudioStep(t)
        PROVE  StudioInv'
    <2>1. Alone(t)
      BY <1>6, StudioAside, BeginsPublication DEF StudioInv, Aside
    <2>2. CASE \/ Saves(t) \/ Grants(t) \/ Reloads(t) \/ Tests(t) \/ Promotes(t)
               \/ PromotesPack(t) /\ Goto(t, "idle")
      <3>1. Quiet(task[t], task'[t])
        BY <2>2, StudioQuiet
      <3>2. CASE PromotesPack(t) /\ Goto(t, "idle")
        <4>1. UNCHANGED <<content, catalog, manifest, passed, promoted, outdated>>
              /\ task[t].pc = "start"
          BY <3>2 DEF PromotesPack, packVars, At
        <4>2. UNCHANGED raced
          <5>1. CASE Needed(task[t].item, task[t].force)
            <6>1. PICK c : c = [catalog EXCEPT ![task[t].item] =
                                  Edited([task[t] EXCEPT !.last = catalog[task[t].item].last], @)]
              OBVIOUS
            <6>2. task' = [task EXCEPT ![t].pc = "cat", ![t].cat = c]
              BY <3>2, <5>1, <6>1 DEF PromotesPack
            <6>3. task'[t].pc = "cat" /\ task'[t] = AtRest
              <7>1. DOMAIN task = Threads /\ DOMAIN task[t] = Fields
                BY WorkOf
              <7> QED
                BY <3>2, <6>2, <7>1 DEF Goto, Fields
            <6> QED
              BY <6>3, AtRestFlows
          <5>2. CASE ~Needed(task[t].item, task[t].force)
            BY <3>2, <5>2 DEF PromotesPack
          <5> QED
            BY <5>1, <5>2
        <4> QED
          BY <1>2, <2>1, <3>1, <4>1, <4>2 DEF studioVars
      <3>3. CASE Saves(t) \/ Grants(t) \/ Reloads(t) \/ Tests(t) \/ Promotes(t)
        <4>1. UNCHANGED <<content, studioVars>>
          BY <3>3 DEF Saves, Grants, Reloads, Tests, Promotes, packVars
        <4> QED
          BY <1>2, <2>1, <3>1, <4>1
      <3> QED
        BY <2>2, <3>2, <3>3
    <2>3. CASE PromotesPack(t) /\ ~Goto(t, "idle")
      BY <1>1, <2>3, PromotesPackStep
    <2>4. CASE Loads(t)
      BY <1>1, <2>4, LoadsStep
    <2>5. CASE Empties(t)
      BY <1>1, <2>5, EmptiesStep
    <2>6. CASE Writes(t)
      BY <1>1, <2>6, CatalogWritesStep
    <2>7. CASE Follows(t)
      BY <1>1, <2>7, FollowsStep
    <2>8. CASE Defines(t)
      BY <1>1, <2>8, DefinesStep
    <2>9. CASE \E s \in {"succeeded", "failed"} : Runs(t, s)
      BY <1>1, <2>9, RunsStep
    <2> QED
      BY <1>6, <2>2, <2>3, <2>4, <2>5, <2>6, <2>7, <2>8, <2>9 DEF StudioStep
  <1>7. StudioNext
    BY StepsOfStudio
  <1> QED
    BY <1>3, <1>4, <1>5, <1>6, <1>7, SameStudio, StudioDiesStep DEF StudioNext

(* An item on the shelf as ready has passed a test; and a pack has passed   *)
(* it with its present content, unless it was saved during the test, a save *)
(* was cut off, or two requests had the catalog open at once: for any       *)
(* items, threads and histories (studio_service.py).                        *)
THEOREM ReadyIsTested == Spec => []ReadyWasTested
  <1>1. Init => StudioInv
    BY InitStudio
  <1>2. StudioInv /\ [Next]_vars => StudioInv'
    BY StepStudio
  <1>3. StudioInv => ReadyWasTested
    <2> SUFFICES ASSUME StudioInv, NEW i \in Items, Shown(i).maturity = "ready"
                 PROVE  /\ \E n \in 1 .. content[i] : <<i, n>> \in passed
                        /\ (i \in Packs /\ ~Saving(i) /\ ~raced /\ ~outdated) =>
                             <<i, content[i]>> \in passed
      BY DEF ReadyWasTested
    <2>1. catalog[i].maturity = "ready" \/ manifest[i].maturity = "ready"
      BY DEF Shown, Either
    <2>2. PassedOnce(i)
      BY <2>1 DEF StudioInv, EarnedInv, Earned
    <2>3. \E n \in 1 .. content[i] : <<i, n>> \in passed
      BY <2>2 DEF StudioInv, Stores, PassedOnce
    <2>4. ASSUME i \in Packs, ~Saving(i), ~raced, ~outdated
          PROVE  <<i, content[i]>> \in passed
      <3>1. manifest[i] = NoMeta
        BY <2>4 DEF StudioInv, Stores
      <3>2. Earned(catalog[i])
        BY <2>1, <3>1 DEF NoMeta, Earned
      <3>3. Excused(i)
        BY <2>4, <3>2 DEF StudioInv, ReadyInv
      <3> QED
        BY <2>4, <3>3 DEF Excused, Resaving, Saving, Fresh0
    <2> QED
      BY <2>3, <2>4
  <1> QED
    BY <1>1, <1>2, <1>3, PTL DEF Spec

(* A promotion that was answered stands, through saves, tests and           *)
(* promotions of other items and, for agents and profiles, of the same one, *)
(* unless two requests had the catalog open at once or a process died so    *)
(* (studio_service.py, _save_catalog).                                      *)
THEOREM PromotionsAreKept == Spec => []PromotionKept
  <1>1. Init => StudioInv
    BY InitStudio
  <1>2. StudioInv /\ [Next]_vars => StudioInv'
    BY StepStudio
  <1>3. StudioInv => PromotionKept
    <2> SUFFICES ASSUME StudioInv, ~raced, \A t \in Threads : ~Open(t), NEW i \in promoted
                 PROVE  Shown(i).promoted = "yes"
      BY DEF PromotionKept
    <2>1. \A t \in Threads : task[t].pc # "emptied"
      BY DEF Open
    <2>2. catalog[i].promoted = "yes"
      BY <2>1 DEF StudioInv, PromotionInv
    <2> QED
      BY <2>2 DEF Shown, Either
  <1> QED
    BY <1>1, <1>2, <1>3, PTL DEF Spec
=============================================================================
