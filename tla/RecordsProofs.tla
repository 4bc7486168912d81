---------------------------- MODULE RecordsProofs ---------------------------
(***************************************************************************)
(* Proofs about Records, for any threads, commands, artifacts and bounds.   *)
(* The audit log first: its chain holds, and nothing that it was asked to   *)
(* keep is lost, through appends, repairs, backups, restores, resets and    *)
(* deaths.  Then the artifact store and the backups: the chain of the store *)
(* holds, what was reported as stored can be read, and a backup during      *)
(* which nothing was written is complete.  Last the import of files, which  *)
(* leaves none without a row.                                               *)
(***************************************************************************)
EXTENDS Records, SequenceTheorems, ListsProofs, TLAPS

(* The sequences of lines that a log can be.  The last conjunct, which holds *)
(* of every sequence, is kept as an invariant of how logs are made: it is    *)
(* what makes the last line that parses exist.                               *)
Line == [event: Nat, previous: Seq(Nat)]

Ranked(s) ==
  \A T \in SUBSET DOMAIN s : T # {} => \E i \in T : \A j \in T : j <= i

Logs == {s \in Seq(Line) : Ranked(s)}

(* The end that the next entry of a valid log is linked to.                 *)
EndOf(s) == IF s = <<>> THEN <<>> ELSE Hash(s[Len(s)])

Linked(s) ==
  \A i \in DOMAIN s :
    /\ Parses(s[i])
    /\ s[i].previous = IF i = 1 THEN <<>> ELSE Hash(s[i - 1])

(* A log, whether its last line has no end, and the events it has to keep.  *)
Whole(s, u, k) == Linked(s) /\ ~u /\ k \subseteq EventsIn(s)

-----------------------------------------------------------------------------
(* Sequences of lines.                                                      *)
LEMMA EmptyLog == <<>> \in Logs /\ Linked(<<>>) /\ EventsIn(<<>>) = {}
  BY DEF Logs, Ranked, Linked, EventsIn

LEMMA AppendedLog ==
  ASSUME NEW s \in Logs, NEW e \in Line
  PROVE  /\ Append(s, e) \in Logs
         /\ Append(s, e) # <<>>
         /\ Append(s, e)[Len(Append(s, e))] = e
  <1> DEFINE r == Append(s, e)
  <1>1. /\ r \in Seq(Line)
        /\ Len(r) = Len(s) + 1
        /\ DOMAIN r = 1 .. Len(s) + 1
        /\ r[Len(s) + 1] = e
        /\ Len(s) \in Nat
        /\ DOMAIN s = 1 .. Len(s)
    BY DEF Logs
  <1>2. Ranked(r)
    <2> SUFFICES ASSUME NEW T \in SUBSET DOMAIN r, T # {}
                 PROVE  \E i \in T : \A j \in T : j <= i
      BY DEF Ranked
    <2>1. CASE Len(s) + 1 \in T
      BY <1>1, <2>1
    <2>2. CASE Len(s) + 1 \notin T
      <3>1. T \in SUBSET DOMAIN s
        BY <1>1, <2>2
      <3> QED
        BY <3>1 DEF Logs, Ranked
    <2> QED
      BY <2>1, <2>2
  <1> QED
    BY <1>1, <1>2 DEF Logs

LEMMA AppendedLinks ==
  ASSUME NEW s \in Logs, NEW e \in Line, Linked(s), Parses(e),
         e.previous = EndOf(s)
  PROVE  /\ Linked(Append(s, e))
         /\ EventsIn(Append(s, e)) = EventsIn(s) \cup {e.event}
  <1> DEFINE r == Append(s, e)
  <1>1. /\ Len(s) \in Nat
        /\ DOMAIN s = 1 .. Len(s)
        /\ DOMAIN r = 1 .. Len(s) + 1
        /\ r[Len(s) + 1] = e
        /\ \A i \in 1 .. Len(s) : r[i] = s[i]
        /\ s = <<>> <=> Len(s) = 0
    BY DEF Logs
  <1>2. ASSUME NEW i \in DOMAIN r
        PROVE  Parses(r[i]) /\ r[i].previous = IF i = 1 THEN <<>> ELSE Hash(r[i - 1])
    <2>1. CASE i = Len(s) + 1
      <3>1. CASE Len(s) = 0
        BY <1>1, <2>1, <3>1 DEF EndOf
      <3>2. CASE Len(s) # 0
        <4>1. i - 1 = Len(s) /\ i # 1 /\ Len(s) \in 1 .. Len(s)
          BY <1>1, <2>1, <3>2
        <4>2. r[i - 1] = s[Len(s)]
          BY <1>1, <4>1
        <4> QED
          BY <1>1, <2>1, <3>2, <4>1, <4>2 DEF EndOf
      <3> QED
        BY <3>1, <3>2
    <2>2. CASE i \in 1 .. Len(s)
      <3>1. i # 1 => i - 1 \in 1 .. Len(s)
        BY <2>2, <1>1
      <3>2. r[i] = s[i] /\ (i # 1 => r[i - 1] = s[i - 1])
        BY <1>1, <2>2, <3>1
      <3> QED
        BY <1>1, <2>2, <3>2 DEF Linked
    <2> QED
      BY <1>1, <1>2, <2>1, <2>2
  <1>3. EventsIn(r) = EventsIn(s) \cup {e.event}
    BY <1>1 DEF EventsIn, Parses
  <1> QED
    BY <1>2, <1>3 DEF Linked

LEMMA LogEvents ==
  ASSUME NEW s \in Seq(Line)
  PROVE  /\ EventsIn(s) \in SUBSET Nat
         /\ Len(s) \in Nat
         /\ DOMAIN s = 1 .. Len(s)
  <1>1. Len(s) \in Nat /\ DOMAIN s = 1 .. Len(s)
    OBVIOUS
  <1>2. ASSUME NEW i \in DOMAIN s PROVE s[i].event \in Nat
    <2>1. s[i] \in Line
      BY <1>1
    <2> QED
      BY <2>1 DEF Line
  <1>3. ASSUME NEW x \in EventsIn(s) PROVE x \in Nat
    <2>1. PICK i \in DOMAIN s : x = s[i].event
      BY <1>3 DEF EventsIn
    <2> QED
      BY <1>2, <2>1
  <1> HIDE DEF EventsIn
  <1> QED
    BY <1>1, <1>3, SMT

LEMMA CutLog ==
  ASSUME NEW s \in Logs
  PROVE  [s EXCEPT ![Len(s)] = Torn] \in Logs
  <1> DEFINE r == [s EXCEPT ![Len(s)] = Torn]
  <1>1. Torn \in Line
    BY DEF Torn, Line, Entry
  <1>2. s \in Seq(Line) /\ Ranked(s)
    BY DEF Logs
  <1>3. DOMAIN r = DOMAIN s
    OBVIOUS
  <1>4. r \in Seq(Line)
    <2>1. Len(s) \in Nat /\ DOMAIN s = 1 .. Len(s)
      BY <1>2
    <2>2. CASE Len(s) = 0
      <3>1. Len(s) \notin DOMAIN s
        BY <2>1, <2>2
      <3>2. r = s
        BY <2>1, <2>2, <3>1, <1>2
      <3> QED
        BY <3>2, <1>2
    <2>3. CASE Len(s) # 0
      BY <1>1, <1>2, <2>1, <2>3, ExceptSeq
    <2> QED
      BY <2>2, <2>3
  <1> QED
    BY <1>2, <1>3, <1>4 DEF Logs, Ranked
-----------------------------------------------------------------------------
(* What a thread can be doing to the log: a repair writes from entry 1 on.  *)
Auditors == {a \in AuditState : a.pc = "rewrite" => a.next # 0}

(* The invariant: types, and the shape of what backups carry.               *)
AuditTyped == /\ lines \in Logs
              /\ unended \in BOOLEAN
              /\ clock \in Nat
              /\ auditor \in [Threads -> Auditors]
              /\ mixed \in BOOLEAN
              /\ kept \in SUBSET Nat

ImageTyped(m) ==
  /\ DOMAIN m = {"log", "unended", "rows", "blobs", "copies"}
  /\ m.log \in Logs
  /\ m.unended \in BOOLEAN

ArchiveTyped(a) ==
  /\ DOMAIN a = {"made", "manifest", "members", "calm", "mixed", "crossed",
                 "kept", "stored"}
  /\ ImageTyped(a.manifest)
  /\ ImageTyped(a.members)
  /\ a.mixed \in BOOLEAN
  /\ a.kept \in SUBSET Nat

KeeperTyped(k) ==
  /\ DOMAIN k = {"pc", "slot", "goal", "draft", "source", "calm"}
  /\ ArchiveTyped(k.draft)
  /\ ArchiveTyped(k.source)

(* What an archive says it has is the log of its members; a restore puts    *)
(* back the log of its manifest, which verify_backup has compared.          *)
Members(a) == a.mixed \/ Whole(a.members.log, a.members.unended, a.kept)
Manifest(a) == a.mixed \/ Whole(a.manifest.log, a.manifest.unended, a.kept)

KeeperSound(k) == /\ KeeperTyped(k)
                  /\ Manifest(k.source)
                  /\ k.pc = "copying" => Members(k.draft)

BackupsInv == /\ DOMAIN archive = Slots
              /\ \A s \in Slots : ArchiveTyped(archive[s]) /\ Members(archive[s])
              /\ DOMAIN keeper = Threads
              /\ \A t \in Threads : KeeperSound(keeper[t])

(* As long as no processes met in the log, one thread at most is inside,    *)
(* and the log is what that thread is due to make of it.                    *)
Alone == \A t, u \in Threads : Inside(t) /\ Inside(u) => t = u

Rewriting(t) == auditor[t].pc \in {"truncate", "rewrite"}

Standing == (\A t \in Threads : ~Rewriting(t)) => Whole(lines, unended, kept)

Appending(a) == a.pc = "append" => Parses(a.entry) /\ a.entry.previous = EndOf(lines)

Truncating(a) ==
  a.pc = "truncate" => ~Parses(a.entry) /\ kept \subseteq EventsIn(a.source)

Ahead(a) == {a.source[i].event : i \in a.next .. Len(a.source)} \ {0}

Relinking(a) ==
  a.pc = "rewrite" =>
    /\ a.next \in 1 .. Len(a.source) + 1
    /\ Linked(lines) /\ ~unended
    /\ IF Parses(a.entry) THEN lines # <<>> /\ lines[Len(lines)] = a.entry
       ELSE lines = <<>>
    /\ kept \subseteq EventsIn(lines) \cup Ahead(a)

Owed(a) == Appending(a) /\ Truncating(a) /\ Relinking(a)

LogInv == ~mixed => /\ Alone
                    /\ Standing
                    /\ \A t \in Threads : Owed(auditor[t])

RecordsInv == AuditTyped /\ BackupsInv /\ LogInv

-----------------------------------------------------------------------------
(* The archives of a new deployment, and what no thread has begun.          *)
LEMMA NothingBackedUp ==
  /\ ImageTyped(NoImage)
  /\ ArchiveTyped(NoArchive) /\ Manifest(NoArchive) /\ Members(NoArchive)
  /\ KeeperSound(Away)
  BY EmptyLog DEF ImageTyped, NoImage, ArchiveTyped, NoArchive, Manifest, Members,
     Whole, KeeperSound, KeeperTyped, Away

LEMMA IdleTyped == Idle \in Auditors /\ Torn \in Line /\ ~Parses(Torn)
  BY EmptySeq DEF Idle, Auditors, AuditState, Torn, Entry, Parses, Line

LEMMA InitRecords == Init => RecordsInv
  <1> SUFFICES ASSUME Init PROVE RecordsInv
    OBVIOUS
  <1>1. CASE Fresh
    <2>1. AuditTyped
      BY <1>1, EmptyLog, IdleTyped DEF Fresh, AuditInit, AuditTyped
    <2>2. BackupsInv
      BY <1>1, NothingBackedUp DEF Fresh, BackupInit, NoArchives, BackupsInv
    <2>3. LogInv
      BY <1>1, EmptyLog DEF Fresh, AuditInit, LogInv, Alone, Inside, Standing, Whole,
         Owed, Appending, Truncating, Relinking, Idle
    <2> QED
      BY <2>1, <2>2, <2>3 DEF RecordsInv
  <1>2. ASSUME NEW a \in Artifacts, InUse(a)
        PROVE  RecordsInv
    <2> DEFINE one == <<Entry(1, <<>>)>>
    <2>1. Entry(1, <<>>) \in Line /\ Parses(Entry(1, <<>>))
      BY EmptySeq DEF Entry, Line, Parses
    <2>2. one = Append(<<>>, Entry(1, <<>>))
      OBVIOUS
    <2>3. one \in Logs /\ Linked(one) /\ EventsIn(one) = {1}
      <3>1. Entry(1, <<>>).previous = EndOf(<<>>) /\ Entry(1, <<>>).event = 1
        BY DEF EndOf, Entry
      <3> QED
        <4> DEFINE e == Entry(1, <<>>)
        <4>1. e \in Line /\ Parses(e) /\ e.previous = EndOf(<<>>) /\ e.event = 1
          BY <2>1, <3>1
        <4> HIDE DEF e
        <4>2. Append(<<>>, e) \in Logs
          BY <4>1, EmptyLog, AppendedLog
        <4>3. Linked(Append(<<>>, e)) /\ EventsIn(Append(<<>>, e)) = {1}
          BY <4>1, EmptyLog, AppendedLinks
        <4> QED
          BY <2>2, <4>2, <4>3 DEF e
    <2> HIDE DEF one
    <2>4. AuditTyped
      <3>1. lines = one
        BY <1>2 DEF InUse, NoImage, one
      <3>2. /\ unended = FALSE /\ clock = 1 /\ mixed = FALSE /\ kept = {1}
            /\ auditor = [t \in Threads |-> Idle]
        BY <1>2 DEF InUse, NoImage
      <3>3. kept \in SUBSET Nat /\ clock \in Nat
        BY <3>2
      <3>4. auditor \in [Threads -> Auditors]
        BY <3>2, IdleTyped
      <3> QED
        BY <2>3, <3>1, <3>2, <3>3, <3>4 DEF AuditTyped
    <2>5. LogInv
      BY <1>2, <2>3 DEF InUse, NoImage, LogInv, Alone, Inside, Standing, Whole,
         Owed, Appending, Truncating, Relinking, Idle, one
    <2>6. BackupsInv
      <3> DEFINE image == [NoImage EXCEPT !.log = one,
                               !.rows = <<Row(a, 1, NoArtifact)>>,
                               !.blobs = {Blob(a, 1)},
                               !.copies = <<Copy(a, NoArtifact)>>]
                 made == [NoArchive EXCEPT !.made = TRUE, !.manifest = image,
                                    !.members = image, !.kept = {1},
                                    !.stored = {a}]
      <3>1. archive = [NoArchives EXCEPT !["backup"] = made]
            /\ keeper = [t \in Threads |-> Away]
        BY <1>2 DEF InUse, one
      <3>2. ImageTyped(image) /\ image.log = one /\ image.unended = FALSE
        BY <2>3 DEF ImageTyped, NoImage
      <3> HIDE DEF image
      <3>3. ArchiveTyped(made) /\ Members(made)
        BY <2>3, <3>2 DEF ArchiveTyped, NoArchive, Members, Whole
      <3> HIDE DEF made
      <3> QED
        BY <3>1, <3>3, NothingBackedUp DEF BackupsInv, NoArchives, Slots
    <2> QED
      BY <2>4, <2>5, <2>6 DEF RecordsInv
  <1> QED
    BY <1>1, <1>2 DEF Init
-----------------------------------------------------------------------------
(* Steps of the log.                                                        *)
LEMMA NobodyInside ==
  ASSUME NEW t \in Threads, ~Locked(t), ~Foreign(t)
  PROVE  \A u \in Threads : ~Inside(u)
  BY DEF Locked, Foreign

(* The newest entry that parses exists, and is the last of a valid log.     *)
LEMMA LastHashTyped ==
  ASSUME AuditTyped
  PROVE  /\ LastHash \in Seq(Nat)
         /\ Linked(lines) => LastHash = EndOf(lines)
  <1> DEFINE newest == CHOOSE i \in Good : \A j \in Good : j <= i
  <1>1. /\ lines \in Seq(Line) /\ Len(lines) \in Nat
        /\ DOMAIN lines = 1 .. Len(lines)
        /\ Good \in SUBSET DOMAIN lines
    BY DEF AuditTyped, Logs, Good
  <1>2. CASE Good = {}
    <2>1. LastHash = <<>> /\ <<>> \in Seq(Nat)
      BY <1>2 DEF LastHash
    <2>2. ASSUME Linked(lines) PROVE lines = <<>>
      <3>1. DOMAIN lines = {}
        BY <1>2, <2>2 DEF Linked, Good
      <3> QED
        BY <1>1, <3>1
    <2> QED
      BY <2>1, <2>2 DEF EndOf
  <1>3. CASE Good # {}
    <2>1. \E i \in Good : \A j \in Good : j <= i
      BY <1>1, <1>3 DEF AuditTyped, Logs, Ranked
    <2>2. newest \in Good /\ \A j \in Good : j <= newest
      BY <2>1
    <2>3. LastHash = Hash(lines[newest])
      BY <1>3 DEF LastHash
    <2> HIDE DEF newest
    <2>4. lines[newest] \in Line
      BY <1>1, <2>2
    <2>5. Hash(lines[newest]) \in Seq(Nat)
      BY <2>4 DEF Hash, Line
    <2>6. ASSUME Linked(lines) PROVE newest = Len(lines) /\ lines # <<>>
      <3>1. Good = DOMAIN lines
        BY <2>6 DEF Linked, Good
      <3>2. newest \in 1 .. Len(lines) /\ Len(lines) \in Good
        BY <3>1, <2>2, <1>1
      <3> QED
        BY <3>2, <2>2, <1>1
    <2> QED
      BY <2>3, <2>5, <2>6 DEF EndOf
  <1> QED
    BY <1>2, <1>3

LEMMA LogBeginStep ==
  ASSUME RecordsInv, NEW t \in Threads, LogBegin(t)
  PROVE  AuditTyped' /\ LogInv'
  <1> DEFINE e == Entry(clock + 1, LastHash)
             a == [Idle EXCEPT !.pc = "append", !.entry = e]
  <1>1. AuditTyped /\ LogInv
    BY DEF RecordsInv
  <1>2. /\ e \in Line /\ Parses(e)
        /\ Linked(lines) => e.previous = EndOf(lines)
    BY <1>1, LastHashTyped DEF Entry, Line, Parses, AuditTyped
  <1>3. clock' = clock + 1 /\ auditor' = [auditor EXCEPT ![t] = a]
        /\ UNCHANGED <<lines, unended, kept>>
        /\ mixed' = (mixed \/ Foreign(t)) /\ ~Locked(t)
    BY DEF LogBegin
  <1> HIDE DEF e
  <1>4. a \in Auditors /\ a.pc = "append" /\ a.entry = e
    BY <1>2, IdleTyped DEF Auditors, AuditState, Idle, Line
  <1> HIDE DEF a
  <1>5. AuditTyped'
    BY <1>1, <1>3, <1>4 DEF AuditTyped
  <1>6. ASSUME ~mixed'
        PROVE  Alone' /\ Standing' /\ \A u \in Threads : Owed(auditor[u])'
    <2>1. /\ \A u \in Threads : ~Inside(u)
          /\ Standing
      BY <1>1, <1>3, <1>6, NobodyInside DEF LogInv
    <2>2. Whole(lines, unended, kept)
      BY <2>1 DEF Standing, Rewriting, Inside
    <2>3. \A u \in Threads : auditor'[u] = IF u = t THEN a ELSE auditor[u]
      BY <1>3, <1>1 DEF AuditTyped
    <2>4. Alone'
      BY <2>1, <2>3 DEF Alone, Inside
    <2>5. Standing'
      BY <2>2, <1>3 DEF Standing, Whole
    <2>6. ASSUME NEW u \in Threads PROVE Owed(auditor[u])'
      <3>1. CASE u = t
        <4>1. auditor'[u] = a
          BY <2>3, <3>1
        <4> QED
          BY <4>1, <1>3, <1>4, <1>2, <2>2 DEF Owed, Appending, Truncating, Relinking, Whole
      <3>2. CASE u # t
        <4>1. auditor'[u].pc \notin {"append", "truncate", "rewrite"}
          BY <2>1, <2>3, <3>2 DEF Inside
        <4> QED
          BY <4>1 DEF Owed, Appending, Truncating, Relinking
      <3> QED
        BY <3>1, <3>2
    <2> QED
      BY <2>4, <2>5, <2>6
  <1> QED
    BY <1>5, <1>6 DEF LogInv

LEMMA WrittenTyped ==
  ASSUME AuditTyped, NEW e \in Line
  PROVE  Written(e) \in Logs
  BY AppendedLog, CutLog DEF AuditTyped, Written

LEMMA EntryTyped ==
  ASSUME AuditTyped, NEW t \in Threads
  PROVE  /\ auditor[t] \in Auditors
         /\ auditor[t].entry \in Line
         /\ auditor[t].source \in Seq(Line)
         /\ auditor[t].next \in Nat
  BY DEF AuditTyped, Auditors, AuditState, Line

(* One thread inside a log in which no processes met: the others are out.   *)
LEMMA OthersOutside ==
  ASSUME LogInv, ~mixed, NEW t \in Threads, Inside(t)
  PROVE  /\ \A u \in Threads \ {t} : ~Inside(u) /\ ~Rewriting(u)
         /\ Owed(auditor[t])
         /\ ~Rewriting(t) => Whole(lines, unended, kept)
  <1>1. \A u \in Threads \ {t} : ~Inside(u) /\ ~Rewriting(u)
    BY DEF LogInv, Alone, Inside, Rewriting
  <1>2. Owed(auditor[t]) /\ Standing
    BY DEF LogInv
  <1> QED
    BY <1>1, <1>2 DEF Standing

(* A thread that leaves the log as the only one inside.                     *)
LEMMA Leaves ==
  ASSUME AuditTyped, NEW t \in Threads,
         \A u \in Threads \ {t} : ~Inside(u),
         auditor' = [auditor EXCEPT ![t] = Idle],
         Whole(lines, unended, kept)'
  PROVE  (Alone /\ Standing)' /\ \A u \in Threads : Owed(auditor[u])'
  <1>1. \A u \in Threads : auditor'[u].pc \notin {"append", "truncate", "rewrite"}
    BY DEF AuditTyped, Inside, Idle
  <1> QED
    BY <1>1 DEF Alone, Inside, Standing, Owed, Appending, Truncating, Relinking

LEMMA LogAppendStep ==
  ASSUME RecordsInv, NEW t \in Threads, LogAppend(t)
  PROVE  AuditTyped' /\ LogInv'
  <1> DEFINE e == auditor[t].entry
  <1>1. AuditTyped /\ LogInv
    BY DEF RecordsInv
  <1>2. e \in Line
    BY <1>1, EntryTyped
  <1>3. /\ auditor[t].pc = "append"
        /\ lines' = Written(e) /\ unended' = FALSE
        /\ kept' = kept \cup {e.event}
        /\ auditor' = [auditor EXCEPT ![t] = Idle]
        /\ UNCHANGED <<clock, mixed>>
    BY DEF LogAppend
  <1>4. AuditTyped'
    BY <1>1, <1>2, <1>3, WrittenTyped, IdleTyped DEF AuditTyped, Line
  <1>5. ASSUME ~mixed' PROVE (Alone /\ Standing)' /\ \A u \in Threads : Owed(auditor[u])'
    <2>1. Inside(t) /\ ~Rewriting(t) /\ ~mixed
      BY <1>3, <1>5 DEF Inside, Rewriting
    <2>2. /\ \A u \in Threads \ {t} : ~Inside(u)
          /\ Whole(lines, unended, kept)
          /\ Parses(e) /\ e.previous = EndOf(lines)
      BY <1>1, <1>3, <2>1, OthersOutside DEF Owed, Appending
    <2>3. lines' = Append(lines, e)
      BY <1>3, <2>2 DEF Written, Whole
    <2>4. lines \in Logs
      BY <1>1 DEF AuditTyped
    <2>5. Linked(lines') /\ EventsIn(lines') = EventsIn(lines) \cup {e.event}
      BY <1>2, <2>2, <2>3, <2>4, AppendedLinks DEF Whole
    <2>6. Whole(lines, unended, kept)'
      BY <2>5, <1>3, <2>2 DEF Whole
    <2> QED
      BY <1>1, <1>3, <2>2, <2>6, Leaves
  <1> QED
    BY <1>4, <1>5 DEF LogInv

(* Steps of a repair before it changes the file.                            *)
LEMMA RepairCheckStep ==
  ASSUME RecordsInv, NEW t \in Threads, RepairCheck(t) \/ RepairNothing(t)
  PROVE  AuditTyped' /\ LogInv'
  <1>1. AuditTyped /\ LogInv
    BY DEF RecordsInv
  <1>2. /\ UNCHANGED <<lines, unended, clock, mixed, kept>>
        /\ auditor[t].pc \in {"idle", "wanted"}
    BY DEF RepairCheck, RepairNothing
  <1>3. PICK a \in Auditors : /\ auditor' = [auditor EXCEPT ![t] = a]
                                /\ a.pc \in {"idle", "wanted"}
    <2>1. CASE RepairCheck(t)
      <3> DEFINE a == [auditor[t] EXCEPT !.pc = "wanted"]
      <3>1. a \in Auditors /\ a.pc = "wanted"
        BY <1>1, EntryTyped DEF Auditors, AuditState
      <3>2. auditor' = [auditor EXCEPT ![t] = a]
        BY <2>1 DEF RepairCheck
      <3> QED
        BY <3>1, <3>2
    <2>2. CASE RepairNothing(t)
      BY <2>2, IdleTyped DEF RepairNothing, Idle
    <2> QED
      BY <2>1, <2>2
  <1>4. AuditTyped'
    BY <1>1, <1>2, <1>3 DEF AuditTyped
  <1>5. \A u \in Threads : auditor'[u] = IF u = t THEN a ELSE auditor[u]
    BY <1>1, <1>3 DEF AuditTyped
  <1>6. ASSUME ~mixed' PROVE (Alone /\ Standing)' /\ \A u \in Threads : Owed(auditor[u])'
    <2>1. Alone /\ Standing /\ \A u \in Threads : Owed(auditor[u])
      BY <1>1, <1>2, <1>6 DEF LogInv
    <2>2. \A u \in Threads : /\ (Inside(u))' <=> Inside(u)
                             /\ (Rewriting(u))' <=> Rewriting(u)
      BY <1>2, <1>3, <1>5 DEF Inside, Rewriting
    <2>3. (Alone /\ Standing)'
      BY <1>2, <2>1, <2>2 DEF Alone, Standing
    <2>4. ASSUME NEW u \in Threads PROVE Owed(auditor[u])'
      <3>1. CASE u = t
        <4>1. auditor'[u] = a
          BY <3>1, <1>5
        <4> QED
          BY <4>1, <1>3 DEF Owed, Appending, Truncating, Relinking
      <3>2. CASE u # t
        <4>1. auditor'[u] = auditor[u]
          BY <3>2, <1>5
        <4> QED
          BY <4>1, <2>1, <1>2 DEF Owed, Appending, Truncating, Relinking, Ahead
      <3> QED
        BY <3>1, <3>2
    <2> QED
      BY <2>3, <2>4
  <1> QED
    BY <1>4, <1>6 DEF LogInv

(* A thread that goes on with a repair as the only one inside.              *)
LEMMA Rewrites ==
  ASSUME AuditTyped, NEW t \in Threads, NEW a \in Auditors,
         \A u \in Threads \ {t} : ~Inside(u),
         auditor' = [auditor EXCEPT ![t] = a],
         a.pc \in {"truncate", "rewrite"},
         Owed(a)'
  PROVE  (Alone /\ Standing)' /\ \A u \in Threads : Owed(auditor[u])'
  <1>1. \A u \in Threads : auditor'[u] = IF u = t THEN a ELSE auditor[u]
    BY DEF AuditTyped
  <1>2. Alone'
    BY <1>1 DEF Alone, Inside
  <1>3. Standing'
    BY <1>1 DEF Standing, Rewriting
  <1>4. ASSUME NEW u \in Threads PROVE Owed(auditor[u])'
    <2>1. CASE u = t
      <3>1. auditor'[u] = a
        BY <2>1, <1>1
      <3> QED
        BY <3>1 DEF Owed, Appending, Truncating, Relinking, Ahead
    <2>2. CASE u # t
      <3>1. auditor'[u].pc \notin {"append", "truncate", "rewrite"}
        BY <2>2, <1>1 DEF Inside
      <3> QED
        BY <3>1 DEF Owed, Appending, Truncating, Relinking
    <2> QED
      BY <2>1, <2>2
  <1> QED
    BY <1>2, <1>3, <1>4

LEMMA RepairBeginStep ==
  ASSUME RecordsInv, NEW t \in Threads, RepairBegin(t)
  PROVE  AuditTyped' /\ LogInv'
  <1>1. AuditTyped
    BY DEF RecordsInv
  <1>2. /\ ~Locked(t)
        /\ mixed' = Foreign(t) /\ kept' = EventsIn(lines)
        /\ UNCHANGED <<lines, unended, clock>>
    BY DEF RepairBegin
  <1>3. PICK a \in Auditors : /\ auditor' = [auditor EXCEPT ![t] = a]
                                /\ a.pc = "truncate" /\ a.source = lines
                                /\ a.entry = Torn
    <2> DEFINE a == [Idle EXCEPT !.pc = "truncate", !.source = lines]
    <2>1. a \in Auditors /\ a.pc = "truncate" /\ a.source = lines /\ a.entry = Torn
      BY <1>1, IdleTyped DEF Auditors, AuditState, Idle, AuditTyped, Logs, Line
    <2>2. auditor' = [auditor EXCEPT ![t] = a]
      BY DEF RepairBegin
    <2> HIDE DEF a
    <2> QED
      BY <2>1, <2>2
  <1>4. AuditTyped'
    <2>1. kept' \in SUBSET Nat
      BY <1>1, <1>2, LogEvents DEF AuditTyped, Logs
    <2>2. mixed' \in BOOLEAN
      BY <1>2 DEF Foreign
    <2> QED
      BY <1>1, <1>2, <1>3, <2>1, <2>2 DEF AuditTyped
  <1>5. ASSUME ~mixed' PROVE (Alone /\ Standing)' /\ \A u \in Threads : Owed(auditor[u])'
    <2>1. \A u \in Threads \ {t} : ~Inside(u)
      BY <1>2, <1>5, NobodyInside
    <2>2. Owed(a)'
      BY <1>2, <1>3, IdleTyped DEF Owed, Appending, Truncating, Relinking
    <2> QED
      BY <1>1, <1>2, <1>3, <2>1, <2>2, Rewrites
  <1> QED
    BY <1>4, <1>5 DEF LogInv

LEMMA RepairTruncateStep ==
  ASSUME RecordsInv, NEW t \in Threads, RepairTruncate(t)
  PROVE  AuditTyped' /\ LogInv'
  <1>1. AuditTyped /\ LogInv
    BY DEF RecordsInv
  <1>2. /\ auditor[t].pc = "truncate" /\ lines' = <<>> /\ unended' = FALSE
        /\ UNCHANGED <<clock, mixed, kept>>
    BY DEF RepairTruncate
  <1>3. PICK a \in Auditors : /\ auditor' = [auditor EXCEPT ![t] = a]
                                /\ a.pc = "rewrite" /\ a.next = 1
                                /\ a.source = auditor[t].source
                                /\ a.entry = auditor[t].entry
    <2> DEFINE b == auditor[t]
               a == [b EXCEPT !.pc = "rewrite", !.next = 1]
    <2>1. b \in Auditors
      BY <1>1, EntryTyped
    <2>2. auditor' = [auditor EXCEPT ![t] = a]
      BY <1>1 DEF RepairTruncate, AuditTyped
    <2> HIDE DEF b
    <2>3. b \in AuditState
      BY <2>1 DEF Auditors
    <2>4. /\ a \in AuditState /\ a.pc = "rewrite" /\ a.next = 1
          /\ a.source = b.source /\ a.entry = b.entry
      BY <2>3 DEF AuditState
    <2> HIDE DEF a
    <2>5. a \in Auditors
      BY <2>4 DEF Auditors
    <2> QED
      BY <2>2, <2>4, <2>5 DEF b
  <1>6. AuditTyped'
    BY <1>1, <1>2, <1>3, EmptyLog DEF AuditTyped
  <1>7. ASSUME ~mixed' PROVE (Alone /\ Standing)' /\ \A u \in Threads : Owed(auditor[u])'
    <2>1. Inside(t) /\ ~mixed
      BY <1>2, <1>7 DEF Inside
    <2>2. (\A u \in Threads \ {t} : ~Inside(u)) /\ Owed(auditor[t])
      BY <1>1, <2>1, OthersOutside
    <2>3. Owed(a)'
      <3>1. ~Parses(a.entry) /\ kept \subseteq EventsIn(a.source)
        BY <2>2, <1>2, <1>3 DEF Owed, Truncating
      <3>2. a.source \in Seq(Line)
        BY <1>3 DEF Auditors, AuditState, Line
      <3>3. EventsIn(a.source) \subseteq Ahead(a)
        BY <3>2, <1>3, LogEvents DEF EventsIn, Ahead
      <3>4. a.next \in 1 .. Len(a.source) + 1
        BY <3>2, <1>3, LogEvents
      <3> QED
        BY <1>2, <1>3, <3>1, <3>3, <3>4, EmptyLog
           DEF Owed, Appending, Truncating, Relinking
    <2> QED
      BY <1>1, <1>3, <2>2, <2>3, Rewrites
  <1> QED
    BY <1>6, <1>7 DEF LogInv

LEMMA RepairAppendStep ==
  ASSUME RecordsInv, NEW t \in Threads, RepairAppend(t)
  PROVE  AuditTyped' /\ LogInv'
  <1>1. AuditTyped /\ LogInv
    BY DEF RecordsInv
  <1>2. /\ auditor[t].pc = "rewrite" /\ auditor[t].next <= Len(auditor[t].source)
        /\ UNCHANGED <<clock, mixed, kept>>
    BY DEF RepairAppend
  <1>3. PICK b \in Auditors : b = auditor[t]
    BY <1>1, EntryTyped
  <1>4. /\ b.source \in Seq(Line) /\ b.next \in Nat /\ b.entry \in Line
        /\ b.pc = "rewrite" /\ b.next <= Len(b.source)
        /\ Len(b.source) \in Nat
    BY <1>1, <1>2, <1>3, EntryTyped, LogEvents
  <1>5. /\ ~mixed => /\ \A u \in Threads \ {t} : ~Inside(u)
                     /\ b.next \in 1 .. Len(b.source)
                     /\ Linked(lines) /\ ~unended
                     /\ IF Parses(b.entry) THEN lines # <<>> /\ lines[Len(lines)] = b.entry
                        ELSE lines = <<>>
                     /\ kept \subseteq EventsIn(lines) \cup Ahead(b)
    <2> SUFFICES ASSUME ~mixed
                 PROVE  /\ \A u \in Threads \ {t} : ~Inside(u)
                        /\ b.next \in 1 .. Len(b.source)
                        /\ Linked(lines) /\ ~unended
                        /\ IF Parses(b.entry) THEN lines # <<>> /\ lines[Len(lines)] = b.entry
                           ELSE lines = <<>>
                        /\ kept \subseteq EventsIn(lines) \cup Ahead(b)
      OBVIOUS
    <2>1. Inside(t)
      BY <1>2 DEF Inside
    <2>2. (\A u \in Threads \ {t} : ~Inside(u)) /\ Relinking(b)
      BY <1>1, <1>3, <2>1, OthersOutside DEF Owed
    <2> QED
      BY <2>2, <1>4 DEF Relinking
  <1>6. /\ b.next \in 1 .. Len(b.source)
        /\ b.source[b.next] \in Line
        /\ b.next + 1 \in Nat \ {0}
        /\ b.next + 1 \in 1 .. Len(b.source) + 1
    <2>1. b.next # 0
      BY <1>4 DEF Auditors
    <2>2. b.next \in 1 .. Len(b.source)
      BY <1>4, <2>1
    <2> QED
      BY <1>4, <2>2
  <1>7. b \in AuditState
    BY DEF Auditors
  <1> DEFINE here == b.source[b.next]
             rest == {b.source[i].event : i \in b.next + 1 .. Len(b.source)} \ {0}
  <1>8. Ahead(b) \subseteq rest \cup ({here.event} \ {0})
    <2>1. \A i \in b.next .. Len(b.source) : i = b.next \/ i \in b.next + 1 .. Len(b.source)
      BY <1>4
    <2> QED
      BY <2>1 DEF Ahead
  <1>9. CASE Parses(here)
    <2>1. PICK e : e = Relinked(t)
      OBVIOUS
    <2>2. /\ e \in Line
          /\ e.event = here.event /\ Parses(e)
          /\ e.previous = IF Parses(b.entry) THEN Hash(b.entry) ELSE <<>>
      <3>1. e = Entry(here.event, IF Parses(b.entry) THEN Hash(b.entry) ELSE <<>>)
        BY <1>3, <2>1 DEF Relinked
      <3>2. here.event \in Nat /\ Hash(b.entry) \in Seq(Nat) /\ <<>> \in Seq(Nat)
        <4>1. b.entry \in Line /\ b.source[b.next] \in Line
          BY <1>4, <1>6
        <4>2. b.entry.event \in Nat /\ b.entry.previous \in Seq(Nat)
              /\ b.source[b.next].event \in Nat
          BY <4>1 DEF Line
        <4> QED
          BY <4>2 DEF Hash
      <3> HIDE DEF here
      <3> QED
        BY <3>1, <3>2, <1>9 DEF Entry, Line, Parses
    <2>3. /\ lines' = Written(e) /\ unended' = FALSE
          /\ auditor' = [auditor EXCEPT ![t].entry = e, ![t].next = b.next + 1]
      BY <1>3, <1>9, <2>1 DEF RepairAppend
    <2>4. PICK a \in Auditors : /\ auditor' = [auditor EXCEPT ![t] = a]
                                /\ a.pc = "rewrite" /\ a.source = b.source
                                /\ a.next = b.next + 1 /\ a.entry = e
      <3> DEFINE a == [b EXCEPT !.entry = e, !.next = b.next + 1]
      <3>1. auditor' = [auditor EXCEPT ![t] = a]
        BY <1>1, <1>3, <2>3 DEF AuditTyped
      <3>2. /\ a.pc = "rewrite" /\ a.source = b.source
            /\ a.next = b.next + 1 /\ a.entry = e
            /\ a \in AuditState
        BY <1>4, <1>6, <1>7, <2>2 DEF AuditState, Line
      <3>3. a \in Auditors
        BY <3>2, <1>6 DEF Auditors
      <3> HIDE DEF a
      <3> QED
        BY <3>1, <3>2, <3>3
    <2>5. AuditTyped'
      <3>1. lines' \in Logs
        BY <1>1, <2>2, <2>3, WrittenTyped DEF AuditTyped
      <3>2. auditor' \in [Threads -> Auditors]
        BY <1>1, <2>4 DEF AuditTyped
      <3> QED
        BY <1>1, <1>2, <2>3, <3>1, <3>2 DEF AuditTyped
    <2>6. ASSUME ~mixed' PROVE (Alone /\ Standing)' /\ \A u \in Threads : Owed(auditor[u])'
      <3>1. /\ \A u \in Threads \ {t} : ~Inside(u)
            /\ Linked(lines) /\ ~unended
            /\ IF Parses(b.entry) THEN lines # <<>> /\ lines[Len(lines)] = b.entry
               ELSE lines = <<>>
            /\ kept \subseteq EventsIn(lines) \cup Ahead(b)
        BY <1>2, <1>5, <2>6
      <3>2. lines' = Append(lines, e) /\ e.previous = EndOf(lines) /\ lines \in Logs
        BY <1>1, <2>2, <2>3, <3>1 DEF Written, EndOf, AuditTyped
      <3>3. /\ Linked(lines') /\ EventsIn(lines') = EventsIn(lines) \cup {e.event}
            /\ lines' # <<>> /\ lines'[Len(lines')] = e
        BY <2>2, <3>1, <3>2, AppendedLinks, AppendedLog
      <3>4. Ahead(a) = rest
        BY <2>4 DEF Ahead
      <3>5. kept' \subseteq EventsIn(lines') \cup Ahead(a)
        <4> HIDE DEF here, rest
        <4> QED
          BY <1>2, <1>8, <2>2, <3>1, <3>3, <3>4
      <3>6. Relinking(a)'
        <4>1. Linked(lines)' /\ ~unended' /\ Parses(a.entry)
              /\ lines' # <<>> /\ lines'[Len(lines')] = a.entry
          BY <2>2, <2>3, <2>4, <3>3
        <4>2. a.next \in 1 .. Len(a.source) + 1
          BY <1>6, <2>4
        <4> QED
          BY <4>1, <4>2, <3>5 DEF Relinking, Ahead
      <3>7. Owed(a)'
        BY <2>4, <3>6 DEF Owed, Appending, Truncating
      <3> QED
        BY <1>1, <2>4, <3>1, <3>7, Rewrites
    <2> QED
      BY <2>5, <2>6 DEF LogInv
  <1>10. CASE ~Parses(here)
    <2>1. /\ UNCHANGED <<lines, unended>>
          /\ auditor' = [auditor EXCEPT ![t].next = b.next + 1]
      BY <1>3, <1>10 DEF RepairAppend
    <2>2. PICK a \in Auditors : /\ auditor' = [auditor EXCEPT ![t] = a]
                                /\ a.pc = "rewrite" /\ a.source = b.source
                                /\ a.next = b.next + 1 /\ a.entry = b.entry
      <3> DEFINE a == [b EXCEPT !.next = b.next + 1]
      <3>1. auditor' = [auditor EXCEPT ![t] = a]
        BY <1>1, <1>3, <2>1 DEF AuditTyped
      <3>2. /\ a.pc = "rewrite" /\ a.source = b.source
            /\ a.next = b.next + 1 /\ a.entry = b.entry
            /\ a \in AuditState
        BY <1>4, <1>6, <1>7 DEF AuditState
      <3>3. a \in Auditors
        BY <3>2, <1>6 DEF Auditors
      <3> HIDE DEF a
      <3> QED
        BY <3>1, <3>2, <3>3
    <2>3. AuditTyped'
      BY <1>1, <1>2, <2>1, <2>2 DEF AuditTyped
    <2>4. ASSUME ~mixed' PROVE (Alone /\ Standing)' /\ \A u \in Threads : Owed(auditor[u])'
      <3>1. /\ \A u \in Threads \ {t} : ~Inside(u)
            /\ Linked(lines) /\ ~unended
            /\ IF Parses(b.entry) THEN lines # <<>> /\ lines[Len(lines)] = b.entry
               ELSE lines = <<>>
            /\ kept \subseteq EventsIn(lines) \cup Ahead(b)
        BY <1>2, <1>5, <2>4
      <3>2. Ahead(a) = rest
        BY <2>2 DEF Ahead
      <3>3. kept \subseteq EventsIn(lines) \cup Ahead(a)
        <4>1. {here.event} \ {0} = {}
          BY <1>10 DEF Parses
        <4> HIDE DEF here, rest
        <4> QED
          BY <1>8, <3>1, <3>2, <4>1
      <3>4. a.next \in 1 .. Len(a.source) + 1
        BY <1>6, <2>2
      <3>5. Relinking(a)'
        BY <1>2, <2>1, <2>2, <3>1, <3>3, <3>4 DEF Relinking, Ahead
      <3>6. Owed(a)'
        BY <2>2, <3>5 DEF Owed, Appending, Truncating
      <3> QED
        BY <1>1, <2>2, <3>1, <3>6, Rewrites
    <2> QED
      BY <2>3, <2>4 DEF LogInv
  <1> QED
    BY <1>9, <1>10

LEMMA RepairEndStep ==
  ASSUME RecordsInv, NEW t \in Threads, RepairEnd(t)
  PROVE  AuditTyped' /\ LogInv'
  <1>1. AuditTyped /\ LogInv
    BY DEF RecordsInv
  <1>2. /\ auditor[t].pc = "rewrite" /\ auditor[t].next > Len(auditor[t].source)
        /\ auditor' = [auditor EXCEPT ![t] = Idle]
        /\ UNCHANGED <<lines, unended, clock, mixed, kept>>
    BY DEF RepairEnd
  <1>3. AuditTyped'
    BY <1>1, <1>2, IdleTyped DEF AuditTyped
  <1>4. ASSUME ~mixed' PROVE (Alone /\ Standing)' /\ \A u \in Threads : Owed(auditor[u])'
    <2>1. Inside(t) /\ ~mixed
      BY <1>2, <1>4 DEF Inside
    <2>2. (\A u \in Threads \ {t} : ~Inside(u)) /\ Relinking(auditor[t])
      BY <1>1, <2>1, OthersOutside DEF Owed
    <2>3. PICK b : b = auditor[t]
      OBVIOUS
    <2>4. b.next \in Nat /\ Len(b.source) \in Nat /\ b.next > Len(b.source)
      BY <1>1, <1>2, <2>3, EntryTyped, LogEvents
    <2>5. Ahead(b) = {}
      BY <2>4 DEF Ahead
    <2>6. Whole(lines, unended, kept)'
      BY <1>2, <2>2, <2>3, <2>5 DEF Relinking, Whole
    <2> QED
      BY <1>1, <1>2, <2>2, <2>6, Leaves
  <1> QED
    BY <1>3, <1>4 DEF LogInv
-----------------------------------------------------------------------------
(* Steps of the backups.                                                    *)
LEMMA Settled ==
  ASSUME NEW k, KeeperSound(k)
  PROVE  /\ KeeperSound([k EXCEPT !.calm = FALSE])
         /\ KeeperSound([k EXCEPT !.pc = "database"])
         /\ KeeperSound([k EXCEPT !.pc = "blobs"])
  BY DEF KeeperSound, KeeperTyped

LEMMA BackupsMoved ==
  ASSUME BackupsInv, NEW t \in Threads, NEW k, KeeperSound(k),
         keeper' = Moved(t, k), UNCHANGED archive
  PROVE  BackupsInv'
  <1>1. ASSUME NEW u \in Threads PROVE KeeperSound(keeper'[u])
    <2>1. keeper'[u] = IF u = t THEN k
                       ELSE IF keeper[u].pc = "idle" THEN keeper[u]
                       ELSE [keeper[u] EXCEPT !.calm = FALSE]
      BY DEF Moved
    <2>2. KeeperSound(keeper[u])
      BY DEF BackupsInv
    <2> QED
      BY <2>1, <2>2, Settled
  <1>2. DOMAIN keeper' = Threads
    BY DEF Moved
  <1> QED
    BY <1>1, <1>2 DEF BackupsInv

LEMMA BackupsDisturbed ==
  ASSUME BackupsInv, NEW t \in Threads, Disturb(t), UNCHANGED archive
  PROVE  BackupsInv'
  BY BackupsMoved DEF Disturb, BackupsInv

(* One thread gets on with its backup, or an archive is replaced.           *)
LEMMA KeeperReplaced ==
  ASSUME BackupsInv, NEW t \in Threads, NEW k, KeeperSound(k),
         keeper' = [keeper EXCEPT ![t] = k], UNCHANGED archive
  PROVE  BackupsInv'
  <1>1. \A u \in Threads : keeper'[u] = IF u = t THEN k ELSE keeper[u]
    BY DEF BackupsInv
  <1>2. DOMAIN keeper' = Threads
    BY DEF BackupsInv
  <1> QED
    BY <1>1, <1>2 DEF BackupsInv

LEMMA ListedImage ==
  ASSUME AuditTyped
  PROVE  ArchiveTyped([NoArchive EXCEPT
                         !.manifest = [NoImage EXCEPT
                            !.blobs = blobs, !.copies = copies,
                            !.log = lines, !.unended = unended]])
  <1> DEFINE m == [NoImage EXCEPT !.blobs = blobs, !.copies = copies,
                                  !.log = lines, !.unended = unended]
  <1>1. ImageTyped(m)
    BY DEF ImageTyped, NoImage, AuditTyped
  <1> HIDE DEF m
  <1>2. ArchiveTyped([NoArchive EXCEPT !.manifest = m])
    BY <1>1, NothingBackedUp DEF ArchiveTyped, NoArchive
  <1> QED
    BY <1>2 DEF m

LEMMA BackupListStep ==
  ASSUME RecordsInv, NEW t \in Threads, NEW slot, NEW goal, NEW source,
         ArchiveTyped(source), Manifest(source),
         BackupList(t, slot, goal, source)
  PROVE  BackupsInv'
  <1> DEFINE d == [NoArchive EXCEPT
                     !.manifest = [NoImage EXCEPT
                        !.blobs = blobs, !.copies = copies,
                        !.log = lines, !.unended = unended]]
             k == [pc |-> "hashing", slot |-> slot, goal |-> goal,
                   source |-> source, calm |-> Quiet, draft |-> d]
  <1>1. keeper' = [keeper EXCEPT ![t] = k] /\ UNCHANGED archive
    BY DEF BackupList
  <1>2. ArchiveTyped(d)
    BY ListedImage DEF RecordsInv
  <1> HIDE DEF d
  <1>3. KeeperSound(k)
    BY <1>2 DEF KeeperSound, KeeperTyped
  <1> HIDE DEF k
  <1> QED
    BY <1>1, <1>3, KeeperReplaced DEF RecordsInv

LEMMA BackupHashStep ==
  ASSUME RecordsInv, NEW t \in Threads, BackupHash(t)
  PROVE  BackupsInv'
  <1> DEFINE k == keeper[t]
             m == [NoImage EXCEPT !.blobs = blobs, !.copies = copies,
                                  !.log = lines, !.unended = unended]
  <1>1. AuditTyped /\ LogInv /\ BackupsInv /\ KeeperSound(k)
    BY DEF RecordsInv, BackupsInv
  <1>2. KeeperTyped(k) /\ ArchiveTyped(k.draft) /\ ImageTyped(k.draft.manifest)
    BY <1>1 DEF KeeperSound, KeeperTyped, ArchiveTyped
  <1>3. ImageTyped(m) /\ m.log = lines /\ m.unended = unended
    BY <1>1 DEF ImageTyped, NoImage, AuditTyped
  <1>4. PICK n : n = keeper'[t]
    OBVIOUS
  <1>5. /\ \A u \in Threads \ {t} : keeper'[u] = keeper[u]
        /\ DOMAIN keeper' = Threads
        /\ UNCHANGED archive
    BY <1>1 DEF BackupHash, BackupsInv
  <1>6. n = [keeper[t] EXCEPT
               !.pc = "copying",
               !.draft.manifest.rows = rows,
               !.draft.members = m,
               !.draft.mixed = mixed \/ Repairing,
               !.draft.kept = kept]
    BY <1>1, <1>4 DEF BackupHash, BackupsInv
  <1> HIDE DEF m, k
  <1>7. /\ DOMAIN n = DOMAIN k
        /\ n.pc = "copying"
        /\ n.source = k.source
        /\ DOMAIN n.draft = DOMAIN k.draft
        /\ n.draft.members = m
        /\ n.draft.mixed = (mixed \/ Repairing)
        /\ n.draft.kept = kept
        /\ DOMAIN n.draft.manifest = DOMAIN k.draft.manifest
        /\ n.draft.manifest.log = k.draft.manifest.log
        /\ n.draft.manifest.unended = k.draft.manifest.unended
    BY <1>2, <1>6 DEF KeeperTyped, ArchiveTyped, ImageTyped, k
  <1>8. ArchiveTyped(n.draft)
    <2>1. ImageTyped(n.draft.manifest)
      BY <1>2, <1>7 DEF ImageTyped
    <2>2. kept \in SUBSET Nat /\ (mixed \/ Repairing) \in BOOLEAN
      BY <1>1 DEF AuditTyped, Repairing
    <2> QED
      BY <1>2, <1>3, <1>7, <2>1, <2>2 DEF ArchiveTyped
  <1>9. Members(n.draft)
    <2>1. ASSUME ~mixed, ~Repairing PROVE Whole(lines, unended, kept)
      BY <1>1, <2>1 DEF LogInv, Standing, Rewriting, Repairing
    <2> QED
      BY <1>3, <1>7, <2>1 DEF Members
  <1>10. KeeperSound(n)
    BY <1>1, <1>2, <1>7, <1>8, <1>9 DEF KeeperSound, KeeperTyped, k
  <1> QED
    BY <1>1, <1>4, <1>5, <1>10 DEF BackupsInv

LEMMA BackupCloseStep ==
  ASSUME RecordsInv, NEW t \in Threads, BackupClose(t)
  PROVE  BackupsInv'
  <1> DEFINE k == keeper[t]
             d == [k.draft EXCEPT !.members.rows = rows, !.made = TRUE,
                                  !.calm = k.calm /\ ~partial,
                                  !.crossed = crossed, !.stored = stored]
             n == IF k.goal = "restore"
                  THEN [Away EXCEPT !.pc = "restoring", !.calm = Quiet,
                                    !.source = k.source]
                  ELSE Away
  <1>1. BackupsInv /\ KeeperSound(k) /\ k.pc = "copying"
    BY DEF RecordsInv, BackupsInv, BackupClose
  <1>2. /\ keeper' = [keeper EXCEPT ![t] = n]
        /\ archive' = [archive EXCEPT ![k.slot] = d]
    BY DEF BackupClose
  <1>3. ArchiveTyped(k.draft) /\ Members(k.draft)
        /\ ArchiveTyped(k.source) /\ Manifest(k.source)
    BY <1>1 DEF KeeperSound, KeeperTyped
  <1>4. KeeperSound(n)
    BY <1>3, NothingBackedUp DEF KeeperSound, KeeperTyped, Away
  <1> HIDE DEF k, n
  <1>5. /\ ArchiveTyped(d) /\ d.members.log = k.draft.members.log
        /\ d.members.unended = k.draft.members.unended
        /\ d.mixed = k.draft.mixed /\ d.kept = k.draft.kept
    BY <1>3 DEF ArchiveTyped, ImageTyped
  <1> HIDE DEF d
  <1>6. Members(d)
    BY <1>3, <1>5 DEF Members
  <1>7. /\ DOMAIN archive' = Slots
        /\ \A s \in Slots : ArchiveTyped(archive'[s]) /\ Members(archive'[s])
    <2>1. \A s \in Slots : archive'[s] = IF s = k.slot THEN d ELSE archive[s]
      BY <1>1, <1>2 DEF BackupsInv
    <2>2. DOMAIN archive' = Slots
      BY <1>1, <1>2 DEF BackupsInv
    <2> QED
      BY <1>1, <1>5, <1>6, <2>1, <2>2 DEF BackupsInv
  <1>8. /\ DOMAIN keeper' = Threads
        /\ \A u \in Threads : KeeperSound(keeper'[u])
    <2>1. \A u \in Threads : keeper'[u] = IF u = t THEN n ELSE keeper[u]
      BY <1>1, <1>2 DEF BackupsInv
    <2>2. DOMAIN keeper' = Threads
      BY <1>1, <1>2 DEF BackupsInv
    <2> QED
      BY <1>1, <1>4, <2>1, <2>2 DEF BackupsInv
  <1> QED
    BY <1>7, <1>8 DEF BackupsInv

(* What verify_backup compared: the manifest has the log of the members.    *)
LEMMA RestoreBeginStep ==
  ASSUME RecordsInv, NEW t \in Threads, NEW safety \in BOOLEAN,
         RestoreBegin(t, safety)
  PROVE  BackupsInv'
  <1> DEFINE a == archive["backup"]
             k == [Away EXCEPT !.pc = "restoring", !.calm = Quiet, !.source = a]
  <1>1. ArchiveTyped(a) /\ Members(a) /\ Verified(a) /\ BackupsInv
    BY DEF RecordsInv, BackupsInv, Slots, RestoreBegin
  <1>2. Manifest(a)
    BY <1>1 DEF Members, Manifest, Verified
  <1>3. CASE safety
    <2>1. BackupList(t, "safety", "restore", a)
      BY <1>3 DEF RestoreBegin
    <2> HIDE DEF a
    <2> QED
      BY <1>1, <1>2, <2>1, BackupListStep
  <1>4. CASE ~safety
    <2>1. keeper' = [keeper EXCEPT ![t] = k] /\ UNCHANGED archive
      BY <1>4 DEF RestoreBegin
    <2> HIDE DEF a
    <2>2. KeeperSound(k)
      BY <1>1, <1>2, NothingBackedUp DEF KeeperSound, KeeperTyped, Away
    <2> HIDE DEF k
    <2> QED
      BY <1>1, <2>1, <2>2, KeeperReplaced
  <1> QED
    BY <1>3, <1>4
-----------------------------------------------------------------------------
(* Restores, resets and deaths.                                             *)
LEMMA RestoreFilesStep ==
  ASSUME RecordsInv, NEW t \in Threads, RestoreFiles(t)
  PROVE  RecordsInv'
  <1>1. PICK k : k = keeper[t]
    OBVIOUS
  <1>2. AuditTyped /\ BackupsInv /\ KeeperSound(k)
    BY <1>1 DEF RecordsInv, BackupsInv
  <1>3. /\ lines' = k.source.manifest.log
        /\ unended' = k.source.manifest.unended
        /\ mixed' = (k.source.mixed \/ \E u \in Threads : Inside(u))
        /\ kept' = k.source.kept
        /\ UNCHANGED <<clock, auditor, archive>>
        /\ keeper' = Moved(t, [k EXCEPT !.pc = "database"])
    BY <1>1 DEF RestoreFiles
  <1>4. AuditTyped'
    <2>1. /\ k.source.manifest.log \in Logs
          /\ k.source.manifest.unended \in BOOLEAN
          /\ k.source.kept \in SUBSET Nat
      BY <1>2 DEF KeeperSound, KeeperTyped, ArchiveTyped, ImageTyped
    <2>2. mixed' \in BOOLEAN
      <3>1. (\E u \in Threads : Inside(u)) \in BOOLEAN
        OBVIOUS
      <3> QED
        BY <1>2, <1>3, <3>1 DEF KeeperSound, KeeperTyped, ArchiveTyped
    <2> QED
      BY <1>2, <1>3, <2>1, <2>2 DEF AuditTyped
  <1>5. BackupsInv'
    BY <1>2, <1>3, Settled, BackupsMoved
  <1>6. LogInv'
    <2> SUFFICES ASSUME ~mixed' PROVE (Alone /\ Standing)' /\ \A u \in Threads : Owed(auditor[u])'
      BY DEF LogInv
    <2>1. ~k.source.mixed /\ \A u \in Threads : ~Inside(u)
      BY <1>3
    <2>2. Whole(lines, unended, kept)'
      BY <1>2, <1>3, <2>1 DEF KeeperSound, Manifest, Whole
    <2>3. \A u \in Threads : auditor'[u].pc \notin {"append", "truncate", "rewrite"}
      BY <1>3, <2>1 DEF Inside
    <2> QED
      BY <2>2, <2>3 DEF Alone, Inside, Standing, Owed, Appending, Truncating, Relinking
  <1> QED
    BY <1>4, <1>5, <1>6 DEF RecordsInv

LEMMA ResetStep ==
  ASSUME RecordsInv, Reset
  PROVE  RecordsInv'
  <1>1. AuditTyped /\ BackupsInv
    BY DEF RecordsInv
  <1>2. /\ lines' = <<>> /\ unended' = FALSE /\ mixed' = FALSE /\ kept' = {}
        /\ archive' = [archive EXCEPT !["safety"] = NoArchive]
        /\ UNCHANGED <<clock, auditor, keeper>>
        /\ \A u \in Threads : auditor[u].pc = "idle"
    BY DEF Reset, ResetFiles, Free
  <1>3. AuditTyped'
    BY <1>1, <1>2, EmptyLog DEF AuditTyped
  <1>4. BackupsInv'
    <2>1. /\ DOMAIN archive' = Slots
          /\ \A s \in Slots : archive'[s] = IF s = "safety" THEN NoArchive ELSE archive[s]
      BY <1>1, <1>2 DEF BackupsInv
    <2> QED
      BY <1>1, <1>2, <2>1, NothingBackedUp DEF BackupsInv
  <1>5. LogInv'
    BY <1>2, EmptyLog DEF LogInv, Alone, Inside, Standing, Whole, Owed, Appending,
       Truncating, Relinking
  <1> QED
    BY <1>3, <1>4, <1>5 DEF RecordsInv

LEMMA PendingTyped ==
  ASSUME AuditTyped, NEW u \in Threads, NEW e \in Pending(u)
  PROVE  e \in Line /\ Inside(u)
  <1>1. PICK a : a = auditor[u]
    OBVIOUS
  <1>2. a \in Auditors /\ a.entry \in Line /\ a.source \in Seq(Line) /\ a.next \in Nat
    BY <1>1, EntryTyped
  <1>3. CASE a.pc = "append"
    BY <1>1, <1>2, <1>3 DEF Pending, Inside
  <1>4. CASE a.pc # "append"
    <2>1. a.pc = "rewrite" /\ a.next <= Len(a.source) /\ e = Relinked(u)
      BY <1>1, <1>4 DEF Pending
    <2>2. a.source[a.next] \in Line
      BY <1>2, <2>1, LogEvents DEF Auditors
    <2>3. e = Entry(a.source[a.next].event,
                    IF Parses(a.entry) THEN Hash(a.entry) ELSE <<>>)
      BY <1>1, <2>1 DEF Relinked
    <2>4. a.source[a.next].event \in Nat /\ Hash(a.entry) \in Seq(Nat)
          /\ <<>> \in Seq(Nat)
      BY <1>2, <2>2 DEF Line, Hash
    <2>5. e \in Line
      <3> DEFINE v == a.source[a.next].event
                 h == Hash(a.entry)
      <3>1. v \in Nat /\ h \in Seq(Nat) /\ <<>> \in Seq(Nat)
        BY <2>4
      <3>2. e = Entry(v, IF Parses(a.entry) THEN h ELSE <<>>)
        BY <2>3
      <3> HIDE DEF v, h
      <3> QED
        BY <3>1, <3>2 DEF Entry, Line
    <2> QED
      BY <1>1, <2>1, <2>5 DEF Inside
  <1> QED
    BY <1>3, <1>4

LEMMA DeathStep ==
  ASSUME RecordsInv, NEW t \in Threads, Die(t), BackupDie(t)
  PROVE  RecordsInv'
  <1> DEFINE process == {u \in Threads : SameProcess(t, u)}
             pending == UNION {Pending(u) : u \in process}
  <1>1. AuditTyped /\ LogInv /\ BackupsInv
    BY DEF RecordsInv
  <1>2. /\ \/ UNCHANGED <<lines, unended>>
           \/ \E e \in pending \cup {Torn} :
                /\ pending # {} /\ lines' = Written(e) /\ unended' = TRUE
        /\ auditor' = [u \in Threads |-> IF u \in process THEN Idle ELSE auditor[u]]
        /\ mixed' = (mixed \/ Locked(t))
        /\ UNCHANGED <<clock, kept>>
    BY DEF Die
  <1>3. ASSUME NEW e \in pending PROVE e \in Line /\ Locked(t)
    <2>1. PICK u \in process : e \in Pending(u)
      BY <1>3
    <2> QED
      BY <1>1, <2>1, PendingTyped DEF Locked
  <1> HIDE DEF pending
  <1>4. AuditTyped'
    <2>1. lines' \in Logs /\ unended' \in BOOLEAN
      BY <1>1, <1>2, <1>3, WrittenTyped, IdleTyped DEF AuditTyped
    <2>2. auditor' \in [Threads -> Auditors]
      BY <1>1, <1>2, IdleTyped DEF AuditTyped
    <2>3. mixed' \in BOOLEAN
      BY <1>1, <1>2 DEF AuditTyped, Locked
    <2> QED
      BY <1>1, <1>2, <2>1, <2>2, <2>3 DEF AuditTyped
  <1>5. LogInv'
    <2> SUFFICES ASSUME ~mixed' PROVE (Alone /\ Standing)' /\ \A u \in Threads : Owed(auditor[u])'
      BY DEF LogInv
    <2>1. ~mixed /\ ~Locked(t)
      BY <1>2
    <2>2. UNCHANGED <<lines, unended, kept>>
      BY <1>2, <1>3, <2>1
    <2>3. \A u \in process : ~Inside(u) /\ ~Rewriting(u)
      BY <2>1 DEF Locked, Inside, Rewriting
    <2>4. Alone /\ Standing /\ \A u \in Threads : Owed(auditor[u])
      BY <1>1, <2>1 DEF LogInv
    <2>5. \A u \in Threads :
             \/ u \notin process /\ auditor'[u] = auditor[u]
             \/ u \in process /\ auditor'[u] = Idle
      BY <1>2
    <2> HIDE DEF process
    <2>6. Idle.pc = "idle"
      BY DEF Idle
    <2>7. \A u \in Threads : /\ (Inside(u))' <=> Inside(u)
                             /\ (Rewriting(u))' <=> Rewriting(u)
      BY <2>3, <2>5, <2>6 DEF Inside, Rewriting
    <2>8. (Alone /\ Standing)'
      BY <2>2, <2>4, <2>7 DEF Alone, Standing
    <2>9. ASSUME NEW u \in Threads PROVE Owed(auditor[u])'
      <3>1. CASE auditor'[u] = Idle
        BY <2>6, <3>1 DEF Owed, Appending, Truncating, Relinking
      <3>2. CASE auditor'[u] = auditor[u]
        BY <2>2, <2>4, <3>2 DEF Owed, Appending, Truncating, Relinking, Ahead
      <3> QED
        BY <2>5, <3>1, <3>2
    <2> QED
      BY <2>8, <2>9
  <1>6. BackupsInv'
    <2>1. /\ \A u \in Threads : keeper'[u] = Away \/ keeper'[u] = keeper[u]
          /\ DOMAIN keeper' = Threads
          /\ UNCHANGED archive
      BY DEF BackupDie
    <2> QED
      BY <1>1, <2>1, NothingBackedUp DEF BackupsInv
  <1> QED
    BY <1>4, <1>5, <1>6 DEF RecordsInv

(* Steps that leave the log alone.                                          *)
LEMMA LogAlone ==
  ASSUME RecordsInv, UNCHANGED audit
  PROVE  AuditTyped' /\ LogInv'
  <1>1. /\ AuditTyped /\ LogInv
        /\ UNCHANGED <<lines, unended, clock, auditor, mixed, kept>>
    BY DEF RecordsInv, audit
  <1>2. AuditTyped'
    BY <1>1 DEF AuditTyped
  <1>3. LogInv'
    BY <1>1 DEF LogInv, Alone, Inside, Standing, Rewriting, Owed, Appending,
       Truncating, Relinking, Ahead
  <1> QED
    BY <1>2, <1>3
LEMMA OneStep ==
  ASSUME RecordsInv, NEW t \in Threads,
         \/ Start(t)
         \/ Started(t)
         \/ Stop(t)
         \/ WriteResult(t)
         \/ WriteFile(t)
         \/ StoreProgress(t)
         \/ LogEvent(t)
         \/ Repair(t)
         \/ RepairProgress(t)
         \/ Backup(t)
         \/ Restore(t)
         \/ BackupProgress(t)
         \/ Death(t)
  PROVE  RecordsInv'
  <1>1. BackupsInv
    BY DEF RecordsInv
  <1>2. ASSUME UNCHANGED audit, Disturb(t), UNCHANGED archive PROVE RecordsInv'
    BY <1>1, <1>2, LogAlone, BackupsDisturbed DEF RecordsInv
  <1>3. ASSUME AuditTyped', LogInv', Disturb(t), UNCHANGED archive PROVE RecordsInv'
    BY <1>1, <1>3, BackupsDisturbed DEF RecordsInv
  <1>4. ASSUME UNCHANGED audit, BackupsInv' PROVE RecordsInv'
    BY <1>4, LogAlone DEF RecordsInv
  <1>5. CASE Start(t)
    BY <1>2, <1>5 DEF Start
  <1>6. CASE Started(t)
    BY <1>2, <1>6 DEF Started
  <1>7. CASE Stop(t)
    <2>1. UNCHANGED audit /\ UNCHANGED <<archive, keeper>>
      BY <1>7 DEF Stop, backup
    <2>2. BackupsInv'
      BY <1>1, <2>1 DEF BackupsInv
    <2> QED
      BY <1>4, <2>1, <2>2
  <1>8. CASE WriteResult(t)
    BY <1>2, <1>8 DEF WriteResult
  <1>9. CASE WriteFile(t)
    BY <1>2, <1>9 DEF WriteFile
  <1>10. CASE StoreProgress(t)
    BY <1>2, <1>10 DEF StoreProgress
  <1>11. CASE LogEvent(t)
    <2>1. (LogBegin(t) \/ LogAppend(t)) /\ Disturb(t) /\ UNCHANGED archive
      BY <1>11 DEF LogEvent
    <2> QED
      BY <1>3, <2>1, LogBeginStep, LogAppendStep
  <1>12. CASE Repair(t)
    BY <1>3, <1>12, RepairCheckStep DEF Repair
  <1>13. CASE RepairProgress(t)
    <2>1. /\ \/ RepairNothing(t)
             \/ RepairBegin(t)
             \/ RepairTruncate(t)
             \/ RepairAppend(t)
             \/ RepairEnd(t)
          /\ Disturb(t) /\ UNCHANGED archive
      BY <1>13 DEF RepairProgress
    <2> QED
      BY <1>3, <2>1, RepairCheckStep, RepairBeginStep, RepairTruncateStep,
         RepairAppendStep, RepairEndStep
  <1>14. CASE Backup(t)
    <2>1. BackupList(t, "backup", "backup", NoArchive)
      BY <1>14 DEF Backup
    <2>2. UNCHANGED audit
      BY <2>1 DEF BackupList
    <2> QED
      BY <1>4, <2>1, <2>2, BackupListStep, NothingBackedUp
  <1>15. CASE Restore(t)
    <2>1. PICK safety \in BOOLEAN : RestoreBegin(t, safety)
      BY <1>15 DEF Restore
    <2>2. UNCHANGED audit
      BY <2>1 DEF RestoreBegin, BackupList
    <2> QED
      BY <1>4, <2>1, <2>2, RestoreBeginStep
  <1>16. CASE BackupProgress(t)
    <2>1. CASE BackupHash(t)
      <3>1. UNCHANGED audit
        BY <2>1 DEF BackupHash
      <3> QED
        BY <1>4, <2>1, <3>1, BackupHashStep
    <2>2. CASE BackupClose(t)
      <3>1. UNCHANGED audit
        BY <2>2 DEF BackupClose
      <3> QED
        BY <1>4, <2>2, <3>1, BackupCloseStep
    <2>3. CASE RestoreFiles(t)
      BY <2>3, RestoreFilesStep
    <2>4. CASE RestoreDatabase(t) \/ RestoreBlobs(t)
      <3>1. PICK k : k = keeper[t]
        OBVIOUS
      <3>2. KeeperSound(k)
        BY <1>1, <3>1 DEF BackupsInv
      <3>3. /\ UNCHANGED audit /\ UNCHANGED archive
            /\ \/ keeper' = Moved(t, [k EXCEPT !.pc = "blobs"])
               \/ keeper' = Moved(t, Away)
        BY <2>4, <3>1 DEF RestoreDatabase, RestoreBlobs, audit
      <3>4. BackupsInv'
        BY <1>1, <3>2, <3>3, Settled, NothingBackedUp, BackupsMoved
      <3> QED
        BY <1>4, <3>3, <3>4
    <2> QED
      BY <1>16, <2>1, <2>2, <2>3, <2>4 DEF BackupProgress
  <1>17. CASE Death(t)
    BY <1>17, DeathStep DEF Death
  <1> QED
    BY <1>5, <1>6, <1>7, <1>8, <1>9, <1>10, <1>11, <1>12, <1>13, <1>14, <1>15,
       <1>16, <1>17

LEMMA RecordsInductive == RecordsInv /\ [Next]_vars => RecordsInv'
  <1> SUFFICES ASSUME RecordsInv, [Next]_vars PROVE RecordsInv'
    OBVIOUS
  <1>1. CASE Next
    BY <1>1, OneStep, ResetStep DEF Next
  <1>2. CASE UNCHANGED vars
    <2>1. UNCHANGED audit /\ UNCHANGED <<archive, keeper>>
      BY <1>2 DEF vars, backup
    <2>2. BackupsInv'
      BY <2>1 DEF RecordsInv, BackupsInv
    <2> QED
      BY <2>1, <2>2, LogAlone DEF RecordsInv
  <1> QED
    BY <1>1, <1>2

LEMMA RecordsAlways == Spec => []RecordsInv
  BY InitRecords, RecordsInductive, PTL DEF Spec

-----------------------------------------------------------------------------
(* What verify_chain reports is that the log is linked.                     *)
LEMMA WholeLog ==
  ASSUME RecordsInv, ~mixed, ~Repairing
  PROVE  Whole(lines, unended, kept)
  BY DEF RecordsInv, LogInv, Standing, Rewriting, Repairing

(* The chain of a log in which no two processes met and none died verifies  *)
(* outside a repair: no order of appends, repairs, backups, restores and    *)
(* resets of the threads of one server breaks it, however many there are    *)
(* (log_event and repair_chain under one lock).                             *)
THEOREM ChainIsKept == Spec => []ChainHolds
  <1>1. RecordsInv => ChainHolds
    <2> SUFFICES ASSUME RecordsInv, ~mixed, ~Repairing
                 PROVE  ChainValid /\ ~unended
      BY DEF ChainHolds
    <2> QED
      BY WholeLog DEF Whole, Linked, ChainValid, LinkOf
  <1> QED
    BY <1>1, RecordsAlways, PTL

(* In such a log every event whose log_event returned and every entry that  *)
(* a repair could read is still there: repair_chain loses nothing, and a    *)
(* restore brings back what the log of its archive had.                     *)
THEOREM NothingIsLost == Spec => []NothingLost
  <1>1. RecordsInv => NothingLost
    BY WholeLog DEF NothingLost, Whole
  <1> QED
    BY <1>1, RecordsAlways, PTL

(* The artifacts table is a sequence, of whatever rows.                     *)
Table(r) == r \in Seq({r[i] : i \in DOMAIN r})

(* What verify_artifact_chain, and what read_artifact, need of rows r,      *)
(* blobs b, the record c that writers met and the artifacts s reported.     *)
Backed(r, b) == \A i \in DOMAIN r : Blob(r[i].artifact, r[i].blob) \in b

Chained(r) ==
  \A i \in DOMAIN r :
    r[i].previous = IF i = 1 THEN NoArtifact ELSE r[i - 1].artifact

Holds(r, s) == \A a \in s : \E i \in DOMAIN r : r[i].artifact = a

Sound(r, b, c, s) == Backed(r, b) /\ (c \/ Chained(r)) /\ Holds(r, s)

-----------------------------------------------------------------------------
StoreTyped == /\ Table(rows)
              /\ DOMAIN writer = Threads
              /\ \A t \in Threads :
                   DOMAIN writer[t] = {"pc", "artifact", "previous", "blob",
                                       "import", "todo", "imported", "whole"}
              /\ crossed \in BOOLEAN

ControlTyped == DOMAIN due = Threads /\ partial \in BOOLEAN

(* Unless the live files are a mixture, they are sound, and so will they be *)
(* when the writers are done: one of them at most is about to insert, and   *)
(* what it is linked to is still the newest row.                            *)
Pledged(w) ==
  /\ w.pc = "blobbed" => /\ Blob(w.artifact, w.blob) \in blobs
                         /\ crossed \/ w.previous = Latest
  /\ w.pc = "inserted" => Indexed(w.artifact)

Single == crossed \/ \A t, u \in Threads :
                       writer[t].pc = "blobbed" /\ writer[u].pc = "blobbed" => t = u

Live == ~partial => /\ Sound(rows, blobs, crossed, stored)
                    /\ Single
                    /\ \A t \in Threads : Pledged(writer[t])

(* A thread does one thing at a time.                                       *)
Exclusive(t) ==
  /\ keeper[t].pc # "idle" => /\ writer[t].pc = "idle"
                              /\ auditor[t].pc \in {"idle", "append"}
  /\ keeper[t].pc \in {"hashing", "copying"} => auditor[t].pc = "idle" /\ due[t] = 0

(* A backup or restore that nothing disturbed has read, or has put back,    *)
(* what is in the live files.                                               *)
Reads(m) == m.blobs = blobs /\ m.log = lines /\ m.unended = unended

Undisturbed(k) ==
  k.calm =>
    /\ k.pc # "idle" => \A u \in Threads : writer[u].pc = "idle"
    /\ k.pc \in {"hashing", "copying"} => /\ \A u \in Threads : ~Inside(u)
                                          /\ Reads(k.draft.manifest)
    /\ k.pc = "copying" => Reads(k.draft.members) /\ k.draft.manifest.rows = rows
    /\ k.pc = "blobs" => /\ rows = k.source.manifest.rows
                         /\ crossed = k.source.crossed
                         /\ stored = k.source.stored

(* What an archive made undisturbed brings back.                            *)
Brings(a) == /\ Table(a.manifest.rows)
             /\ a.crossed \in BOOLEAN
             /\ a.calm => Sound(a.manifest.rows, a.manifest.blobs, a.crossed, a.stored)

Complete(a) == Brings(a) /\ (a.made /\ a.calm => Verified(a))

KeeperInv(k) == /\ Undisturbed(k)
                /\ Brings(k.source)
                /\ Table(k.draft.manifest.rows)

Keepers == /\ \A t \in Threads : Exclusive(t) /\ KeeperInv(keeper[t])
           /\ \A s \in Slots : Complete(archive[s])

StoreInv == StoreTyped /\ ControlTyped /\ Live /\ Keepers

-----------------------------------------------------------------------------
LEMMA EmptyTable ==
  Table(<<>>) /\ \A b, c, s : s = {} => Sound(<<>>, b, c, s)
  BY DEF Table, Sound, Backed, Chained, Holds

LEMMA AppendedTable ==
  ASSUME NEW r, Table(r), NEW x
  PROVE  /\ Table(Append(r, x))
         /\ Len(r) \in Nat
         /\ DOMAIN r = 1 .. Len(r)
         /\ DOMAIN Append(r, x) = 1 .. Len(r) + 1
         /\ Append(r, x)[Len(r) + 1] = x
         /\ \A i \in 1 .. Len(r) : Append(r, x)[i] = r[i]
         /\ r = <<>> <=> Len(r) = 0
         /\ Append(r, x) # <<>> /\ Len(Append(r, x)) = Len(r) + 1
  <1> DEFINE S == {r[i] : i \in DOMAIN r}
             T == S \cup {x}
             q == Append(r, x)
  <1>1. r \in Seq(S)
    BY DEF Table
  <1> HIDE DEF S
  <1>2. r \in Seq(T)
    BY <1>1
  <1>3. /\ Len(r) \in Nat
        /\ DOMAIN r = 1 .. Len(r)
        /\ DOMAIN q = 1 .. Len(r) + 1
        /\ q[Len(r) + 1] = x
        /\ \A i \in 1 .. Len(r) : q[i] = r[i]
        /\ r = <<>> <=> Len(r) = 0
        /\ q # <<>> /\ Len(q) = Len(r) + 1
        /\ q \in Seq(T)
    BY <1>1, <1>2
  <1>4. q \in Seq({q[i] : i \in DOMAIN q})
    <2> DEFINE U == {q[i] : i \in DOMAIN q}
    <2>1. \A i \in 1 .. Len(q) : q[i] \in U
      BY <1>3
    <2> HIDE DEF U
    <2>2. q \in Seq(U)
      BY <1>3, <2>1
    <2> QED
      BY <2>2 DEF U
  <1> QED
    BY <1>3, <1>4 DEF Table

(* One row more, linked to the newest.                                      *)
LEMMA AppendedRow ==
  ASSUME NEW r, NEW b, NEW c \in BOOLEAN, NEW s, NEW x, Table(r), Sound(r, b, c, s),
         Blob(x.artifact, x.blob) \in b,
         c \/ x.previous = IF r = <<>> THEN NoArtifact ELSE r[Len(r)].artifact
  PROVE  Sound(Append(r, x), b, c, s)
  <1> DEFINE q == Append(r, x)
  <1>1. /\ Len(r) \in Nat
        /\ DOMAIN r = 1 .. Len(r)
        /\ DOMAIN q = 1 .. Len(r) + 1
        /\ q[Len(r) + 1] = x
        /\ \A i \in 1 .. Len(r) : q[i] = r[i]
        /\ r = <<>> <=> Len(r) = 0
    BY AppendedTable
  <1> HIDE DEF q
  <1>2. Backed(q, b)
    BY <1>1 DEF Sound, Backed
  <1>3. ASSUME ~c, NEW i \in DOMAIN q
        PROVE  q[i].previous = IF i = 1 THEN NoArtifact ELSE q[i - 1].artifact
    <2>1. CASE i \in 1 .. Len(r)
      <3>1. i # 1 => i - 1 \in 1 .. Len(r)
        BY <1>1, <2>1
      <3>2. q[i] = r[i] /\ (i # 1 => q[i - 1] = r[i - 1])
        BY <1>1, <2>1, <3>1
      <3>3. r[i].previous = IF i = 1 THEN NoArtifact ELSE r[i - 1].artifact
        BY <1>1, <1>3, <2>1 DEF Sound, Chained
      <3> QED
        BY <3>2, <3>3
    <2>2. CASE i = Len(r) + 1
      <3>1. CASE Len(r) = 0
        BY <1>1, <1>3, <2>2, <3>1
      <3>2. CASE Len(r) # 0
        <4>1. i - 1 = Len(r) /\ i # 1 /\ Len(r) \in 1 .. Len(r)
          BY <1>1, <2>2, <3>2
        <4> QED
          BY <1>1, <1>3, <2>2, <3>2, <4>1
      <3> QED
        BY <3>1, <3>2
    <2> QED
      BY <1>1, <2>1, <2>2
  <1>4. Holds(q, s)
    <2>1. \A i \in DOMAIN r : i \in DOMAIN q /\ q[i] = r[i]
      BY <1>1
    <2> QED
      BY <2>1 DEF Sound, Holds
  <1>5. c \/ Chained(q)
    BY <1>3 DEF Chained
  <1> QED
    BY <1>2, <1>4, <1>5 DEF Sound, q

-----------------------------------------------------------------------------
LEMMA InitStore == Init => StoreInv
  <1> SUFFICES ASSUME Init PROVE StoreInv
    OBVIOUS
  <1>1. DOMAIN due = Threads
    BY DEF Init
  <1>2. /\ DOMAIN writer = Threads /\ \A t \in Threads : writer[t] = AtRest
        /\ \A t \in Threads : keeper[t] = Away /\ auditor[t].pc = "idle"
        /\ partial = FALSE /\ crossed = FALSE
    <2>1. CASE Fresh
      BY <2>1 DEF Fresh, StoreInit, BackupInit, AuditInit, Idle
    <2>2. CASE \E a \in Artifacts : InUse(a)
      BY <2>2 DEF InUse, Idle
    <2> QED
      BY <2>1, <2>2 DEF Init
  <1>3. Table(rows) /\ Sound(rows, blobs, crossed, stored)
    <2>1. CASE Fresh
      BY <2>1, EmptyTable DEF Fresh, StoreInit
    <2>2. ASSUME NEW a \in Artifacts, InUse(a)
          PROVE  Table(rows) /\ Sound(rows, blobs, crossed, stored)
      <3>1. rows = Append(<<>>, Row(a, 1, NoArtifact)) /\ blobs = {Blob(a, 1)}
            /\ crossed = FALSE /\ stored = {a}
        BY <2>2 DEF InUse, NoImage
      <3>2. DOMAIN rows = {1} /\ rows[1] = Row(a, 1, NoArtifact) /\ Table(rows)
        <4>1. PICK x : x = Row(a, 1, NoArtifact)
          OBVIOUS
        <4>2. Table(Append(<<>>, x))
          BY EmptyTable, AppendedTable
        <4>3. DOMAIN Append(<<>>, x) = {1} /\ Append(<<>>, x)[1] = x
          OBVIOUS
        <4> QED
          BY <3>1, <4>1, <4>2, <4>3
      <3>3. /\ rows[1].artifact = a
            /\ rows[1].blob = 1
            /\ rows[1].previous = NoArtifact
        BY <3>2 DEF Row
      <3> QED
        BY <3>1, <3>2, <3>3 DEF Sound, Backed, Chained, Holds
    <2> QED
      BY <2>1, <2>2 DEF Init
  <1>4. StoreTyped /\ ControlTyped
    <2>1. DOMAIN AtRest = {"pc", "artifact", "previous", "blob",
                           "import", "todo", "imported", "whole"}
      BY DEF AtRest
    <2> QED
      BY <1>1, <1>2, <1>3, <2>1 DEF StoreTyped, ControlTyped
  <1>5. Live
    BY <1>2, <1>3 DEF Live, Single, Pledged, AtRest
  <1>6. ASSUME NEW t \in Threads PROVE Exclusive(t) /\ KeeperInv(keeper[t])
    <2>1. KeeperInv(Away)
      BY EmptyTable DEF KeeperInv, Undisturbed, Brings, Away, NoArchive, NoImage
    <2> QED
      BY <1>2, <2>1 DEF Exclusive, Away
  <1>7. ASSUME NEW s \in Slots PROVE Complete(archive[s])
    <2>1. Complete(NoArchive)
      BY EmptyTable DEF Complete, Brings, NoArchive, NoImage
    <2>2. CASE Fresh
      BY <2>1, <2>2 DEF Fresh, BackupInit, NoArchives
    <2>3. ASSUME NEW a \in Artifacts, InUse(a) PROVE Complete(archive[s])
      <3> DEFINE m == archive["backup"]
      <3>1. /\ m.manifest = m.members
            /\ m.manifest.rows = rows /\ m.manifest.blobs = blobs
            /\ m.crossed = crossed /\ m.stored = stored /\ m.made
        BY <2>3 DEF InUse, NoImage, NoArchive, NoArchives, Slots
      <3>2. s # "backup" => archive[s] = NoArchive
        BY <2>3 DEF InUse, NoArchives, Slots
      <3> HIDE DEF m
      <3>3. Complete(m)
        BY <1>2, <1>3, <3>1 DEF Complete, Brings, Verified
      <3> QED
        BY <2>1, <3>2, <3>3 DEF m
    <2> QED
      BY <2>2, <2>3 DEF Init
  <1> QED
    BY <1>4, <1>5, <1>6, <1>7 DEF StoreInv, Keepers
-----------------------------------------------------------------------------
(* Steps of the writers.                                                    *)
(* Writers that are about to insert or to copy are so already.              *)
LEMMA NothingBegun ==
  ASSUME StoreTyped, Live, UNCHANGED <<rows, blobs, crossed, partial>>,
         ~partial => Holds(rows, stored'),
         DOMAIN writer' = Threads,
         \A u \in Threads :
           /\ DOMAIN writer'[u] = DOMAIN writer[u]
           /\ writer'[u].pc \in {"blobbed", "inserted"} =>
                /\ writer'[u].pc = writer[u].pc
                /\ writer'[u].artifact = writer[u].artifact
                /\ writer'[u].previous = writer[u].previous
                /\ writer'[u].blob = writer[u].blob
  PROVE  StoreTyped' /\ Live'
  <1>1. StoreTyped'
    BY DEF StoreTyped
  <1>2. ASSUME ~partial PROVE (Sound(rows, blobs, crossed, stored) /\ Single)'
    BY <1>2 DEF Live, Sound, Single
  <1>3. ASSUME ~partial, NEW u \in Threads PROVE Pledged(writer[u])'
    <2>1. Pledged(writer[u])
      BY <1>3 DEF Live
    <2> QED
      BY <2>1 DEF Pledged, Latest, Indexed
  <1> QED
    BY <1>1, <1>2, <1>3 DEF Live

LEMMA SelectStep ==
  ASSUME StoreTyped, Live, NEW t \in Threads, NEW a, Select(t, a), UNCHANGED partial
  PROVE  /\ StoreTyped' /\ Live'
         /\ \A u \in Threads \ {t} : writer'[u] = writer[u]
  <1>1. PICK w : w = [writer[t] EXCEPT !.pc = "blobbed", !.artifact = a,
                                       !.previous = Latest, !.blob = stamp + 1]
    OBVIOUS
  <1>2. /\ blobs' = blobs \cup {Blob(a, stamp + 1)}
        /\ crossed' = (crossed \/ Inserting)
        /\ UNCHANGED <<rows, stored>>
    BY DEF Select
  <1>3. /\ DOMAIN writer' = Threads
        /\ writer'[t] = w
        /\ \A u \in Threads \ {t} : writer'[u] = writer[u]
    BY <1>1 DEF Select, StoreTyped
  <1>4. /\ DOMAIN w = DOMAIN writer[t]
        /\ w.pc = "blobbed" /\ w.artifact = a /\ w.previous = Latest
        /\ w.blob = stamp + 1
    BY <1>1 DEF StoreTyped
  <1>5. StoreTyped'
    <2>1. crossed' \in BOOLEAN
      BY <1>2 DEF StoreTyped, Inserting
    <2> QED
      BY <1>2, <1>3, <1>4, <2>1 DEF StoreTyped
  <1>6. ASSUME ~partial
        PROVE  (Sound(rows, blobs, crossed, stored) /\ Single)'
               /\ \A u \in Threads : Pledged(writer[u])'
    <2>1. Sound(rows, blobs, crossed, stored)'
      <3>1. blobs \subseteq blobs' /\ (crossed => crossed')
        BY <1>2
      <3>2. Sound(rows, blobs, crossed, stored)
        BY <1>6 DEF Live
      <3> QED
        BY <1>2, <3>1, <3>2 DEF Sound, Backed
    <2>2. Single'
      BY <1>2, <1>3 DEF Single, Inserting
    <2>3. ASSUME NEW u \in Threads PROVE Pledged(writer[u])'
      <3>1. CASE u = t
        BY <1>2, <1>3, <1>4, <3>1 DEF Pledged, Latest
      <3>2. CASE u # t
        <4>1. Pledged(writer[u]) /\ writer'[u] = writer[u]
          BY <1>3, <1>6, <3>2 DEF Live
        <4> QED
          BY <1>2, <4>1 DEF Pledged, Latest, Indexed
      <3> QED
        BY <3>1, <3>2
    <2> QED
      BY <2>1, <2>2, <2>3
  <1> QED
    BY <1>3, <1>5, <1>6 DEF Live

LEMMA WriteInsertStep ==
  ASSUME StoreTyped, Live, NEW t \in Threads, WriteInsert(t), UNCHANGED partial
  PROVE  /\ StoreTyped' /\ Live'
         /\ \A u \in Threads \ {t} : writer'[u] = writer[u]
  <1>1. PICK w : w = writer[t]
    OBVIOUS
  <1>2. PICK n : n = After(w, ~Indexed(w.artifact))
    OBVIOUS
  <1>3. /\ w.pc = "blobbed"
        /\ rows' = IF Indexed(w.artifact) THEN rows
                   ELSE Append(rows, Row(w.artifact, w.blob, w.previous))
        /\ writer' = [writer EXCEPT ![t] = n]
        /\ UNCHANGED <<blobs, crossed, stored>>
    BY <1>1, <1>2 DEF WriteInsert
  <1>4. /\ DOMAIN writer' = Threads
        /\ writer'[t] = n
        /\ \A u \in Threads \ {t} : writer'[u] = writer[u]
    BY <1>3 DEF StoreTyped
  <1>5. /\ DOMAIN n = DOMAIN w
        /\ n.pc # "blobbed"
        /\ n.pc = "inserted" => ~Indexed(w.artifact) /\ n.artifact = w.artifact
    BY <1>1, <1>2 DEF After, AtRest, StoreTyped
  <1>6. CASE Indexed(w.artifact)
    <2>1. rows' = rows /\ n.pc # "inserted"
      BY <1>3, <1>5, <1>6
    <2>2. ~partial => Holds(rows, stored')
      BY <1>3 DEF Live, Sound
    <2>3. \A u \in Threads :
           /\ DOMAIN writer'[u] = DOMAIN writer[u]
           /\ writer'[u].pc \in {"blobbed", "inserted"} => writer'[u] = writer[u]
      BY <1>1, <1>4, <1>5, <2>1
    <2> QED
      BY <1>3, <1>4, <2>1, <2>2, <2>3, NothingBegun
  <1>7. CASE ~Indexed(w.artifact)
    <2>1. PICK x : x = Row(w.artifact, w.blob, w.previous)
      OBVIOUS
    <2>2. x.artifact = w.artifact /\ x.blob = w.blob /\ x.previous = w.previous
      BY <2>1 DEF Row
    <2>3. rows' = Append(rows, x)
      BY <1>3, <1>7, <2>1
    <2>4. /\ Table(rows) /\ Len(rows) \in Nat /\ Table(rows')
          /\ DOMAIN rows = 1 .. Len(rows)
          /\ DOMAIN rows' = 1 .. Len(rows) + 1
          /\ rows'[Len(rows) + 1] = x
          /\ \A i \in 1 .. Len(rows) : rows'[i] = rows[i]
      <3>1. Table(rows)
        BY DEF StoreTyped
      <3> QED
        BY <2>3, <3>1, AppendedTable
    <2>5. StoreTyped'
      BY <1>1, <1>3, <1>4, <1>5, <2>4 DEF StoreTyped
    <2>6. ASSUME ~partial
          PROVE  (Sound(rows, blobs, crossed, stored) /\ Single)'
                 /\ \A u \in Threads : Pledged(writer[u])'
      <3>1. /\ Sound(rows, blobs, crossed, stored) /\ Single
            /\ Pledged(w)
        BY <1>1, <2>6 DEF Live
      <3>2. /\ Blob(x.artifact, x.blob) \in blobs
            /\ crossed \/ x.previous = Latest
        BY <1>3, <2>2, <3>1 DEF Pledged
      <3>3. Sound(Append(rows, x), blobs, crossed, stored)
        BY <2>4, <3>1, <3>2, AppendedRow DEF Latest, StoreTyped
      <3>4. Sound(rows, blobs, crossed, stored)'
        BY <1>3, <2>3, <3>3
      <3>5. Single'
        BY <1>3, <1>4, <1>5, <3>1 DEF Single
      <3>6. \A b : Indexed(b) => Indexed(b)'
        BY <2>4 DEF Indexed
      <3>7. ASSUME NEW u \in Threads PROVE Pledged(writer[u])'
        <4>1. CASE u = t
          <5>1. Indexed(w.artifact)'
            <6>1. Len(rows) + 1 \in DOMAIN rows'
              BY <2>4
            <6> QED
              BY <2>2, <2>4, <6>1 DEF Indexed
          <5> QED
            BY <1>4, <1>5, <4>1, <5>1 DEF Pledged, Indexed
        <4>2. CASE u # t
          <5>1. Pledged(writer[u]) /\ writer'[u] = writer[u]
            BY <1>4, <2>6, <4>2 DEF Live
          <5>2. writer[u].pc = "blobbed" => crossed
            BY <1>1, <1>3, <3>1, <4>2 DEF Single
          <5>3. writer[u].pc = "inserted" => Indexed(writer[u].artifact)'
            BY <3>6, <5>1 DEF Pledged
          <5> QED
            BY <1>3, <5>1, <5>2, <5>3 DEF Pledged, Indexed
        <4> QED
          BY <4>1, <4>2
      <3> QED
        BY <3>4, <3>5, <3>7
    <2> QED
      BY <1>4, <2>5, <2>6 DEF Live
  <1> QED
    BY <1>6, <1>7

(* The end of a write of a file: the row that it stands for may be there.   *)
LEMMA FileAddedStep ==
  ASSUME StoreTyped, Live, NEW t \in Threads, FileAdded(t),
         UNCHANGED <<rows, blobs, crossed, partial>>,
         ~partial => Holds(rows, stored')
  PROVE  /\ StoreTyped' /\ Live'
         /\ \A u \in Threads \ {t} : writer'[u].pc = writer[u].pc
  <1>1. /\ DOMAIN writer' = Threads
        /\ writer'[t] = AtRest
        /\ \A u \in Threads \ {t} :
             /\ DOMAIN writer'[u] = DOMAIN writer[u]
             /\ writer'[u].pc = writer[u].pc
             /\ writer'[u].artifact = writer[u].artifact
             /\ writer'[u].previous = writer[u].previous
             /\ writer'[u].blob = writer[u].blob
    BY DEF FileAdded, StoreTyped
  <1>2. AtRest.pc = "idle" /\ DOMAIN AtRest = DOMAIN writer[t]
    BY DEF AtRest, StoreTyped
  <1>3. \A u \in Threads :
           /\ DOMAIN writer'[u] = DOMAIN writer[u]
           /\ writer'[u].pc \in {"blobbed", "inserted"} =>
                /\ writer'[u].pc = writer[u].pc
                /\ writer'[u].artifact = writer[u].artifact
                /\ writer'[u].previous = writer[u].previous
                /\ writer'[u].blob = writer[u].blob
    BY <1>1, <1>2
  <1> QED
    BY <1>1, <1>3, NothingBegun

(* A thread that goes on without being about to insert or to copy.          *)
LEMMA WriterSet ==
  ASSUME StoreTyped, Live, NEW t \in Threads, NEW w,
         DOMAIN w = DOMAIN writer[t], w.pc \notin {"blobbed", "inserted"},
         writer' = [writer EXCEPT ![t] = w],
         UNCHANGED <<rows, blobs, crossed, stored, partial>>
  PROVE  /\ StoreTyped' /\ Live'
         /\ \A u \in Threads \ {t} : writer'[u] = writer[u]
  <1>1. /\ DOMAIN writer' = Threads
        /\ writer'[t] = w
        /\ \A u \in Threads \ {t} : writer'[u] = writer[u]
    BY DEF StoreTyped
  <1>2. ~partial => Holds(rows, stored')
    BY DEF Live, Sound
  <1>3. \A u \in Threads :
           /\ DOMAIN writer'[u] = DOMAIN writer[u]
           /\ writer'[u].pc \in {"blobbed", "inserted"} => writer'[u] = writer[u]
    BY <1>1
  <1> QED
    BY <1>1, <1>2, <1>3, NothingBegun

LEMMA StoreSteps ==
  ASSUME StoreTyped, Live, NEW t \in Threads, UNCHANGED partial,
         \/ \E a \in Artifacts : WriteBegin(t, a) \/ FileWriteBegin(t, a)
         \/ WriteInsert(t)
         \/ WriteCopy(t)
         \/ FileWriteEnd(t)
         \/ ImportBegin(t)
         \/ ImportSkip(t)
         \/ ImportWrite(t)
         \/ ImportEnd(t)
  PROVE  /\ StoreTyped' /\ Live'
         /\ \A u \in Threads \ {t} : writer'[u].pc = writer[u].pc
  <1>1. ASSUME NEW a \in Artifacts, WriteBegin(t, a)
        PROVE  /\ StoreTyped' /\ Live'
               /\ \A u \in Threads \ {t} : writer'[u].pc = writer[u].pc
    BY <1>1, SelectStep DEF WriteBegin
  <1>2. ASSUME NEW a \in Artifacts, FileWriteBegin(t, a)
        PROVE  /\ StoreTyped' /\ Live'
               /\ \A u \in Threads \ {t} : writer'[u].pc = writer[u].pc
    <2>1. PICK w : w = [AtRest EXCEPT !.pc = "filing", !.artifact = a,
                                 !.previous = IF copies = <<>> THEN NoArtifact
                                              ELSE copies[Len(copies)].artifact]
      OBVIOUS
    <2>2. DOMAIN w = DOMAIN writer[t] /\ w.pc = "filing"
      BY <2>1 DEF AtRest, StoreTyped
    <2>3. /\ writer' = [writer EXCEPT ![t] = w]
          /\ UNCHANGED <<rows, blobs, crossed, stored, partial>>
      BY <1>2, <2>1 DEF FileWriteBegin
    <2> QED
      BY <2>2, <2>3, WriterSet
  <1>3. CASE WriteInsert(t)
    BY <1>3, WriteInsertStep
  <1>4. CASE WriteCopy(t)
    <2>1. PICK w : w = writer[t]
      OBVIOUS
    <2>2. /\ w.pc = "inserted" /\ stored' = stored \cup {w.artifact}
          /\ FileAdded(t) /\ UNCHANGED <<rows, blobs, crossed>>
      BY <1>4, <2>1 DEF WriteCopy
    <2>3. ASSUME ~partial PROVE Holds(rows, stored')
      <3>1. Indexed(w.artifact) /\ Holds(rows, stored)
        BY <2>1, <2>2, <2>3 DEF Live, Pledged, Sound
      <3> QED
        BY <2>2, <3>1 DEF Holds, Indexed
    <2> QED
      BY <2>2, <2>3, FileAddedStep
  <1>5. CASE FileWriteEnd(t)
    <2>1. ~partial => Holds(rows, stored')
      BY <1>5 DEF FileWriteEnd, Live, Sound
    <2> QED
      BY <1>5, <2>1, FileAddedStep DEF FileWriteEnd
  <1>6. CASE ImportBegin(t)
    <2>1. PICK w : w = [AtRest EXCEPT !.pc = "importing", !.import = TRUE,
                                      !.todo = copies, !.whole = TRUE]
      OBVIOUS
    <2>2. DOMAIN w = DOMAIN writer[t] /\ w.pc = "importing"
      BY <2>1 DEF AtRest, StoreTyped
    <2>3. /\ writer' = [writer EXCEPT ![t] = w]
          /\ UNCHANGED <<rows, blobs, crossed, stored, partial>>
      BY <1>6, <2>1 DEF ImportBegin
    <2> QED
      BY <2>2, <2>3, WriterSet
  <1>7. CASE ImportSkip(t)
    <2>1. PICK w : w = [writer[t] EXCEPT !.todo = Tail(@)]
      OBVIOUS
    <2>2. DOMAIN w = DOMAIN writer[t] /\ w.pc = "importing"
      BY <1>7, <2>1 DEF ImportSkip, StoreTyped
    <2>3. /\ writer' = [writer EXCEPT ![t] = w]
          /\ UNCHANGED <<rows, blobs, crossed, stored, partial>>
      BY <1>7, <2>1 DEF ImportSkip
    <2> QED
      BY <2>2, <2>3, WriterSet
  <1>8. CASE ImportWrite(t)
    BY <1>8, SelectStep DEF ImportWrite
  <1>9. CASE ImportEnd(t)
    <2>1. DOMAIN AtRest = DOMAIN writer[t] /\ AtRest.pc = "idle"
      BY DEF AtRest, StoreTyped
    <2> QED
      BY <1>9, <2>1, WriterSet DEF ImportEnd
  <1> QED
    BY <1>1, <1>2, <1>3, <1>4, <1>5, <1>6, <1>7, <1>8, <1>9
-----------------------------------------------------------------------------
(* Backups and restores under way.                                          *)
LEMMA IdleKeeper ==
  ASSUME NEW t \in Threads, keeper[t].pc = "idle", StoreInv
  PROVE  /\ KeeperInv(Away)
         /\ Exclusive(t)
         /\ Brings(keeper[t].source) /\ Table(keeper[t].draft.manifest.rows)
  <1>1. KeeperInv(Away)
    BY EmptyTable DEF KeeperInv, Undisturbed, Brings, Away, NoArchive, NoImage
  <1> QED
    BY <1>1 DEF StoreInv, Keepers, KeeperInv, Exclusive

(* What thread t writes disturbs the others, or finds them idle.            *)
LEMMA OthersDisturbed ==
  ASSUME RecordsInv, StoreInv, NEW t \in Threads, NEW k, keeper' = Moved(t, k),
         \A u \in Threads \ {t} : writer'[u].pc = writer[u].pc,
         \A u \in Threads \ {t} : auditor'[u] = auditor[u] /\ due'[u] = due[u]
  PROVE  /\ \A u \in Threads \ {t} : (Exclusive(u) /\ KeeperInv(keeper[u]))'
         /\ keeper'[t] = k
  <1>1. keeper'[t] = k
    BY DEF Moved
  <1>2. ASSUME NEW u \in Threads \ {t}
        PROVE  (Exclusive(u) /\ KeeperInv(keeper[u]))'
    <2>1. PICK n : n = keeper'[u]
      OBVIOUS
    <2>2. n = IF keeper[u].pc = "idle" THEN keeper[u]
              ELSE [keeper[u] EXCEPT !.calm = FALSE]
      BY <2>1 DEF Moved
    <2>3. /\ Exclusive(u) /\ KeeperInv(keeper[u]) /\ KeeperTyped(keeper[u])
      BY DEF StoreInv, Keepers, RecordsInv, BackupsInv, KeeperSound
    <2>4. /\ n.pc = keeper[u].pc /\ n.source = keeper[u].source
          /\ n.draft = keeper[u].draft
          /\ n.pc = "idle" \/ n.calm = FALSE
      BY <2>2, <2>3 DEF KeeperTyped
    <2>5. Exclusive(u)'
      BY <2>1, <2>3, <2>4 DEF Exclusive
    <2>6. Undisturbed(n)'
      BY <2>4 DEF Undisturbed
    <2>7. KeeperInv(n)'
      BY <2>3, <2>4, <2>6 DEF KeeperInv, Brings
    <2> QED
      BY <2>1, <2>5, <2>7 DEF KeeperInv, Undisturbed, Reads, Brings
  <1> QED
    BY <1>1, <1>2

(* A step of a thread that backs up or restores nothing itself.             *)
LEMMA KeepersDisturbed ==
  ASSUME RecordsInv, StoreInv, NEW t \in Threads, keeper[t].pc = "idle",
         Disturb(t), UNCHANGED archive,
         \A u \in Threads \ {t} : writer'[u].pc = writer[u].pc,
         \A u \in Threads \ {t} : auditor'[u] = auditor[u] /\ due'[u] = due[u]
  PROVE  Keepers'
  <1>1. keeper'[t] = keeper[t]
        /\ \A u \in Threads \ {t} : (Exclusive(u) /\ KeeperInv(keeper[u]))'
    BY OthersDisturbed DEF Disturb
  <1>2. PICK k : k = keeper[t]
    OBVIOUS
  <1>3. Brings(k.source) /\ Table(k.draft.manifest.rows) /\ k.pc = "idle"
    BY <1>2, IdleKeeper
  <1>4. KeeperInv(k)'
    BY <1>3 DEF KeeperInv, Undisturbed, Brings
  <1>5. (Exclusive(t) /\ KeeperInv(keeper[t]))'
    BY <1>1, <1>2, <1>3, <1>4 DEF Exclusive, KeeperInv, Undisturbed, Reads, Brings
  <1>6. \A s \in Slots : Complete(archive[s])'
    BY DEF StoreInv, Keepers, Complete, Brings, Verified
  <1> QED
    BY <1>1, <1>5, <1>6 DEF Keepers

(* A step of a thread in the log, which may be about to restore.            *)
LEMMA KeepersLogged ==
  ASSUME RecordsInv, StoreInv, NEW t \in Threads,
         keeper[t].pc \notin {"hashing", "copying"},
         keeper[t].pc # "idle" => auditor'[t].pc \in {"idle", "append"},
         Disturb(t), UNCHANGED <<archive, rows, writer, crossed, stored>>,
         \A u \in Threads \ {t} : auditor'[u] = auditor[u] /\ due'[u] = due[u]
  PROVE  Keepers'
  <1>1. keeper'[t] = keeper[t]
        /\ \A u \in Threads \ {t} : (Exclusive(u) /\ KeeperInv(keeper[u]))'
    BY OthersDisturbed DEF Disturb
  <1>2. PICK k : k = keeper[t]
    OBVIOUS
  <1>3. KeeperInv(k) /\ Exclusive(t)
    BY <1>2 DEF StoreInv, Keepers
  <1>4. KeeperInv(k)'
    BY <1>2, <1>3 DEF KeeperInv, Undisturbed, Brings
  <1>5. (Exclusive(t) /\ KeeperInv(keeper[t]))'
    BY <1>1, <1>2, <1>3, <1>4 DEF Exclusive, KeeperInv, Undisturbed, Reads, Brings
  <1>6. \A s \in Slots : Complete(archive[s])'
    BY DEF StoreInv, Keepers, Complete, Brings, Verified
  <1> QED
    BY <1>1, <1>5, <1>6 DEF Keepers

(* A step of a backup, which writes nothing that the others see.            *)
LEMMA OthersUnaware ==
  ASSUME StoreInv, NEW t \in Threads,
         \A u \in Threads \ {t} : keeper'[u] = keeper[u] /\ due'[u] = due[u],
         UNCHANGED <<audit, store>>
  PROVE  \A u \in Threads \ {t} : (Exclusive(u) /\ KeeperInv(keeper[u]))'
  <1>1. UNCHANGED <<lines, unended, auditor, rows, blobs, writer, crossed, stored>>
    BY DEF audit, store
  <1>2. ASSUME NEW u \in Threads \ {t}
        PROVE  (Exclusive(u) /\ KeeperInv(keeper[u]))'
    <2>1. PICK k : k = keeper[u]
      OBVIOUS
    <2>2. KeeperInv(k) /\ Exclusive(u)
      BY <2>1 DEF StoreInv, Keepers
    <2>3. KeeperInv(k)'
      BY <1>1, <2>2 DEF KeeperInv, Undisturbed, Reads, Brings, Inside
    <2>4. Exclusive(u)'
      BY <1>1, <2>2 DEF Exclusive
    <2> QED
      BY <2>1, <2>3, <2>4 DEF KeeperInv, Undisturbed, Reads, Brings
  <1> QED
    BY <1>2

(* Nothing that the store's part of the invariant reads.                    *)
LEMMA StoreAlone ==
  ASSUME StoreInv, UNCHANGED <<store, partial>>
  PROVE  StoreTyped' /\ Live'
  <1>1. UNCHANGED <<rows, blobs, writer, crossed, stored, partial>>
    BY DEF store
  <1>2. StoreTyped /\ Live
    BY DEF StoreInv
  <1>3. StoreTyped'
    BY <1>1, <1>2 DEF StoreTyped
  <1>4. ASSUME ~partial
        PROVE  (Sound(rows, blobs, crossed, stored) /\ Single)'
               /\ \A u \in Threads : Pledged(writer[u])'
    BY <1>1, <1>2, <1>4 DEF Live, Single, Pledged, Latest, Indexed
  <1> QED
    BY <1>1, <1>3, <1>4 DEF Live

LEMMA ListStep ==
  ASSUME RecordsInv, StoreInv, NEW t \in Threads, NEW slot, NEW goal, NEW source,
         Free(t), Brings(source), BackupList(t, slot, goal, source), UNCHANGED due
  PROVE  StoreTyped' /\ Live' /\ Keepers'
  <1> DEFINE m == [NoImage EXCEPT !.blobs = blobs, !.copies = copies,
                                  !.log = lines, !.unended = unended]
             d == [NoArchive EXCEPT !.manifest = m]
  <1>0. PICK k : k = [pc |-> "hashing", slot |-> slot, goal |-> goal,
                      source |-> source, calm |-> Quiet, draft |-> d]
    OBVIOUS
  <1>1. keeper' = [keeper EXCEPT ![t] = k] /\ UNCHANGED <<audit, store, archive, partial>>
    BY <1>0 DEF BackupList
  <1>2. m.blobs = blobs /\ m.log = lines /\ m.unended = unended /\ m.rows = <<>>
    BY DEF NoImage
  <1> HIDE DEF m
  <1>3. d.manifest = m
    BY DEF NoArchive
  <1> HIDE DEF d
  <1>4. k.pc = "hashing" /\ k.source = source /\ k.calm = Quiet /\ k.draft = d
    BY <1>0
  <1>5. KeeperInv(k)
    <2>1. Undisturbed(k)
      BY <1>2, <1>3, <1>4 DEF Undisturbed, Quiet, Reads
    <2> QED
      BY <1>2, <1>3, <1>4, <2>1, EmptyTable DEF KeeperInv
  <1>6. keeper'[t] = k /\ \A u \in Threads \ {t} : keeper'[u] = keeper[u]
    BY <1>1 DEF RecordsInv, BackupsInv
  <1>7. UNCHANGED <<lines, unended, auditor, rows, blobs, writer, crossed, stored>>
    BY <1>1 DEF audit, store
  <1>8. (Exclusive(t) /\ KeeperInv(keeper[t]))'
    <2>1. KeeperInv(k)'
      BY <1>4, <1>5, <1>7 DEF KeeperInv, Undisturbed, Reads, Brings, Inside
    <2>2. Exclusive(t)'
      BY <1>6, <1>7 DEF Exclusive, Free
    <2> QED
      BY <1>6, <2>1, <2>2 DEF KeeperInv, Undisturbed, Reads, Brings
  <1>9. \A u \in Threads \ {t} : (Exclusive(u) /\ KeeperInv(keeper[u]))'
    BY <1>1, <1>6, OthersUnaware
  <1>10. \A s \in Slots : Complete(archive[s])'
    BY <1>1 DEF StoreInv, Keepers, Complete, Brings, Verified
  <1> QED
    BY <1>1, <1>8, <1>9, <1>10, StoreAlone DEF Keepers
LEMMA HashStep ==
  ASSUME RecordsInv, StoreInv, NEW t \in Threads, BackupHash(t), UNCHANGED due
  PROVE  StoreTyped' /\ Live' /\ Keepers'
  <1>1. PICK k : k = keeper[t]
    OBVIOUS
  <1>2. PICK m : m = [NoImage EXCEPT !.blobs = blobs, !.copies = copies,
                                     !.log = lines, !.unended = unended]
    OBVIOUS
  <1>3. PICK n : n = keeper'[t]
    OBVIOUS
  <1>4. /\ KeeperTyped(k) /\ ArchiveTyped(k.draft) /\ ImageTyped(k.draft.manifest)
        /\ KeeperInv(k) /\ Exclusive(t) /\ k.pc = "hashing"
    BY <1>1 DEF RecordsInv, BackupsInv, KeeperSound, KeeperTyped, ArchiveTyped,
       StoreInv, Keepers, BackupHash
  <1>5. /\ \A u \in Threads \ {t} : keeper'[u] = keeper[u]
        /\ UNCHANGED <<audit, store, archive, partial>>
        /\ n = [k EXCEPT !.pc = "copying",
                         !.draft.manifest.rows = rows,
                         !.draft.members = m,
                         !.draft.mixed = mixed \/ Repairing,
                         !.draft.kept = kept]
    BY <1>1, <1>2, <1>3 DEF BackupHash, RecordsInv, BackupsInv
  <1>6. Reads(m)
    BY <1>2 DEF Reads, NoImage
  <1>7. /\ n.pc = "copying" /\ n.source = k.source /\ n.calm = k.calm
        /\ n.draft.members = m
        /\ n.draft.manifest.rows = rows
        /\ n.draft.manifest.blobs = k.draft.manifest.blobs
        /\ n.draft.manifest.log = k.draft.manifest.log
        /\ n.draft.manifest.unended = k.draft.manifest.unended
    BY <1>4, <1>5 DEF KeeperTyped, ArchiveTyped, ImageTyped
  <1>8. KeeperInv(n)
    <2>1. Undisturbed(n)
      BY <1>4, <1>6, <1>7 DEF KeeperInv, Undisturbed, Reads
    <2> QED
      BY <1>4, <1>7, <2>1 DEF KeeperInv, StoreInv, StoreTyped
  <1>9. UNCHANGED <<lines, unended, auditor, rows, blobs, writer, crossed, stored>>
    BY <1>5 DEF audit, store
  <1>10. (Exclusive(t) /\ KeeperInv(keeper[t]))'
    <2>1. KeeperInv(n)'
      BY <1>8, <1>9 DEF KeeperInv, Undisturbed, Reads, Brings, Inside
    <2>2. Exclusive(t)'
      BY <1>1, <1>3, <1>4, <1>7, <1>9 DEF Exclusive
    <2> QED
      BY <1>3, <2>1, <2>2 DEF KeeperInv, Undisturbed, Reads, Brings
  <1>11. \A u \in Threads \ {t} : (Exclusive(u) /\ KeeperInv(keeper[u]))'
    BY <1>5, OthersUnaware
  <1>12. \A s \in Slots : Complete(archive[s])'
    BY <1>5 DEF StoreInv, Keepers, Complete, Brings, Verified
  <1> QED
    BY <1>5, <1>10, <1>11, <1>12, StoreAlone DEF Keepers

LEMMA CloseStep ==
  ASSUME RecordsInv, StoreInv, NEW t \in Threads, BackupClose(t),
         \A u \in Threads \ {t} : due'[u] = due[u]
  PROVE  StoreTyped' /\ Live' /\ Keepers'
  <1>1. PICK k : k = keeper[t]
    OBVIOUS
  <1>2. PICK d : d = [k.draft EXCEPT !.members.rows = rows, !.made = TRUE,
                                     !.calm = k.calm /\ ~partial,
                                     !.crossed = crossed, !.stored = stored]
    OBVIOUS
  <1>3. PICK n : n = IF k.goal = "restore"
                     THEN [Away EXCEPT !.pc = "restoring", !.calm = Quiet,
                                       !.source = k.source]
                     ELSE Away
    OBVIOUS
  <1>4. /\ KeeperTyped(k) /\ ArchiveTyped(k.draft)
        /\ ImageTyped(k.draft.manifest) /\ ImageTyped(k.draft.members)
        /\ KeeperInv(k) /\ Exclusive(t) /\ k.pc = "copying"
    BY <1>1 DEF RecordsInv, BackupsInv, KeeperSound, KeeperTyped, ArchiveTyped,
       StoreInv, Keepers, BackupClose
  <1>5. /\ keeper' = [keeper EXCEPT ![t] = n]
        /\ archive' = [archive EXCEPT ![k.slot] = d]
        /\ UNCHANGED <<audit, store, partial>>
    BY <1>1, <1>2, <1>3 DEF BackupClose
  <1>6. /\ keeper'[t] = n
        /\ \A u \in Threads \ {t} : keeper'[u] = keeper[u]
        /\ \A s \in Slots : archive'[s] = IF s = k.slot THEN d ELSE archive[s]
    BY <1>5 DEF RecordsInv, BackupsInv
  <1>7. /\ d.made /\ d.calm = (k.calm /\ ~partial)
        /\ d.crossed = crossed /\ d.stored = stored
        /\ d.manifest = k.draft.manifest
        /\ d.members.rows = rows
        /\ d.members.blobs = k.draft.members.blobs
        /\ d.members.log = k.draft.members.log
        /\ d.members.unended = k.draft.members.unended
    BY <1>2, <1>4 DEF ArchiveTyped, ImageTyped
  <1>8. Complete(d)
    <2>1. Table(d.manifest.rows) /\ d.crossed \in BOOLEAN
      BY <1>4, <1>7 DEF KeeperInv, StoreInv, StoreTyped
    <2>2. ASSUME d.calm
          PROVE  /\ Sound(d.manifest.rows, d.manifest.blobs, d.crossed, d.stored)
                 /\ Verified(d)
      <3>1. k.calm /\ ~partial
        BY <1>7, <2>2
      <3>2. /\ Reads(k.draft.manifest) /\ Reads(k.draft.members)
            /\ k.draft.manifest.rows = rows
        BY <1>4, <3>1 DEF KeeperInv, Undisturbed
      <3>3. Sound(rows, blobs, crossed, stored)
        BY <3>1 DEF StoreInv, Live
      <3> QED
        BY <1>7, <3>2, <3>3 DEF Reads, Verified
    <2> QED
      BY <2>1, <2>2 DEF Complete, Brings
  <1>9. KeeperInv(n) /\ (n.pc = "idle" \/ n.pc = "restoring")
    <2>1. CASE k.goal = "restore"
      <3>1. /\ n.pc = "restoring" /\ n.calm = Quiet /\ n.source = k.source
            /\ n.draft = NoArchive
        BY <1>3, <2>1 DEF Away
      <3>2. Undisturbed(n)
        BY <3>1 DEF Undisturbed, Quiet
      <3>3. Table(n.draft.manifest.rows)
        BY <3>1, EmptyTable DEF NoArchive, NoImage
      <3> QED
        BY <1>4, <3>1, <3>2, <3>3 DEF KeeperInv
    <2>2. CASE k.goal # "restore"
      BY <1>3, <2>2, EmptyTable
         DEF KeeperInv, Undisturbed, Brings, Away, NoArchive, NoImage
    <2> QED
      BY <2>1, <2>2
  <1>10. UNCHANGED <<lines, unended, auditor, rows, blobs, writer, crossed, stored>>
    BY <1>5 DEF audit, store
  <1>11. (Exclusive(t) /\ KeeperInv(keeper[t]))'
    <2>1. KeeperInv(n)'
      BY <1>9, <1>10 DEF KeeperInv, Undisturbed, Reads, Brings, Inside
    <2>2. Exclusive(t)'
      BY <1>1, <1>4, <1>6, <1>9, <1>10 DEF Exclusive
    <2> QED
      BY <1>6, <2>1, <2>2 DEF KeeperInv, Undisturbed, Reads, Brings
  <1>12. \A u \in Threads \ {t} : (Exclusive(u) /\ KeeperInv(keeper[u]))'
    BY <1>5, <1>6, OthersUnaware
  <1>13. \A s \in Slots : Complete(archive[s])'
    <2>1. \A s \in Slots : Complete(archive'[s])
      BY <1>6, <1>8 DEF StoreInv, Keepers
    <2> QED
      BY <2>1 DEF Complete, Brings, Verified
  <1> QED
    BY <1>5, <1>11, <1>12, <1>13, StoreAlone DEF Keepers

LEMMA RestoreStep ==
  ASSUME RecordsInv, StoreInv, NEW t \in Threads, NEW safety \in BOOLEAN,
         Free(t), RestoreBegin(t, safety), UNCHANGED due
  PROVE  StoreTyped' /\ Live' /\ Keepers'
  <1>1. PICK a : a = archive["backup"]
    OBVIOUS
  <1>2. Brings(a)
    BY <1>1 DEF StoreInv, Keepers, Complete, Slots
  <1>3. CASE safety
    BY <1>1, <1>2, <1>3, ListStep DEF RestoreBegin
  <1>4. CASE ~safety
    <2>1. PICK n : n = [Away EXCEPT !.pc = "restoring", !.calm = Quiet, !.source = a]
      OBVIOUS
    <2>2. /\ n.pc = "restoring" /\ n.calm = Quiet /\ n.source = a
          /\ n.draft = NoArchive
      BY <2>1 DEF Away
    <2>3. /\ keeper' = [keeper EXCEPT ![t] = n]
          /\ UNCHANGED <<audit, store, archive, partial>>
      BY <1>1, <1>4, <2>1 DEF RestoreBegin
    <2>4. keeper'[t] = n /\ \A u \in Threads \ {t} : keeper'[u] = keeper[u]
      BY <2>3 DEF RecordsInv, BackupsInv
    <2>5. KeeperInv(n)
      <3>1. Undisturbed(n)
        BY <2>2 DEF Undisturbed, Quiet
      <3>2. Table(n.draft.manifest.rows)
        BY <2>2, EmptyTable DEF NoArchive, NoImage
      <3> QED
        BY <1>2, <2>2, <3>1, <3>2 DEF KeeperInv
    <2>6. UNCHANGED <<lines, unended, auditor, rows, blobs, writer, crossed, stored>>
      BY <2>3 DEF audit, store
    <2>7. (Exclusive(t) /\ KeeperInv(keeper[t]))'
      <3>1. KeeperInv(n)'
        BY <2>5, <2>6 DEF KeeperInv, Undisturbed, Reads, Brings, Inside
      <3>2. Exclusive(t)'
        BY <2>2, <2>4, <2>6 DEF Exclusive, Free
      <3> QED
        BY <2>4, <3>1, <3>2 DEF KeeperInv, Undisturbed, Reads, Brings
    <2>8. \A u \in Threads \ {t} : (Exclusive(u) /\ KeeperInv(keeper[u]))'
      BY <2>3, <2>4, OthersUnaware
    <2>9. \A s \in Slots : Complete(archive[s])'
      BY <2>3 DEF StoreInv, Keepers, Complete, Brings, Verified
    <2> QED
      BY <2>3, <2>7, <2>8, <2>9, StoreAlone DEF Keepers
  <1> QED
    BY <1>3, <1>4

(* The three steps of a restore that change the live files.                 *)
LEMMA RestoringStep ==
  ASSUME RecordsInv, StoreInv, NEW t \in Threads,
         RestoreFiles(t) \/ RestoreDatabase(t) \/ RestoreBlobs(t),
         \A u \in Threads \ {t} : due'[u] = due[u]
  PROVE  StoreTyped' /\ Live' /\ Keepers' /\ partial' \in BOOLEAN
  <1>1. PICK k : k = keeper[t]
    OBVIOUS
  <1>2. /\ KeeperTyped(k) /\ KeeperInv(k) /\ Exclusive(t)
        /\ StoreTyped /\ Live /\ k.pc # "idle"
    BY <1>1 DEF RecordsInv, BackupsInv, KeeperSound, StoreInv, Keepers,
       RestoreFiles, RestoreDatabase, RestoreBlobs
  <1>3. /\ DOMAIN writer' = Threads
        /\ \A u \in Threads : /\ writer'[u].pc = writer[u].pc
                               /\ DOMAIN writer'[u] = DOMAIN writer[u]
        /\ UNCHANGED <<auditor, archive>>
    BY <1>2 DEF RestoreFiles, RestoreDatabase, RestoreBlobs, StoreTyped, audit
  <1>4. \A s \in Slots : Complete(archive[s])'
    BY <1>3 DEF StoreInv, Keepers, Complete, Brings, Verified
  <1>5. PICK n : /\ keeper' = Moved(t, n)
                 /\ \/ RestoreFiles(t) /\ n = [k EXCEPT !.pc = "database"]
                    \/ RestoreDatabase(t) /\ n = [k EXCEPT !.pc = "blobs"]
                    \/ RestoreBlobs(t) /\ n = Away
    BY <1>1 DEF RestoreFiles, RestoreDatabase, RestoreBlobs
  <1>6. /\ \A u \in Threads \ {t} : (Exclusive(u) /\ KeeperInv(keeper[u]))'
        /\ keeper'[t] = n
    BY <1>3, <1>5, OthersDisturbed
  <1>7. (n.pc # "idle" => writer'[t].pc = "idle" /\ auditor'[t].pc \in {"idle", "append"})
        /\ n.pc \in {"idle", "database", "blobs"}
    BY <1>1, <1>2, <1>3, <1>5 DEF Exclusive, Away, KeeperTyped
  <1>8. Exclusive(t)'
    BY <1>6, <1>7 DEF Exclusive
  <1>9. CASE RestoreFiles(t) /\ n = [k EXCEPT !.pc = "database"]
    <2>1. /\ n.pc = "database" /\ n.calm = k.calm /\ n.source = k.source
          /\ n.draft = k.draft
      BY <1>2, <1>9 DEF KeeperTyped
    <2>2. KeeperInv(n)'
      BY <1>2, <1>3, <2>1 DEF KeeperInv, Undisturbed, Brings
    <2>3. partial' = TRUE /\ UNCHANGED <<rows, crossed>>
      BY <1>9 DEF RestoreFiles
    <2>4. StoreTyped'
      BY <1>2, <1>3, <2>3 DEF StoreTyped
    <2>5. KeeperInv(keeper[t])'
      BY <1>6, <2>2 DEF KeeperInv, Undisturbed, Reads, Brings
    <2> QED
      BY <1>4, <1>6, <1>8, <2>3, <2>4, <2>5 DEF Live, Keepers
  <1>10. CASE RestoreDatabase(t) /\ n = [k EXCEPT !.pc = "blobs"]
    <2>1. /\ n.pc = "blobs" /\ n.calm = k.calm /\ n.source = k.source
          /\ n.draft = k.draft
      BY <1>2, <1>10 DEF KeeperTyped
    <2>2. /\ partial' = TRUE
          /\ rows' = k.source.manifest.rows
          /\ crossed' = (k.source.crossed \/ Inserting)
          /\ stored' = k.source.stored
      BY <1>1, <1>10 DEF RestoreDatabase
    <2>3. k.source.crossed \in BOOLEAN /\ Table(k.source.manifest.rows)
      BY <1>2 DEF KeeperInv, Brings
    <2>4. k.calm => \A u \in Threads : writer[u].pc = "idle"
      BY <1>2 DEF KeeperInv, Undisturbed
    <2>5. k.calm => crossed' = k.source.crossed
      BY <2>2, <2>3, <2>4 DEF Inserting
    <2>6. KeeperInv(n)'
      <3>1. Undisturbed(n)'
        BY <1>3, <2>1, <2>2, <2>4, <2>5 DEF Undisturbed
      <3> QED
        BY <1>2, <2>1, <3>1 DEF KeeperInv, Brings
    <2>7. StoreTyped'
      <3>1. crossed' \in BOOLEAN
        BY <2>2, <2>3 DEF Inserting
      <3> QED
        BY <1>2, <1>3, <2>2, <2>3, <3>1 DEF StoreTyped
    <2>8. KeeperInv(keeper[t])'
      BY <1>6, <2>6 DEF KeeperInv, Undisturbed, Reads, Brings
    <2> QED
      BY <1>4, <1>6, <1>8, <2>2, <2>7, <2>8 DEF Live, Keepers
  <1>11. CASE RestoreBlobs(t) /\ n = Away
    <2>1. /\ blobs' = blobs \cup k.source.manifest.blobs
          /\ partial' = ~(k.calm /\ k.source.calm)
          /\ UNCHANGED <<rows, writer, crossed, stored>>
          /\ k.pc = "blobs"
      BY <1>1, <1>11 DEF RestoreBlobs
    <2>2. KeeperInv(n)'
      BY <1>11, EmptyTable DEF KeeperInv, Undisturbed, Brings, Away, NoArchive, NoImage
    <2>3. StoreTyped'
      BY <1>2, <2>1 DEF StoreTyped
    <2>4. Live'
      <3> SUFFICES ASSUME ~partial'
                   PROVE  (Sound(rows, blobs, crossed, stored) /\ Single)'
                          /\ \A u \in Threads : Pledged(writer[u])'
        BY DEF Live
      <3>1. k.calm /\ k.source.calm
        BY <2>1
      <3>2. /\ rows = k.source.manifest.rows /\ crossed = k.source.crossed
            /\ stored = k.source.stored
            /\ \A u \in Threads : writer[u].pc = "idle"
        BY <1>2, <2>1, <3>1 DEF KeeperInv, Undisturbed
      <3>3. Sound(rows, k.source.manifest.blobs, crossed, stored)
        BY <1>2, <3>1, <3>2 DEF KeeperInv, Brings
      <3>4. Sound(rows, blobs, crossed, stored)'
        BY <2>1, <3>3 DEF Sound, Backed
      <3> QED
        BY <2>1, <3>2, <3>4 DEF Single, Pledged
    <2>5. KeeperInv(keeper[t])'
      BY <1>6, <2>2 DEF KeeperInv, Undisturbed, Reads, Brings
    <2> QED
      BY <1>4, <1>6, <1>8, <2>1, <2>3, <2>4, <2>5 DEF Keepers
  <1> QED
    BY <1>5, <1>9, <1>10, <1>11
LEMMA StoreReset ==
  ASSUME RecordsInv, StoreInv, Reset
  PROVE  StoreInv'
  <1>1. /\ rows' = <<>> /\ blobs' = {} /\ stored' = {} /\ crossed' = FALSE
        /\ partial' = FALSE
        /\ archive' = [archive EXCEPT !["safety"] = NoArchive]
        /\ UNCHANGED <<auditor, writer, keeper, due>>
        /\ \A t \in Threads : /\ writer[t].pc = "idle"
                              /\ keeper[t].pc = "idle"
    BY DEF Reset, ResetFiles, Free
  <1>2. StoreTyped' /\ ControlTyped'
    BY <1>1, EmptyTable DEF StoreInv, StoreTyped, ControlTyped
  <1>3. Live'
    <2>1. Sound(rows, blobs, crossed, stored)'
      BY <1>1 DEF Sound, Backed, Chained, Holds
    <2> QED
      BY <1>1, <2>1 DEF Live, Single, Pledged
  <1>4. ASSUME NEW t \in Threads PROVE (Exclusive(t) /\ KeeperInv(keeper[t]))'
    <2>1. PICK k : k = keeper[t]
      OBVIOUS
    <2>2. Brings(k.source) /\ Table(k.draft.manifest.rows) /\ k.pc = "idle"
      BY <1>1, <2>1, IdleKeeper
    <2>3. KeeperInv(k)'
      BY <2>2 DEF KeeperInv, Undisturbed, Brings
    <2> QED
      BY <1>1, <2>1, <2>2, <2>3 DEF Exclusive, KeeperInv, Undisturbed, Reads, Brings
  <1>5. ASSUME NEW s \in Slots PROVE Complete(archive[s])'
    <2>1. Complete(NoArchive)
      BY EmptyTable DEF Complete, Brings, NoArchive, NoImage
    <2>2. archive'[s] = NoArchive \/ archive'[s] = archive[s]
      BY <1>1 DEF RecordsInv, BackupsInv
    <2>3. Complete(archive'[s])
      BY <2>1, <2>2 DEF StoreInv, Keepers
    <2> QED
      BY <2>3 DEF Complete, Brings, Verified
  <1> QED
    BY <1>2, <1>3, <1>4, <1>5 DEF StoreInv, Keepers

(* A process that dies may leave a part of a line in the log: then a thread *)
(* of it was inside, and nobody had begun a backup undisturbed.             *)
LEMMA StoreDeath ==
  ASSUME RecordsInv, StoreInv, NEW t \in Threads, Die(t), StoreDie(t), BackupDie(t),
         due' = [u \in Threads |-> IF SameProcess(t, u) THEN 0 ELSE due[u]]
  PROVE  StoreInv'
  <1> DEFINE process == {u \in Threads : SameProcess(t, u)}
             pending == UNION {Pending(u) : u \in process}
  <1>1. /\ \/ UNCHANGED <<lines, unended>>
           \/ pending # {}
        /\ \A u \in Threads : auditor'[u] = IF u \in process THEN Idle ELSE auditor[u]
    BY DEF Die
  <1>2. ASSUME pending # {} PROVE \E u \in Threads : Inside(u)
    <2>1. PICK u \in process : Pending(u) # {}
      BY <1>2
    <2>2. PICK e : e \in Pending(u)
      BY <2>1
    <2> QED
      BY <2>1, <2>2, PendingTyped DEF RecordsInv
  <1> HIDE DEF pending
  <1>3. /\ DOMAIN writer' = Threads
        /\ \A u \in Threads : writer'[u] = IF u \in process THEN AtRest ELSE writer[u]
        /\ UNCHANGED <<rows, blobs, crossed, stored, partial, archive>>
        /\ \A u \in Threads : keeper'[u] = IF u \in process THEN Away ELSE keeper[u]
        /\ DOMAIN due' = Threads
        /\ \A u \in Threads \ process : due'[u] = due[u]
    BY DEF StoreDie, BackupDie
  <1> HIDE DEF process
  <1>4. StoreTyped /\ Live /\ ControlTyped
    BY DEF StoreInv
  <1>5. AtRest.pc = "idle" /\ Idle.pc = "idle" /\ Away.pc = "idle"
    BY DEF AtRest, Idle, Away
  <1>6. StoreTyped' /\ Live'
    <2>1. \A u \in Threads :
            /\ DOMAIN writer'[u] = DOMAIN writer[u]
            /\ writer'[u].pc \in {"blobbed", "inserted"} => writer'[u] = writer[u]
      <3>1. \A u \in Threads : DOMAIN AtRest = DOMAIN writer[u]
        BY <1>4 DEF StoreTyped, AtRest
      <3> QED
        BY <1>3, <1>5, <3>1
    <2>2. ~partial => Holds(rows, stored')
      BY <1>3, <1>4 DEF Live, Sound
    <2> QED
      BY <1>3, <1>4, <2>1, <2>2, NothingBegun
  <1>7. ControlTyped'
    BY <1>3, <1>4 DEF ControlTyped
  <1>8. ASSUME NEW u \in Threads PROVE (Exclusive(u) /\ KeeperInv(keeper[u]))'
    <2>1. PICK n : n = keeper'[u]
      OBVIOUS
    <2>2. CASE u \in process
      <3>1. n = Away
        BY <1>3, <2>1, <2>2
      <3>2. Brings(n.source) /\ Table(n.draft.manifest.rows) /\ n.pc = "idle"
        BY <3>1, EmptyTable DEF Brings, Away, NoArchive, NoImage
      <3>3. KeeperInv(n)'
        BY <3>2 DEF KeeperInv, Undisturbed, Brings
      <3> QED
        BY <2>1, <3>2, <3>3 DEF Exclusive, KeeperInv, Undisturbed, Reads, Brings
    <2>3. CASE u \notin process
      <3>1. n = keeper[u] /\ writer'[u] = writer[u] /\ auditor'[u] = auditor[u]
            /\ due'[u] = due[u]
        BY <1>1, <1>3, <2>1, <2>3
      <3>2. KeeperInv(n) /\ Exclusive(u)
        BY <3>1 DEF StoreInv, Keepers
      <3>3. \A v \in Threads : /\ writer[v].pc = "idle" => writer'[v].pc = "idle"
                               /\ ~Inside(v) => ~Inside(v)'
        BY <1>1, <1>3, <1>5 DEF Inside
      <3>4. (\A v \in Threads : ~Inside(v)) => UNCHANGED <<lines, unended>>
        BY <1>1, <1>2
      <3>5. KeeperInv(n)'
        BY <1>3, <3>2, <3>3, <3>4 DEF KeeperInv, Undisturbed, Reads, Brings
      <3>6. Exclusive(u)'
        BY <2>1, <3>1, <3>2 DEF Exclusive
      <3> QED
        BY <2>1, <3>5, <3>6 DEF KeeperInv, Undisturbed, Reads, Brings
    <2> QED
      BY <2>2, <2>3
  <1>9. \A s \in Slots : Complete(archive[s])'
    BY <1>3 DEF StoreInv, Keepers, Complete, Brings, Verified
  <1> QED
    BY <1>6, <1>7, <1>8, <1>9 DEF StoreInv, Keepers

-----------------------------------------------------------------------------
LEMMA StoreNext ==
  ASSUME RecordsInv, StoreInv, [Next]_vars
  PROVE  StoreInv'
  <1>1. StoreTyped /\ Live /\ ControlTyped
    BY DEF StoreInv
  <1>2. ASSUME UNCHANGED <<audit, store, backup, due>> PROVE StoreInv'
    <2>1. UNCHANGED <<lines, unended, auditor, rows, blobs, writer, crossed, stored,
                      archive, keeper, partial>>
      BY <1>2 DEF audit, store, backup
    <2>2. StoreTyped' /\ Live' /\ ControlTyped'
      BY <1>1, <1>2, <2>1, StoreAlone DEF ControlTyped
    <2>3. ASSUME NEW u \in Threads PROVE (Exclusive(u) /\ KeeperInv(keeper[u]))'
      <3>1. PICK k : k = keeper[u]
        OBVIOUS
      <3>2. KeeperInv(k) /\ Exclusive(u)
        BY <3>1 DEF StoreInv, Keepers
      <3>3. KeeperInv(k)' /\ keeper'[u] = k
        BY <2>1, <3>1, <3>2 DEF KeeperInv, Undisturbed, Reads, Brings, Inside
      <3>4. Exclusive(u)'
        BY <1>2, <2>1, <3>2 DEF Exclusive
      <3> QED
        BY <3>3, <3>4 DEF KeeperInv, Undisturbed, Reads, Brings
    <2>4. \A s \in Slots : Complete(archive[s])'
      BY <2>1 DEF StoreInv, Keepers, Complete, Brings, Verified
    <2> QED
      BY <2>2, <2>3, <2>4 DEF StoreInv, Keepers
  <1>3. ASSUME NEW t \in Threads,
               \/ \E a \in Artifacts : WriteBegin(t, a) \/ FileWriteBegin(t, a)
               \/ WriteInsert(t)
               \/ WriteCopy(t)
               \/ FileWriteEnd(t)
               \/ ImportBegin(t)
               \/ ImportSkip(t)
               \/ ImportWrite(t)
               \/ ImportEnd(t),
               keeper[t].pc = "idle",
               Disturb(t), UNCHANGED <<audit, archive, partial>>,
               due' = due \/ \E n : due' = [due EXCEPT ![t] = n]
        PROVE  StoreInv'
    <2>1. /\ StoreTyped' /\ Live'
          /\ \A u \in Threads \ {t} : writer'[u].pc = writer[u].pc
      BY <1>1, <1>3, StoreSteps
    <2>2. ControlTyped' /\ \A u \in Threads \ {t} : due'[u] = due[u]
      BY <1>1, <1>3 DEF ControlTyped
    <2>3. \A u \in Threads \ {t} : auditor'[u] = auditor[u]
      BY <1>3 DEF audit
    <2>4. Keepers'
      BY <1>3, <2>1, <2>2, <2>3, KeepersDisturbed
    <2> QED
      BY <2>1, <2>2, <2>4 DEF StoreInv
  <1>4. ASSUME NEW t \in Threads,
               keeper[t].pc \notin {"hashing", "copying"},
               keeper[t].pc # "idle" => auditor'[t].pc \in {"idle", "append"},
               Disturb(t), UNCHANGED <<store, archive, partial>>,
               \A u \in Threads \ {t} : auditor'[u] = auditor[u],
               due' = due \/ \E n : due' = [due EXCEPT ![t] = n]
        PROVE  StoreInv'
    <2>1. UNCHANGED <<rows, writer, crossed, stored>>
      BY <1>4 DEF store
    <2>2. ControlTyped' /\ \A u \in Threads \ {t} : due'[u] = due[u]
      BY <1>1, <1>4 DEF ControlTyped
    <2>3. Keepers'
      BY <1>4, <2>1, <2>2, KeepersLogged
    <2> QED
      BY <1>4, <2>2, <2>3, StoreAlone DEF StoreInv
  <1>5. ASSUME NEW t \in Threads PROVE Exclusive(t) /\ (Free(t) => keeper[t].pc = "idle")
    BY DEF StoreInv, Keepers, Free
  <1>6. ASSUME NEW t \in Threads, writer[t].pc # "idle" PROVE keeper[t].pc = "idle"
    BY <1>5, <1>6 DEF Exclusive
  <1>7. ASSUME NEW t \in Threads, Start(t) PROVE StoreInv'
    <2>1. t \in Process(t)
      BY DEF Process, SameProcess
    <2> QED
      BY <1>3, <1>5, <1>7, <2>1 DEF Start
  <1>8. ASSUME NEW t \in Threads, Started(t) PROVE StoreInv'
    <2>1. keeper[t].pc = "idle"
      BY <1>6, <1>8 DEF Started, ImportEnd
    <2> QED
      BY <1>3, <1>8, <2>1 DEF Started, Owe
  <1>9. ASSUME NEW t \in Threads, Stop(t) PROVE StoreInv'
    BY <1>2, <1>9 DEF Stop
  <1>10. ASSUME NEW t \in Threads, WriteResult(t) \/ WriteFile(t) PROVE StoreInv'
    BY <1>3, <1>5, <1>10 DEF WriteResult, WriteFile, Begin
  <1>11. ASSUME NEW t \in Threads, StoreProgress(t) PROVE StoreInv'
    <2>1. keeper[t].pc = "idle"
      BY <1>6, <1>11 DEF StoreProgress, WriteInsert, WriteCopy, FileWriteEnd,
         ImportSkip, ImportWrite
    <2> QED
      BY <1>3, <1>11, <2>1 DEF StoreProgress, Owe
  <1>12. ASSUME NEW t \in Threads, LogEvent(t) PROVE StoreInv'
    <2>1. keeper[t].pc \notin {"hashing", "copying"}
      BY <1>5, <1>12 DEF LogEvent, LogAppend, Exclusive
    <2>2. /\ auditor'[t].pc \in {"idle", "append"}
          /\ \A u \in Threads \ {t} : auditor'[u] = auditor[u]
      <3>1. PICK e : \/ auditor' = [auditor EXCEPT ![t] =
                                      [Idle EXCEPT !.pc = "append", !.entry = e]]
                     \/ auditor' = [auditor EXCEPT ![t] = Idle]
        <4>1. CASE LogBegin(t)
          BY <4>1 DEF LogBegin
        <4>2. CASE LogAppend(t)
          BY <4>2 DEF LogAppend
        <4> QED
          BY <1>12, <4>1, <4>2 DEF LogEvent
      <3>2. DOMAIN auditor = Threads
        BY DEF RecordsInv, AuditTyped
      <3>3. Idle.pc = "idle" /\ [Idle EXCEPT !.pc = "append", !.entry = e].pc = "append"
        BY DEF Idle
      <3> QED
        BY <3>1, <3>2, <3>3
    <2>3. /\ Disturb(t) /\ UNCHANGED <<store, archive, partial>>
          /\ due' = due \/ Owe(t, due[t] - 1)
      BY <1>12 DEF LogEvent
    <2>4. due' = due \/ \E n : due' = [due EXCEPT ![t] = n]
      BY <2>3, Zenon DEF Owe
    <2> QED
      BY <1>4, <2>1, <2>2, <2>3, <2>4, Zenon
  <1>13. ASSUME NEW t \in Threads, Repair(t) \/ RepairProgress(t) PROVE StoreInv'
    <2>1. keeper[t].pc = "idle"
      BY <1>5, <1>13 DEF Repair, Begin, RepairProgress, RepairNothing, RepairBegin,
         RepairTruncate, RepairAppend, RepairEnd, Exclusive
    <2>2. \A u \in Threads \ {t} : auditor'[u] = auditor[u]
      BY <1>13 DEF Repair, RepairCheck, RepairProgress, RepairNothing, RepairBegin,
         RepairTruncate, RepairAppend, RepairEnd, RecordsInv, AuditTyped
    <2>3. Disturb(t) /\ UNCHANGED <<store, archive, partial, due>>
      BY <1>13 DEF Repair, RepairProgress, control
    <2> QED
      BY <1>4, <2>1, <2>2, <2>3
  <1>14. ASSUME NEW t \in Threads, Backup(t) PROVE StoreInv'
    <2>1. Free(t) /\ BackupList(t, "backup", "backup", NoArchive) /\ UNCHANGED <<due, partial>>
      BY <1>14 DEF Backup, Begin, BackupList
    <2>2. Brings(NoArchive)
      BY EmptyTable DEF Brings, NoArchive, NoImage
    <2> QED
      BY <1>1, <2>1, <2>2, ListStep DEF StoreInv, ControlTyped
  <1>15. ASSUME NEW t \in Threads, Restore(t) PROVE StoreInv'
    <2>1. PICK safety \in BOOLEAN : RestoreBegin(t, safety)
      BY <1>15 DEF Restore
    <2>2. Free(t) /\ UNCHANGED <<due, partial>>
      BY <1>15, <2>1 DEF Restore, Begin, RestoreBegin, BackupList
    <2> QED
      BY <1>1, <2>1, <2>2, RestoreStep DEF StoreInv, ControlTyped
  <1>16. ASSUME NEW t \in Threads, BackupProgress(t) PROVE StoreInv'
    <2>1. /\ DOMAIN due' = Threads
          /\ \A u \in Threads \ {t} : due'[u] = due[u]
      BY <1>1, <1>16 DEF BackupProgress, Owe, ControlTyped
    <2>2. CASE BackupHash(t) /\ UNCHANGED due
      BY <1>1, <2>1, <2>2, HashStep DEF StoreInv, ControlTyped, BackupHash
    <2>3. CASE BackupClose(t)
      BY <1>1, <2>1, <2>3, CloseStep DEF StoreInv, ControlTyped, BackupClose
    <2>4. CASE RestoreFiles(t) \/ RestoreDatabase(t) \/ RestoreBlobs(t)
      BY <2>1, <2>4, RestoringStep DEF StoreInv, ControlTyped
    <2> QED
      BY <1>16, <2>2, <2>3, <2>4 DEF BackupProgress
  <1>17. ASSUME NEW t \in Threads, Death(t) PROVE StoreInv'
    BY <1>17, StoreDeath DEF Death
  <1>18. CASE UNCHANGED vars
    BY <1>2, <1>18 DEF vars, control
  <1> QED
    BY <1>7, <1>8, <1>9, <1>10, <1>11, <1>12, <1>13, <1>14, <1>15, <1>16, <1>17,
       <1>18, StoreReset DEF Next

LEMMA StoreAlways == Spec => []StoreInv
  <1>1. RecordsInv /\ StoreInv /\ [Next]_vars => StoreInv'
    BY StoreNext
  <1> QED
    BY <1>1, InitStore, RecordsAlways, PTL DEF Spec

-----------------------------------------------------------------------------
(* The chain of the store verifies unless writers crossed: deaths between   *)
(* the steps of a write leave it whole, and a restore undisturbed of a      *)
(* backup taken undisturbed, or a reset, brings back one that verifies      *)
(* (write_artifact, restore_backup).                                        *)
THEOREM StoreChainKept == Spec => []StoreChainSurvives
  <1>1. StoreInv => StoreChainSurvives
    BY DEF StoreInv, Live, Sound, Backed, Chained, StoreChainSurvives,
       StoreChainHolds, StoreValid
  <1> QED
    BY <1>1, StoreAlways, PTL

(* What write_artifact reported as stored can be read, crossed writers,     *)
(* deaths, and restores undisturbed included.                               *)
THEOREM StoredIsRead == Spec => []StoredSurvives
  <1>1. StoreInv => StoredSurvives
    <2> SUFFICES ASSUME StoreInv, ~partial, NEW a \in stored PROVE Readable(a)
      BY DEF StoredSurvives, StoredReadable
    <2>1. Backed(rows, blobs) /\ Holds(rows, stored)
      BY DEF StoreInv, Live, Sound
    <2>2. PICK i \in DOMAIN rows : rows[i].artifact = a
      BY <2>1 DEF Holds
    <2> QED
      BY <2>1, <2>2 DEF Backed, Readable
  <1> QED
    BY <1>1, StoreAlways, PTL

(* A backup that nothing disturbed passes its own verification and holds    *)
(* the blob of every row in its database, although create_backup reads each *)
(* file twice and locks none.                                               *)
THEOREM BackupsAreComplete == Spec => []BackupComplete
  <1>1. StoreInv => BackupComplete
    <2> SUFFICES ASSUME StoreInv PROVE BackupComplete
      OBVIOUS
    <2>1. Complete(archive["backup"])
      BY DEF StoreInv, Keepers, Slots
    <2> QED
      BY <2>1 DEF Complete, Brings, Sound, Backed, BackupComplete
  <1> QED
    BY <1>1, StoreAlways, PTL

-----------------------------------------------------------------------------
(* The import of the files that no row stands for.                          *)
Artifact(r) == {r[i].artifact : i \in DOMAIN r}

(* An import that has seen all files so far (whole) has each of them in the *)
(* table or before it; what it is writing is the first of those.            *)
Covers(w) ==
  /\ Table(w.todo)
  /\ w.pc = "idle" => ~w.import
  /\ w.pc = "blobbed" /\ w.import => /\ w.todo # <<>>
                                     /\ w.artifact = Head(w.todo).artifact
  /\ w.whole => Artifact(copies) \subseteq Artifact(rows) \cup Artifact(w.todo)

Imports == /\ Table(copies)
           /\ \A t \in Threads : Covers(writer[t])
           /\ indexed => Artifact(copies) \subseteq Artifact(rows)

(* What a restore would put in place of the copies is a list as well.       *)
Listing(k) == /\ Table(k.source.manifest.copies)
              /\ Table(k.draft.manifest.copies)

Listings == /\ \A t \in Threads : Listing(keeper[t])
            /\ \A s \in Slots : Table(archive[s].manifest.copies)

-----------------------------------------------------------------------------
LEMMA SeqIsTable ==
  ASSUME NEW S, NEW s \in Seq(S)
  PROVE  Table(s)
  <1> DEFINE U == {s[i] : i \in DOMAIN s}
  <1>1. Len(s) \in Nat /\ DOMAIN s = 1 .. Len(s)
    OBVIOUS
  <1>2. \A i \in 1 .. Len(s) : s[i] \in U
    BY <1>1
  <1> HIDE DEF U
  <1>3. s \in Seq(U)
    BY <1>1, <1>2
  <1> QED
    BY <1>3 DEF Table, U

LEMMA JoinedTable ==
  ASSUME NEW r, NEW q, Table(r), Table(q)
  PROVE  Table(r \o q)
  <1> DEFINE S == {r[i] : i \in DOMAIN r} \cup {q[i] : i \in DOMAIN q}
  <1>1. r \in Seq(S) /\ q \in Seq(S)
    <2> DEFINE A == {r[i] : i \in DOMAIN r}
               B == {q[i] : i \in DOMAIN q}
    <2>1. r \in Seq(A) /\ q \in Seq(B)
      BY DEF Table
    <2> HIDE DEF A, B
    <2>2. r \in Seq(A \cup B) /\ q \in Seq(A \cup B)
      BY <2>1
    <2> QED
      BY <2>2 DEF A, B
  <1> HIDE DEF S
  <1>2. r \o q \in Seq(S)
    BY <1>1
  <1> QED
    BY <1>2, SeqIsTable

LEMMA PartTable ==
  ASSUME NEW r, Table(r), NEW T \in SUBSET (DOMAIN r)
  PROVE  Table(Sublist(r, T))
  <1> DEFINE S == {r[i] : i \in DOMAIN r}
  <1>1. r \in Seq(S)
    BY DEF Table
  <1> HIDE DEF S
  <1>2. Sublist(r, T) \in Seq(S)
    BY <1>1, SublistIsList
  <1> QED
    BY <1>2, SeqIsTable

(* The first of a list and the rest.                                        *)
LEMMA RestTable ==
  ASSUME NEW r, Table(r), r # <<>>
  PROVE  /\ Table(Tail(r))
         /\ Artifact(r) \subseteq {Head(r).artifact} \cup Artifact(Tail(r))
  <1> DEFINE S == {r[i] : i \in DOMAIN r}
             q == Tail(r)
  <1>1. r \in Seq(S)
    BY DEF Table
  <1> HIDE DEF S
  <1>2. q \in Seq(S) /\ Head(r) = r[1]
        /\ DOMAIN r = 1 .. Len(r) /\ Len(r) \in Nat
        /\ DOMAIN q = 1 .. Len(r) - 1
        /\ \A i \in 1 .. Len(r) - 1 : q[i] = r[i + 1]
    BY <1>1
  <1>3. Table(q)
    BY <1>2, SeqIsTable
  <1> HIDE DEF q
  <1>4. ASSUME NEW i \in DOMAIN r
        PROVE  r[i].artifact \in {Head(r).artifact} \cup Artifact(q)
    <2>1. CASE i = 1
      BY <1>2, <2>1
    <2>2. CASE i # 1
      <3>1. i - 1 \in DOMAIN q /\ q[i - 1] = r[i]
        BY <1>2, <1>4, <2>2
      <3> QED
        BY <3>1 DEF Artifact
    <2> QED
      BY <2>1, <2>2
  <1> QED
    BY <1>3, <1>4 DEF Artifact, q

LEMMA ArtifactsAppended ==
  ASSUME NEW r, Table(r), NEW x
  PROVE  /\ Table(Append(r, x))
         /\ Artifact(Append(r, x)) = Artifact(r) \cup {x.artifact}
  <1> DEFINE q == Append(r, x)
             n == Len(r)
  <1>1. /\ Table(q) /\ n \in Nat
        /\ DOMAIN r = 1 .. n /\ DOMAIN q = 1 .. n + 1
        /\ q[n + 1] = x /\ \A i \in 1 .. n : q[i] = r[i]
    BY AppendedTable
  <1> HIDE DEF q, n
  <1>2. 1 .. n + 1 = (1 .. n) \cup {n + 1}
    BY <1>1
  <1>3. \A a : a \in Artifact(q) <=> \E i \in 1 .. n + 1 : a = q[i].artifact
    BY <1>1 DEF Artifact
  <1>4. \A a : a \in Artifact(r) <=> \E i \in 1 .. n : a = r[i].artifact
    BY <1>1 DEF Artifact
  <1>5. \A a : a \in Artifact(q) <=> a \in Artifact(r) \cup {x.artifact}
    BY <1>1, <1>2, <1>3, <1>4
  <1> QED
    BY <1>1, <1>5 DEF q

LEMMA IndexedIs == \A a : Indexed(a) <=> a \in Artifact(rows)
  BY DEF Indexed, Artifact

LEMMA EmptyLists ==
  /\ Table(<<>>) /\ Artifact(<<>>) = {}
  /\ Covers(AtRest) /\ AtRest.pc = "idle" /\ AtRest.todo = <<>> /\ ~AtRest.whole
  /\ Listing(Away) /\ Table(NoArchive.manifest.copies)
  <1>1. Table(<<>>) /\ Artifact(<<>>) = {}
    BY DEF Table, Artifact
  <1> QED
    BY <1>1 DEF Covers, AtRest, Listing, Away, NoArchive, NoImage

LEMMA InitIndex == Init => Imports /\ Listings
  <1> SUFFICES ASSUME Init  PROVE  Imports /\ Listings
    OBVIOUS
  <1>1. CASE Fresh
    <2>1. Imports
      BY <1>1, EmptyLists DEF Fresh, StoreInit, Imports
    <2>2. Listings
      BY <1>1, EmptyLists DEF Fresh, BackupInit, NoArchives, Listings
    <2> QED
      BY <2>1, <2>2
  <1>2. ASSUME NEW a \in Artifacts, InUse(a)
        PROVE  Imports /\ Listings
    <2> DEFINE cs == <<Copy(a, NoArtifact)>>
               rs == <<Row(a, 1, NoArtifact)>>
    <2>1. copies = cs /\ rows = rs /\ writer = [t \in Threads |-> AtRest]
          /\ keeper = [t \in Threads |-> Away]
      BY <1>2 DEF InUse, NoImage
    <2>2. Table(cs)
      <3>1. cs \in Seq({Copy(a, NoArtifact)})
        OBVIOUS
      <3> QED
        BY <3>1, SeqIsTable
    <2>3. Artifact(cs) \subseteq Artifact(rs)
      BY DEF Artifact, Copy, Row
    <2>4. \A s \in Slots : archive[s].manifest.copies \in {cs, <<>>}
      BY <1>2 DEF InUse, NoArchives, NoArchive, NoImage, Slots
    <2> HIDE DEF cs, rs
    <2>5. Imports
      BY <2>1, <2>2, <2>3, EmptyLists DEF Imports
    <2>6. Listings
      BY <2>1, <2>2, <2>4, EmptyLists DEF Listings
    <2> QED
      BY <2>5, <2>6
  <1> QED
    BY <1>1, <1>2 DEF Init

-----------------------------------------------------------------------------
(* A thread goes on, while rows are added and no file.                      *)
LEMMA WriterCovers ==
  ASSUME StoreTyped, Imports, NEW t \in Threads, NEW n,
         writer' = [writer EXCEPT ![t] = n],
         copies' = copies, Covers(n)',
         Artifact(rows) \subseteq Artifact(rows'),
         indexed' => indexed \/ Artifact(copies) \subseteq Artifact(rows)
  PROVE  Imports'
  <1>1. \A u \in Threads : writer'[u] = IF u = t THEN n ELSE writer[u]
    BY DEF StoreTyped
  <1>2. ASSUME NEW u \in Threads  PROVE  Covers(writer[u])'
    <2>1. CASE u = t
      BY <1>1, <2>1 DEF Covers
    <2>2. CASE u # t
      <3>1. Covers(writer[u]) /\ writer'[u] = writer[u]
        BY <1>1, <2>2 DEF Imports
      <3> QED
        BY <3>1 DEF Covers
    <2> QED
      BY <2>1, <2>2
  <1> QED
    BY <1>2 DEF Imports

LEMMA SelectCovers ==
  ASSUME StoreTyped, Imports, NEW t \in Threads, NEW a, Select(t, a),
         writer[t].import => writer[t].todo # <<>> /\ a = Head(writer[t].todo).artifact
  PROVE  Imports'
  <1>1. PICK w : w = writer[t]
    OBVIOUS
  <1>2. PICK n : n = [w EXCEPT !.pc = "blobbed", !.artifact = a,
                               !.previous = Latest, !.blob = stamp + 1]
    OBVIOUS
  <1>3. /\ writer' = [writer EXCEPT ![t] = n]
        /\ UNCHANGED <<rows, copies, indexed>>
    BY <1>1, <1>2 DEF Select
  <1>4. /\ n.pc = "blobbed" /\ n.artifact = a /\ n.todo = w.todo
        /\ n.import = w.import /\ n.whole = w.whole
    BY <1>1, <1>2 DEF StoreTyped
  <1>5. Covers(w)
    BY <1>1 DEF Imports
  <1>6. Covers(n)'
    BY <1>1, <1>3, <1>4, <1>5 DEF Covers
  <1> QED
    BY <1>3, <1>6, WriterCovers

LEMMA InsertCovers ==
  ASSUME StoreTyped, Imports, NEW t \in Threads, WriteInsert(t)
  PROVE  Imports'
  <1>1. PICK w : w = writer[t]
    OBVIOUS
  <1>2. PICK n : n = After(w, ~Indexed(w.artifact))
    OBVIOUS
  <1>3. /\ w.pc = "blobbed"
        /\ rows' = IF Indexed(w.artifact) THEN rows
                   ELSE Append(rows, Row(w.artifact, w.blob, w.previous))
        /\ writer' = [writer EXCEPT ![t] = n]
        /\ UNCHANGED <<copies, indexed>>
    BY <1>1, <1>2 DEF WriteInsert
  <1>4. Covers(w)
    BY <1>1 DEF Imports
  <1>5. Artifact(rows') = Artifact(rows) \cup {w.artifact}
    <2>1. Row(w.artifact, w.blob, w.previous).artifact = w.artifact
      BY DEF Row
    <2>2. Table(rows)
      BY DEF StoreTyped
    <2> QED
      BY <1>3, <2>1, <2>2, ArtifactsAppended, IndexedIs
  <1>6. DOMAIN w = {"pc", "artifact", "previous", "blob", "import", "todo",
                    "imported", "whole"}
    BY <1>1 DEF StoreTyped
  <1>7. Covers(n)'
    <2>1. CASE w.import
      <3>1. /\ n.pc = "importing" /\ n.todo = Tail(w.todo) /\ n.whole = w.whole
        BY <1>2, <1>6, <2>1 DEF After
      <3>2. /\ w.todo # <<>> /\ Table(w.todo) /\ w.artifact = Head(w.todo).artifact
        BY <1>3, <1>4, <2>1 DEF Covers
      <3>3. /\ Table(n.todo)
            /\ Artifact(w.todo) \subseteq {w.artifact} \cup Artifact(n.todo)
        BY <3>1, <3>2, RestTable
      <3> QED
        BY <1>3, <1>4, <1>5, <3>1, <3>3 DEF Covers
    <2>2. CASE ~w.import /\ ~Indexed(w.artifact)
      <3>1. /\ n.pc = "inserted" /\ n.todo = w.todo /\ n.whole = w.whole
        BY <1>2, <1>6, <2>2 DEF After
      <3> QED
        BY <1>3, <1>4, <1>5, <3>1 DEF Covers
    <2>3. CASE ~w.import /\ Indexed(w.artifact)
      <3>1. n = AtRest
        BY <1>2, <2>3 DEF After
      <3> QED
        BY <3>1, EmptyLists DEF Covers, AtRest
    <2> QED
      BY <2>1, <2>2, <2>3
  <1> QED
    BY <1>3, <1>5, <1>7, WriterCovers

(* A file that no row stands for ends the completeness of the imports.      *)
LEMMA FileCovers ==
  ASSUME StoreTyped, Imports, NEW t \in Threads, FileAdded(t),
         copies' = Append(copies, Copy(writer[t].artifact, writer[t].previous)),
         UNCHANGED rows
  PROVE  Imports'
  <1>1. PICK a : a = writer[t].artifact
    OBVIOUS
  <1>2. Copy(a, writer[t].previous).artifact = a
    BY DEF Copy
  <1>3. Table(copies') /\ Artifact(copies') = Artifact(copies) \cup {a}
    BY <1>1, <1>2, ArtifactsAppended DEF Imports
  <1>4. indexed' = (indexed /\ a \in Artifact(rows))
    BY <1>1, IndexedIs DEF FileAdded
  <1>5. ASSUME NEW u \in Threads  PROVE  Covers(writer[u])'
    <2>1. PICK w : w = writer[u]
      OBVIOUS
    <2>2. PICK n : n = writer'[u]
      OBVIOUS
    <2>3. CASE u = t
      <3>1. n = AtRest
        BY <2>2, <2>3 DEF FileAdded
      <3> QED
        BY <2>2, <3>1, EmptyLists DEF Covers, AtRest
    <2>4. CASE u # t
      <3>1. n = [w EXCEPT !.whole = w.whole /\ Indexed(a)]
        BY <1>1, <2>1, <2>2, <2>4 DEF FileAdded
      <3>2. /\ n.pc = w.pc /\ n.artifact = w.artifact /\ n.todo = w.todo
            /\ n.import = w.import
            /\ n.whole => w.whole /\ a \in Artifact(rows)
        BY <2>1, <3>1, IndexedIs DEF StoreTyped
      <3>3. Covers(w)
        BY <2>1 DEF Imports
      <3> QED
        BY <1>3, <2>2, <3>2, <3>3 DEF Covers
    <2> QED
      BY <2>3, <2>4
  <1> QED
    BY <1>3, <1>4, <1>5 DEF Imports

LEMMA StoreCovers ==
  ASSUME StoreTyped, Imports, NEW t \in Threads,
         \/ \E a \in Artifacts : WriteBegin(t, a) \/ FileWriteBegin(t, a)
         \/ WriteInsert(t)
         \/ WriteCopy(t)
         \/ FileWriteEnd(t)
         \/ ImportBegin(t)
         \/ ImportSkip(t)
         \/ ImportWrite(t)
         \/ ImportEnd(t)
  PROVE  Imports'
  <1>1. PICK w : w = writer[t]
    OBVIOUS
  <1>2. Covers(w)
    BY <1>1 DEF Imports
  <1>3. ASSUME NEW a \in Artifacts, WriteBegin(t, a)
        PROVE  Imports'
    <2>1. ~writer[t].import
      BY <1>1, <1>2, <1>3 DEF WriteBegin, Covers
    <2> QED
      BY <1>3, <2>1, SelectCovers DEF WriteBegin
  <1>4. ASSUME NEW a \in Artifacts, FileWriteBegin(t, a)
        PROVE  Imports'
    <2>1. PICK n : n = [AtRest EXCEPT !.pc = "filing", !.artifact = a,
                                 !.previous = IF copies = <<>> THEN NoArtifact
                                              ELSE copies[Len(copies)].artifact]
      OBVIOUS
    <2>2. n.pc = "filing" /\ n.todo = <<>> /\ ~n.whole
      BY <2>1 DEF AtRest
    <2>3. /\ writer' = [writer EXCEPT ![t] = n]
          /\ UNCHANGED <<rows, copies, indexed>>
      BY <1>4, <2>1 DEF FileWriteBegin
    <2>4. Covers(n)'
      BY <2>2, EmptyLists DEF Covers
    <2> QED
      BY <2>3, <2>4, WriterCovers
  <1>5. CASE WriteInsert(t)
    BY <1>5, InsertCovers
  <1>6. CASE WriteCopy(t) \/ FileWriteEnd(t)
    <2>1. /\ FileAdded(t) /\ UNCHANGED rows
          /\ copies' = Append(copies, Copy(writer[t].artifact, writer[t].previous))
      BY <1>6 DEF WriteCopy, FileWriteEnd
    <2> QED
      BY <2>1, FileCovers
  <1>7. CASE ImportBegin(t)
    <2>1. PICK n : n = [AtRest EXCEPT !.pc = "importing", !.import = TRUE,
                                      !.todo = copies, !.whole = TRUE]
      OBVIOUS
    <2>2. n.pc = "importing" /\ n.todo = copies
      BY <2>1 DEF AtRest
    <2>3. /\ writer' = [writer EXCEPT ![t] = n]
          /\ UNCHANGED <<rows, copies, indexed>>
      BY <1>7, <2>1 DEF ImportBegin
    <2>4. Covers(n)'
      BY <2>2, <2>3 DEF Covers, Imports
    <2> QED
      BY <2>3, <2>4, WriterCovers
  <1>8. CASE ImportSkip(t)
    <2>1. PICK n : n = [w EXCEPT !.todo = Tail(@)]
      OBVIOUS
    <2>2. n.pc = w.pc /\ n.todo = Tail(w.todo) /\ n.whole = w.whole /\ w.pc = "importing"
      BY <1>1, <1>8, <2>1 DEF ImportSkip, StoreTyped
    <2>3. /\ writer' = [writer EXCEPT ![t] = n]
          /\ UNCHANGED <<rows, copies, indexed>>
          /\ w.todo # <<>> /\ Head(w.todo).artifact \in Artifact(rows)
      BY <1>1, <1>8, <2>1, IndexedIs DEF ImportSkip
    <2>4. /\ Table(n.todo)
          /\ Artifact(w.todo) \subseteq {Head(w.todo).artifact} \cup Artifact(n.todo)
      BY <1>2, <2>2, <2>3, RestTable DEF Covers
    <2>5. Covers(n)'
      BY <1>2, <2>2, <2>3, <2>4 DEF Covers
    <2> QED
      BY <2>3, <2>5, WriterCovers
  <1>9. CASE ImportWrite(t)
    BY <1>9, SelectCovers DEF ImportWrite
  <1>10. CASE ImportEnd(t)
    <2>1. w.todo = <<>> /\ indexed' = (indexed \/ w.whole)
          /\ writer' = [writer EXCEPT ![t] = AtRest]
          /\ UNCHANGED <<rows, copies>>
      BY <1>1, <1>10 DEF ImportEnd
    <2>2. w.whole => Artifact(copies) \subseteq Artifact(rows)
      BY <1>2, <2>1, EmptyLists DEF Covers
    <2>3. PICK n : n = AtRest
      OBVIOUS
    <2>4. Covers(n)'
      BY <2>3, EmptyLists DEF Covers, AtRest
    <2>5. indexed' => indexed \/ Artifact(copies) \subseteq Artifact(rows)
      BY <2>1, <2>2
    <2> QED
      BY <2>1, <2>3, <2>4, <2>5, WriterCovers
  <1> QED
    BY <1>3, <1>4, <1>5, <1>6, <1>7, <1>8, <1>9, <1>10

-----------------------------------------------------------------------------
(* Steps of the backups.                                                    *)
Images(a) == Table(a.manifest.copies)

LEMMA KeeperShape ==
  ASSUME BackupsInv, NEW k, KeeperTyped(k)
  PROVE  /\ DOMAIN k = {"pc", "slot", "goal", "draft", "source", "calm"}
         /\ DOMAIN k.draft = {"made", "manifest", "members", "calm", "mixed",
                              "crossed", "kept", "stored"}
         /\ DOMAIN k.draft.manifest = {"log", "unended", "rows", "blobs", "copies"}
         /\ DOMAIN k.draft.members = {"log", "unended", "rows", "blobs", "copies"}
  BY DEF KeeperTyped, ArchiveTyped, ImageTyped

(* Thread t does k, and what the others list stays.                         *)
LEMMA ListingsMoved ==
  ASSUME BackupsInv, Listings, NEW t \in Threads, NEW k, Listing(k),
         \/ keeper' = Moved(t, k)
         \/ keeper' = [keeper EXCEPT ![t] = k],
         \A s \in Slots : Images(archive'[s])
  PROVE  Listings'
  <1>1. ASSUME NEW u \in Threads  PROVE  Listing(keeper'[u])
    <2>1. PICK o : o = keeper[u]
      OBVIOUS
    <2>2. Listing(o) /\ KeeperTyped(o) /\ DOMAIN keeper = Threads
      BY <2>1 DEF Listings, BackupsInv, KeeperSound
    <2>3. keeper'[u] \in {k, o, [o EXCEPT !.calm = FALSE]}
      BY <2>1, <2>2 DEF Moved
    <2>4. Listing([o EXCEPT !.calm = FALSE])
      BY <2>2, KeeperShape DEF Listing
    <2> QED
      BY <2>2, <2>3, <2>4
  <1> QED
    BY <1>1 DEF Listings, Listing, Images

LEMMA ListingsAlone ==
  ASSUME BackupsInv, Listings, NEW t \in Threads, Disturb(t), UNCHANGED archive
  PROVE  Listings'
  <1>1. PICK k : k = keeper[t]
    OBVIOUS
  <1>2. Listing(k) /\ keeper' = Moved(t, k)
    BY <1>1 DEF Listings, Disturb
  <1>3. \A s \in Slots : Images(archive'[s])
    BY DEF Listings, Images
  <1> QED
    BY <1>2, <1>3, ListingsMoved

LEMMA ListLists ==
  ASSUME BackupsInv, Listings, Imports, NEW t \in Threads, NEW slot, NEW goal,
         NEW source, Images(source), BackupList(t, slot, goal, source)
  PROVE  Listings'
  <1>1. PICK k : k = [pc |-> "hashing", slot |-> slot, goal |-> goal,
                      source |-> source, calm |-> Quiet,
                      draft |-> [NoArchive EXCEPT
                                   !.manifest = [NoImage EXCEPT
                                      !.blobs = blobs, !.copies = copies,
                                      !.log = lines, !.unended = unended]]]
    OBVIOUS
  <1>2. keeper' = [keeper EXCEPT ![t] = k] /\ UNCHANGED archive
    BY <1>1 DEF BackupList
  <1>3. k.draft.manifest.copies = copies
    BY <1>1 DEF NoArchive, NoImage
  <1>4. Listing(k)
    BY <1>1, <1>3 DEF Listing, Images, Imports
  <1>5. \A s \in Slots : Images(archive'[s])
    BY <1>2 DEF Listings, Images
  <1> QED
    BY <1>2, <1>4, <1>5, ListingsMoved

LEMMA HashLists ==
  ASSUME BackupsInv, Listings, NEW t \in Threads, BackupHash(t)
  PROVE  Listings'
  <1> DEFINE m == [NoImage EXCEPT !.blobs = blobs, !.copies = copies,
                                  !.log = lines, !.unended = unended]
  <1>1. PICK k : k = keeper[t]
    OBVIOUS
  <1>2. Listing(k) /\ KeeperTyped(k)
    BY <1>1 DEF Listings, BackupsInv, KeeperSound
  <1>3. PICK n : n = keeper'[t]
    OBVIOUS
  <1>4. /\ \A u \in Threads \ {t} : keeper'[u] = keeper[u]
        /\ UNCHANGED archive
    BY DEF BackupHash, BackupsInv
  <1>5. n = [keeper[t] EXCEPT
               !.pc = "copying",
               !.draft.manifest.rows = rows,
               !.draft.members = m,
               !.draft.mixed = mixed \/ Repairing,
               !.draft.kept = kept]
    BY <1>3 DEF BackupHash, BackupsInv
  <1> HIDE DEF m
  <1>6. n.source = k.source
    BY <1>1, <1>2, <1>5, KeeperShape
  <1>7. n.draft.manifest.copies = k.draft.manifest.copies
    <2>1. PICK p : p = (mixed \/ Repairing)
      OBVIOUS
    <2>2. n = [k EXCEPT !.pc = "copying", !.draft.manifest.rows = rows,
                        !.draft.members = m, !.draft.mixed = p, !.draft.kept = kept]
      BY <1>1, <1>5, <2>1
    <2>3. n.draft = [k.draft EXCEPT !.manifest.rows = rows, !.members = m,
                                    !.mixed = p, !.kept = kept]
      BY <1>2, <2>2, KeeperShape
    <2>4. n.draft.manifest = [k.draft.manifest EXCEPT !.rows = rows]
      BY <1>2, <2>3, KeeperShape
    <2> QED
      BY <1>2, <2>4, KeeperShape
  <1>8. Listing(n)
    BY <1>2, <1>6, <1>7 DEF Listing
  <1>9. \A u \in Threads : Listing(keeper'[u])
    BY <1>3, <1>4, <1>8 DEF Listings
  <1> QED
    BY <1>4, <1>9 DEF Listings, Listing

LEMMA CloseLists ==
  ASSUME BackupsInv, Listings, NEW t \in Threads, BackupClose(t)
  PROVE  Listings'
  <1>1. PICK k : k = keeper[t]
    OBVIOUS
  <1>2. PICK n : n = IF k.goal = "restore"
                     THEN [Away EXCEPT !.pc = "restoring", !.calm = Quiet,
                                       !.source = k.source]
                     ELSE Away
    OBVIOUS
  <1>3. PICK d : d = [k.draft EXCEPT !.members.rows = rows, !.made = TRUE,
                                     !.calm = k.calm /\ ~partial,
                                     !.crossed = crossed, !.stored = stored]
    OBVIOUS
  <1>4. /\ keeper' = [keeper EXCEPT ![t] = n]
        /\ archive' = [archive EXCEPT ![k.slot] = d]
    BY <1>1, <1>2, <1>3 DEF BackupClose
  <1>5. Listing(k) /\ KeeperTyped(k)
    BY <1>1 DEF Listings, BackupsInv, KeeperSound
  <1>6. d.manifest = k.draft.manifest
    BY <1>3, <1>5, KeeperShape
  <1>7. Listing(n)
    <2>1. n = Away \/ (n.source = k.source /\ n.draft = Away.draft)
      BY <1>2 DEF Away
    <2> QED
      BY <1>5, <2>1, EmptyLists DEF Listing
  <1>8. ASSUME NEW s \in Slots  PROVE  Images(archive'[s])
    <2>1. archive'[s] = d \/ archive'[s] = archive[s]
      BY <1>4 DEF BackupsInv
    <2>2. Images(d)
      BY <1>5, <1>6 DEF Images, Listing
    <2>3. Images(archive[s])
      BY DEF Listings, Images
    <2> QED
      BY <2>1, <2>2, <2>3
  <1> QED
    BY <1>4, <1>7, <1>8, ListingsMoved

LEMMA RestoreLists ==
  ASSUME BackupsInv, Listings, Imports, NEW t \in Threads, NEW safety \in BOOLEAN,
         RestoreBegin(t, safety)
  PROVE  Listings'
  <1>1. PICK a : a = archive["backup"]
    OBVIOUS
  <1>2. Images(a)
    BY <1>1 DEF Listings, Images, Slots
  <1>3. CASE safety
    BY <1>1, <1>2, <1>3, ListLists DEF RestoreBegin
  <1>4. CASE ~safety
    <2>1. PICK n : n = [Away EXCEPT !.pc = "restoring", !.calm = Quiet, !.source = a]
      OBVIOUS
    <2>2. keeper' = [keeper EXCEPT ![t] = n] /\ UNCHANGED archive
      BY <1>1, <1>4, <2>1 DEF RestoreBegin
    <2>3. n.source = a /\ n.draft = Away.draft
      BY <2>1 DEF Away
    <2>4. Listing(n)
      BY <1>2, <2>3, EmptyLists DEF Listing, Images
    <2>5. \A s \in Slots : Images(archive'[s])
      BY <2>2 DEF Listings, Images
    <2> QED
      BY <2>2, <2>4, <2>5, ListingsMoved
  <1> QED
    BY <1>3, <1>4

(* The imports go on, but what they have seen is not all there is.          *)
LEMMA NoLongerWhole ==
  ASSUME StoreTyped, Imports, Table(copies)', indexed' = FALSE,
         writer' = [u \in Threads |-> [writer[u] EXCEPT !.whole = FALSE]]
  PROVE  Imports'
  <1>1. ASSUME NEW u \in Threads  PROVE  Covers(writer[u])'
    <2>1. PICK w : w = writer[u]
      OBVIOUS
    <2>2. PICK n : n = [w EXCEPT !.whole = FALSE]
      OBVIOUS
    <2>3. writer'[u] = n
      BY <2>1, <2>2
    <2>4. /\ n.pc = w.pc /\ n.import = w.import /\ n.todo = w.todo
          /\ n.artifact = w.artifact /\ ~n.whole
      BY <2>1, <2>2 DEF StoreTyped
    <2>5. Covers(w)
      BY <2>1 DEF Imports
    <2> QED
      BY <2>3, <2>4, <2>5 DEF Covers
  <1> QED
    BY <1>1 DEF Imports

LEMMA RestoredTable ==
  ASSUME NEW m, Table(copies), Table(m.copies)
  PROVE  Table(RestoredCopies(m))
  <1> DEFINE R == {m.copies[i] : i \in DOMAIN m.copies}
             T == {i \in DOMAIN copies : copies[i] \notin R}
  <1>1. T \in SUBSET (DOMAIN copies)
    OBVIOUS
  <1>2. RestoredCopies(m) = Sublist(copies, T) \o m.copies
    BY DEF RestoredCopies
  <1> HIDE DEF T
  <1>3. Table(Sublist(copies, T))
    BY <1>1, PartTable
  <1> QED
    BY <1>2, <1>3, JoinedTable

LEMMA RestoringCovers ==
  ASSUME BackupsInv, StoreTyped, Imports, Listings, NEW t \in Threads,
         RestoreFiles(t) \/ RestoreDatabase(t) \/ RestoreBlobs(t)
  PROVE  Imports' /\ Listings'
  <1>1. PICK k : k = keeper[t]
    OBVIOUS
  <1>2. Listing(k) /\ KeeperTyped(k)
    BY <1>1 DEF Listings, BackupsInv, KeeperSound
  <1>3. PICK n : /\ n \in {[k EXCEPT !.pc = "database"], [k EXCEPT !.pc = "blobs"], Away}
                 /\ keeper' = Moved(t, n)
                 /\ UNCHANGED archive
    BY <1>1 DEF RestoreFiles, RestoreDatabase, RestoreBlobs
  <1>4. Listing(n)
    <2>1. n = Away \/ (n.source = k.source /\ n.draft = k.draft)
      BY <1>2, <1>3, KeeperShape
    <2> QED
      BY <1>2, <2>1, EmptyLists DEF Listing
  <1>5. Listings'
    <2>1. \A s \in Slots : Images(archive'[s])
      BY <1>3 DEF Listings, Images
    <2> QED
      BY <1>3, <1>4, <2>1, ListingsMoved
  <1>6. CASE RestoreFiles(t)
    <2>1. /\ copies' = RestoredCopies(k.source.manifest)
          /\ indexed' = FALSE
          /\ writer' = [u \in Threads |-> [writer[u] EXCEPT !.whole = FALSE]]
      BY <1>1, <1>6 DEF RestoreFiles
    <2>2. PICK m : m = k.source.manifest
      OBVIOUS
    <2>3. Table(RestoredCopies(m))
      BY <1>2, <2>2, RestoredTable DEF Listing, Imports
    <2>4. PICK c : c = RestoredCopies(m)
      OBVIOUS
    <2>5. Table(c) /\ copies' = c
      BY <2>1, <2>2, <2>3, <2>4
    <2>6. Table(copies)'
      BY <2>5 DEF Table
    <2> QED
      BY <1>5, <2>1, <2>6, NoLongerWhole
  <1>7. CASE RestoreDatabase(t)
    <2>1. /\ copies' = copies
          /\ indexed' = FALSE
          /\ writer' = [u \in Threads |-> [writer[u] EXCEPT !.whole = FALSE]]
      BY <1>1, <1>7 DEF RestoreDatabase
    <2>2. Table(copies)'
      BY <2>1 DEF Imports, Table
    <2> QED
      BY <1>5, <2>1, <2>2, NoLongerWhole
  <1>8. CASE RestoreBlobs(t)
    <2>1. UNCHANGED <<rows, copies, writer, indexed>>
      BY <1>8 DEF RestoreBlobs
    <2> QED
      BY <1>5, <2>1 DEF Imports, Covers
  <1> QED
    BY <1>6, <1>7, <1>8

(* An import dies with its process, and its list with it.                   *)
LEMMA DeathCovers ==
  ASSUME BackupsInv, Imports, Listings, NEW t \in Threads, StoreDie(t), BackupDie(t)
  PROVE  Imports' /\ Listings'
  <1>1. /\ UNCHANGED <<rows, copies, indexed, archive>>
        /\ \A u \in Threads : writer'[u] = AtRest \/ writer'[u] = writer[u]
        /\ \A u \in Threads : keeper'[u] = Away \/ keeper'[u] = keeper[u]
    BY DEF StoreDie, BackupDie
  <1>2. ASSUME NEW u \in Threads  PROVE  Covers(writer[u])'
    <2>1. PICK n : n = writer'[u]
      OBVIOUS
    <2>2. Covers(n)
      BY <1>1, <2>1, EmptyLists DEF Imports
    <2> QED
      BY <1>1, <2>1, <2>2 DEF Covers
  <1>3. \A u \in Threads : Listing(keeper'[u])
    BY <1>1, EmptyLists DEF Listings
  <1>4. Imports'
    BY <1>1, <1>2 DEF Imports
  <1> QED
    BY <1>1, <1>3, <1>4 DEF Listings, Listing

LEMMA ResetCovers ==
  ASSUME BackupsInv, Imports, Listings, Reset
  PROVE  Imports' /\ Listings'
  <1>1. /\ copies' = <<>>
        /\ archive' = [archive EXCEPT !["safety"] = NoArchive]
        /\ UNCHANGED <<writer, keeper>>
    BY DEF Reset, ResetFiles
  <1>2. Imports'
    BY <1>1, EmptyLists DEF Imports, Covers
  <1>3. ASSUME NEW s \in Slots  PROVE  Images(archive'[s])
    <2>1. archive'[s] = NoArchive \/ archive'[s] = archive[s]
      BY <1>1 DEF BackupsInv
    <2>2. Images(NoArchive) /\ Images(archive[s])
      BY EmptyLists DEF Listings, Images
    <2> QED
      BY <2>1, <2>2
  <1> QED
    BY <1>1, <1>2, <1>3 DEF Listings, Listing, Images

LEMMA IndexNext ==
  ASSUME RecordsInv, StoreInv, Imports, Listings, [Next]_vars
  PROVE  Imports' /\ Listings'
  <1>1. BackupsInv /\ StoreTyped
    BY DEF RecordsInv, StoreInv
  <1>2. Images(NoArchive)
    BY EmptyLists DEF Images
  <1>3. ASSUME UNCHANGED store  PROVE  Imports'
    BY <1>3 DEF store, Imports, Covers
  <1>4. ASSUME UNCHANGED backup  PROVE  Listings'
    BY <1>4 DEF backup, Listings, Listing
  <1>5. ASSUME NEW t \in Threads, Start(t)  PROVE  Imports' /\ Listings'
    BY <1>1, <1>5, StoreCovers, ListingsAlone DEF Start
  <1>6. ASSUME NEW t \in Threads, Started(t)  PROVE  Imports' /\ Listings'
    BY <1>1, <1>6, StoreCovers, ListingsAlone DEF Started
  <1>7. ASSUME NEW t \in Threads, Stop(t)  PROVE  Imports' /\ Listings'
    BY <1>3, <1>4, <1>7 DEF Stop
  <1>8. ASSUME NEW t \in Threads, WriteResult(t) \/ WriteFile(t)
        PROVE  Imports' /\ Listings'
    <2>1. /\ \E a \in Artifacts : WriteBegin(t, a) \/ FileWriteBegin(t, a)
          /\ Disturb(t) /\ UNCHANGED archive
      BY <1>8 DEF WriteResult, WriteFile
    <2> QED
      BY <1>1, <2>1, StoreCovers, ListingsAlone
  <1>9. ASSUME NEW t \in Threads, StoreProgress(t)  PROVE  Imports' /\ Listings'
    <2>1. /\ \/ WriteInsert(t) \/ WriteCopy(t) \/ FileWriteEnd(t)
             \/ ImportSkip(t) \/ ImportWrite(t)
          /\ Disturb(t) /\ UNCHANGED archive
      BY <1>9 DEF StoreProgress
    <2> QED
      BY <1>1, <2>1, StoreCovers, ListingsAlone
  <1>10. ASSUME NEW t \in Threads, LogEvent(t) \/ Repair(t) \/ RepairProgress(t)
         PROVE  Imports' /\ Listings'
    <2>1. Disturb(t) /\ UNCHANGED store /\ UNCHANGED archive
      BY <1>10 DEF LogEvent, Repair, RepairProgress
    <2> QED
      BY <1>1, <1>3, <2>1, ListingsAlone
  <1>11. ASSUME NEW t \in Threads, Backup(t)  PROVE  Imports' /\ Listings'
    <2>1. BackupList(t, "backup", "backup", NoArchive)
      BY <1>11 DEF Backup
    <2>2. UNCHANGED store
      BY <2>1 DEF BackupList
    <2> QED
      BY <1>1, <1>2, <1>3, <2>1, <2>2, ListLists
  <1>12. ASSUME NEW t \in Threads, Restore(t)  PROVE  Imports' /\ Listings'
    <2>1. PICK safety \in BOOLEAN : RestoreBegin(t, safety)
      BY <1>12 DEF Restore
    <2>2. UNCHANGED store
      BY <2>1 DEF RestoreBegin, BackupList
    <2> QED
      BY <1>1, <1>3, <2>1, <2>2, RestoreLists
  <1>13. ASSUME NEW t \in Threads, BackupProgress(t)  PROVE  Imports' /\ Listings'
    <2>1. CASE BackupHash(t)
      <3>1. UNCHANGED store
        BY <2>1 DEF BackupHash
      <3> QED
        BY <1>1, <1>3, <2>1, <3>1, HashLists
    <2>2. CASE BackupClose(t)
      <3>1. UNCHANGED store
        BY <2>2 DEF BackupClose
      <3> QED
        BY <1>1, <1>3, <2>2, <3>1, CloseLists
    <2>3. CASE RestoreFiles(t) \/ RestoreDatabase(t) \/ RestoreBlobs(t)
      BY <1>1, <2>3, RestoringCovers
    <2> QED
      BY <1>13, <2>1, <2>2, <2>3 DEF BackupProgress
  <1>14. ASSUME NEW t \in Threads, Death(t)  PROVE  Imports' /\ Listings'
    BY <1>1, <1>14, DeathCovers DEF Death
  <1>15. CASE Reset
    BY <1>1, <1>15, ResetCovers
  <1>16. CASE UNCHANGED vars
    BY <1>3, <1>4, <1>16 DEF vars
  <1> QED
    BY <1>5, <1>6, <1>7, <1>8, <1>9, <1>10, <1>11, <1>12, <1>13, <1>14, <1>15,
       <1>16 DEF Next

LEMMA IndexAlways == Spec => [](Imports /\ Listings)
  <1>1. RecordsInv /\ StoreInv /\ (Imports /\ Listings) /\ [Next]_vars
          => (Imports /\ Listings)'
    BY IndexNext
  <1> QED
    BY <1>1, InitIndex, RecordsAlways, StoreAlways, PTL DEF Spec

(* Once an import has gone over every file in managed/artifacts, each of    *)
(* them has a row in the table, until a file is added past the store or a   *)
(* restore puts files back: whatever imports and writes ran beside it, and  *)
(* whichever process died (migrate_legacy_artifacts, which lists the files  *)
(* once and looks each up later).                                           *)
THEOREM FilesAreIndexed == Spec => []FilesIndexed
  <1>1. Imports /\ Listings => FilesIndexed
    BY DEF Imports, Artifact, FilesIndexed, Copied, Rowed
  <1> QED
    BY <1>1, IndexAlways, PTL
=============================================================================
