--------------------------- MODULE InstallProofs ----------------------------
(***************************************************************************)
(* Proofs about Install. The key setups: a pair of keys that proves is       *)
(* replaced by force only, the two files of a pair are of one setup, the     *)
(* manifests record the keys on disk, and a ceremony transcript that does is *)
(* the manifests. The commands: one that runs alone leaves a healthy         *)
(* instance, or failed at a residue that nothing removes.                   *)
(***************************************************************************)
EXTENDS Install, TLAPS

-----------------------------------------------------------------------------
Pair == [pk : Nat, vk : Nat]

ManifestOf(s) == [torn : BOOLEAN, writes : Nat,
                  entry : [Range(CircuitsOf(s)) -> Pair]]

Manifests == UNION {ManifestOf(s) : s \in Suites}

Pcs == {"idle", "check", "pk", "vk", "record", "truncate", "write", "raised"}

LocalState == [pc : Pcs, suite : Suites, left : Seq(Circuits), force : BOOLEAN,
               ran : BOOLEAN, rebuild : BOOLEAN, key : Nat, doc : Manifests]

(* The loop is over circuits of its suite, and has one in hand while it     *)
(* makes a key or writes an entry.                                          *)
LocalOK(l) ==
  /\ l \in LocalState
  /\ l.left \in Seq(Range(CircuitsOf(l.suite)))
  /\ l.doc \in ManifestOf(l.suite)
  /\ l.pc \in {"pk", "vk", "truncate", "write"} => l.left # <<>>

Typed ==
  /\ keys \in [Circuits -> Pair]
  /\ manifest \in [Suites -> Manifests]
  /\ \A s \in Suites : manifest[s] \in ManifestOf(s)
  /\ setups \in [Circuits -> Nat]
  /\ setup \in [Procs -> LocalState]
  /\ \A p \in Procs : LocalOK(setup[p])
  /\ faults \in Nat
  /\ crossed \in BOOLEAN

-----------------------------------------------------------------------------
(* What a step of Install is to the keys.                                   *)
Drops(p) ==
  /\ setup' = [setup EXCEPT ![p] = Idle]
  /\ \/ faults' = faults /\ (Returns(p) \/ setup[p].pc = "raised")
     \/ faults' = faults + 1
  /\ UNCHANGED <<keys, manifest, setups, crossed>>

ZkNext ==
  \/ UNCHANGED zkVars
  \/ \E p \in Procs : \/ \E s \in Suites, force \in BOOLEAN : SetupBegin(p, s, force)
                      \/ SetupStep(p)
                      \/ Drops(p)
  \/ \E c \in Circuits : LoseKey(c)

LEMMA StepsOfKeys == [Next]_vars => ZkNext
  <1> SUFFICES ASSUME [Next]_vars PROVE ZkNext
    OBVIOUS
  <1>1. CASE UNCHANGED vars
    BY <1>1 DEF vars, ZkNext, zkVars
  <1>2. ASSUME NEW p \in Procs, NEW s \in Suites, ZkBegin(p, s)
        PROVE  ZkNext
    <2>1. Forces(run[p].command) \in BOOLEAN
      BY DEF Forces
    <2> QED
      BY <1>2, <2>1 DEF ZkBegin, ZkNext
  <1>3. ASSUME NEW p \in Procs, ZkStep(p)
        PROVE  ZkNext
    BY <1>3 DEF ZkStep, ZkNext
  <1>4. ASSUME NEW p \in Procs, ZkReturn(p) \/ Die(p)
        PROVE  ZkNext
    <2>1. Drops(p)
      BY <1>4 DEF ZkReturn, Die, Drops
    <2> QED
      BY <2>1 DEF ZkNext
  <1>5. ASSUME NEW p \in Procs,
               \/ \E c \in DOMAIN Plan : Start(p, c)
               \/ PolicyStep(p) \/ LoadRuntime(p)
               \/ CheckHealth(p) \/ InstallCollect(p) \/ IntegrationsRead(p)
               \/ InstallTruncate(p) \/ InstallWrite(p) \/ WriteTranscript(p)
               \/ SmokeDoctor(p) \/ SmokeVerify(p)
        PROVE  ZkNext
    <2>1. UNCHANGED zkVars
      BY <1>5 DEF Start, PolicyStep, LoadRuntime, CheckHealth, InstallCollect,
           IntegrationsRead, InstallTruncate, InstallWrite, WriteTranscript,
           SmokeDoctor, SmokeVerify
    <2> QED
      BY <2>1 DEF ZkNext
  <1>6. ASSUME NEW c \in Circuits, Lose(c)
        PROVE  ZkNext
    BY <1>6 DEF Lose, ZkNext
  <1> QED
    BY <1>1, <1>2, <1>3, <1>4, <1>5, <1>6 DEF Next

-----------------------------------------------------------------------------
LEMMA CircuitsOfSuites ==
  /\ \A s \in Suites : /\ CircuitsOf(s) \in Seq(Range(CircuitsOf(s)))
                       /\ Range(CircuitsOf(s)) \subseteq Circuits
                       /\ CircuitsOf(s) \in Seq(Circuits)
                       /\ \A c \in Range(CircuitsOf(s)) : SuiteOf(c) = s
  /\ \A c \in Circuits : SuiteOf(c) \in Suites /\ c \in Range(CircuitsOf(SuiteOf(c)))
  <1>1. /\ Governance \in Seq(Range(Governance))
        /\ Entity \in Seq(Range(Entity))
        /\ Range(Governance) \cap Range(Entity) = {}
    BY ZkKeysAssumption
  <1>2. ASSUME NEW s \in Suites
        PROVE  /\ CircuitsOf(s) \in Seq(Range(CircuitsOf(s)))
               /\ Range(CircuitsOf(s)) \subseteq Circuits
               /\ \A c \in Range(CircuitsOf(s)) : SuiteOf(c) = s
    BY <1>1 DEF Suites, CircuitsOf, Circuits, SuiteOf
  <1>3. ASSUME NEW s \in Suites
        PROVE  CircuitsOf(s) \in Seq(Circuits)
    BY <1>2
  <1>4. \A c \in Circuits : SuiteOf(c) \in Suites /\ c \in Range(CircuitsOf(SuiteOf(c)))
    BY DEF Suites, CircuitsOf, Circuits, SuiteOf
  <1> QED
    BY <1>2, <1>3, <1>4

LEMMA NoManifestType ==
  ASSUME NEW s \in Suites
  PROVE  NoManifest(s) \in ManifestOf(s) /\ NoManifest(s) \in Manifests
  BY DEF NoManifest, ManifestOf, Manifests, Absent, Pair

LEMMA EntryChanged ==
  ASSUME NEW s, NEW m \in ManifestOf(s), NEW e \in [Range(CircuitsOf(s)) -> Pair]
  PROVE  [m EXCEPT !.writes = m.writes + 1, !.entry = e] \in ManifestOf(s)
  <1> DEFINE R == [Range(CircuitsOf(s)) -> Pair]
  <1>1. m \in [torn : BOOLEAN, writes : Nat, entry : R] /\ e \in R
    BY DEF ManifestOf
  <1>2. m.writes + 1 \in Nat
    BY <1>1
  <1>3. ASSUME NEW n \in Nat
        PROVE  [m EXCEPT !.writes = n, !.entry = e]
                 \in [torn : BOOLEAN, writes : Nat, entry : R]
    <2> HIDE DEF R
    <2> QED
      BY <1>1
  <1> QED
    BY <1>2, <1>3 DEF ManifestOf

LEMMA IdleOK == LocalOK(Idle)
  <1>1. "governance" \in Suites
    BY DEF Suites
  <1> QED
    BY <1>1, NoManifestType DEF Idle, LocalOK, LocalState, Pcs

LEMMA HeadAndTail ==
  ASSUME NEW S, NEW q \in Seq(S), q # <<>>
  PROVE  Head(q) \in S /\ Tail(q) \in Seq(S)
  OBVIOUS

(* The circuit in hand, and the loop after it.                              *)
LEMMA LoopFacts ==
  ASSUME NEW l, LocalOK(l), l.left # <<>>
  PROVE  /\ Head(l.left) \in Range(CircuitsOf(l.suite))
         /\ Head(l.left) \in Circuits
         /\ SuiteOf(Head(l.left)) = l.suite
         /\ Tail(l.left) \in Seq(Range(CircuitsOf(l.suite)))
         /\ Tail(l.left) \in Seq(Circuits)
  <1>1. l.suite \in Suites /\ l.left \in Seq(Circuits)
    BY DEF LocalOK, LocalState
  <1>2. l.left \in Seq(Range(CircuitsOf(l.suite)))
    BY DEF LocalOK
  <1>3. /\ Head(l.left) \in Range(CircuitsOf(l.suite))
        /\ Tail(l.left) \in Seq(Range(CircuitsOf(l.suite)))
    BY <1>2, HeadAndTail
  <1>4. Head(l.left) \in Circuits /\ Tail(l.left) \in Seq(Circuits)
    BY <1>1, HeadAndTail
  <1>5. SuiteOf(Head(l.left)) = l.suite
    BY <1>1, <1>3, CircuitsOfSuites
  <1> QED
    BY <1>3, <1>4, <1>5

LEMMA InitTyped == Init => Typed
  <1> SUFFICES ASSUME Init PROVE Typed
    OBVIOUS
  <1>1. PICK old \in OldKeys : ZkInit(old)
    BY DEF Init
  <1>2. old \in Pair
    BY <1>1, InstallAssumption DEF Absent, Vendor, Pair
  <1>3. ASSUME NEW s \in Suites
        PROVE  /\ manifest[s] \in ManifestOf(s)
               /\ manifest[s] = [NoManifest(s) EXCEPT !.entry = [c \in DOMAIN @ |-> old]]
    BY <1>1, <1>2 DEF ZkInit, NoManifest, ManifestOf
  <1>4. manifest \in [Suites -> Manifests]
    BY <1>1, <1>3 DEF ZkInit, Manifests
  <1>5. keys \in [Circuits -> Pair] /\ setups \in [Circuits -> Nat] /\ faults \in Nat
        /\ crossed \in BOOLEAN
    BY <1>1, <1>2 DEF ZkInit
  <1>6. setup = [p \in Procs |-> Idle]
    BY <1>1 DEF ZkInit
  <1>7. setup \in [Procs -> LocalState] /\ \A p \in Procs : LocalOK(setup[p])
    BY <1>6, IdleOK DEF LocalOK
  <1> QED
    BY <1>3, <1>4, <1>5, <1>7 DEF Typed

(* A step that moves one process to a proper state, and keeps the types of  *)
(* the files, keeps the types.                                              *)
LEMMA MoveTyped ==
  ASSUME Typed, NEW p \in Procs, NEW l, LocalOK(l), setup' = [setup EXCEPT ![p] = l]
  PROVE  setup' \in [Procs -> LocalState] /\ \A q \in Procs : LocalOK(setup'[q])
  BY DEF Typed, LocalOK

LEMMA GotoTyped ==
  ASSUME Typed, NEW p \in Procs, NEW pc \in Pcs, Goto(p, pc),
         pc \in {"pk", "vk", "truncate", "write"} => setup[p].left # <<>>
  PROVE  setup' \in [Procs -> LocalState] /\ \A q \in Procs : LocalOK(setup'[q])
  <1>1. LocalOK(setup[p])
    BY DEF Typed
  <1>2. LocalOK([setup[p] EXCEPT !.pc = pc])
    BY <1>1 DEF LocalOK, LocalState
  <1>3. setup' = [setup EXCEPT ![p] = [setup[p] EXCEPT !.pc = pc]]
    BY DEF Goto
  <1> QED
    BY <1>2, <1>3, MoveTyped

LEMMA NextCircuitOK ==
  ASSUME NEW p \in Procs, NEW l, LocalOK(l), l.left # <<>>
  PROVE  /\ LocalOK(NextCircuit(p, l))
         /\ NextCircuit(p, l).pc \in {"record", "check"}
         /\ NextCircuit(p, l).rebuild = l.rebuild
         /\ l.rebuild <=> NextCircuit(p, l).pc = "record"
  <1> DEFINE n == NextCircuit(p, l)
  <1>1. l.suite \in Suites /\ NoManifest(l.suite) \in ManifestOf(l.suite)
        /\ NoManifest(l.suite) \in Manifests
    BY NoManifestType DEF LocalOK, LocalState
  <1>2. Tail(l.left) \in Seq(Circuits) /\ Tail(l.left) \in Seq(Range(CircuitsOf(l.suite)))
    BY LoopFacts
  <1>3. l \in LocalState
    BY DEF LocalOK
  <1>4. n \in LocalState /\ n.left = Tail(l.left) /\ n.suite = l.suite
        /\ n.doc = NoManifest(l.suite) /\ n.pc \in {"record", "check"}
        /\ n.rebuild = l.rebuild /\ (l.rebuild <=> n.pc = "record")
    <2> DEFINE After(pc) == [l EXCEPT !.left = Tail(l.left), !.pc = pc, !.key = 0,
                                      !.doc = NoManifest(l.suite)]
    <2>1. ASSUME NEW pc \in {"record", "check"}
          PROVE  /\ After(pc) \in LocalState /\ After(pc).left = Tail(l.left)
                 /\ After(pc).suite = l.suite
                 /\ After(pc).doc = NoManifest(l.suite) /\ After(pc).pc = pc
                 /\ After(pc).rebuild = l.rebuild
      BY <1>1, <1>2, <1>3 DEF LocalState, Pcs
    <2>2. n = IF l.rebuild THEN After("record") ELSE After("check")
      <3>1. CASE l.rebuild
        BY <3>1 DEF NextCircuit
      <3>2. CASE ~l.rebuild
        BY <3>2 DEF NextCircuit
      <3> QED
        BY <3>1, <3>2
    <2> HIDE DEF After
    <2> QED
      BY <2>1, <2>2
  <1> QED
    BY <1>1, <1>2, <1>4 DEF LocalOK

(* No step of a setup but those named changes the number of setups, the     *)
(* keys or the manifests.                                                   *)
LEMMA SetupTyped ==
  ASSUME Typed, NEW p \in Procs, SetupStep(p)
  PROVE  Typed'
  <1> DEFINE l == setup[p]
             c == Current(p)
  <1>1. LocalOK(l) /\ l \in LocalState /\ l.suite \in Suites /\ l.force \in BOOLEAN
    BY DEF Typed, LocalOK, LocalState
  <1>2. l.left # <<>> =>
          /\ c \in Range(CircuitsOf(l.suite)) /\ c \in Circuits
          /\ Tail(l.left) \in Seq(Range(CircuitsOf(l.suite)))
          /\ Tail(l.left) \in Seq(Circuits)
    BY <1>1, LoopFacts DEF Current
  <1> HIDE DEF l, c
  <1>3. CASE SetupPresent(p)
    <2>1. LocalOK([l EXCEPT !.left = Tail(@)])
      BY <1>1, <1>2, <1>3 DEF SetupPresent, LocalOK, LocalState, l
    <2>2. setup' = [setup EXCEPT ![p] = [l EXCEPT !.left = Tail(@)]]
      BY <1>3 DEF SetupPresent, l
    <2> QED
      BY <1>3, <2>1, <2>2, MoveTyped DEF SetupPresent, Typed
  <1>4. CASE SetupProve(p)
    <2>1. setups' \in [Circuits -> Nat] /\ setups'[c] \in Nat
      BY <1>2, <1>4 DEF SetupProve, Typed, l, c
    <2>2. LocalOK([l EXCEPT !.pc = "pk", !.key = setups'[c]])
      BY <1>1, <1>4, <2>1 DEF SetupProve, LocalOK, LocalState, Pcs, l
    <2>3. setup' = [setup EXCEPT ![p] = [l EXCEPT !.pc = "pk", !.key = setups'[c]]]
      <3> DEFINE k == setups'[Current(p)]
      <3>1. setup' = [setup EXCEPT ![p].pc = "pk", ![p].key = k]
        BY <1>4, Zenon DEF SetupProve
      <3>2. k = setups'[c]
        BY DEF c
      <3> HIDE DEF k
      <3> QED
        BY <3>1, <3>2 DEF Typed, l
    <2> QED
      BY <1>4, <2>1, <2>2, <2>3, MoveTyped DEF SetupProve, Typed
  <1>5. CASE SetupPk(p)
    <2>1. keys' \in [Circuits -> Pair]
      BY <1>1, <1>5 DEF SetupPk, Typed, Pair, LocalState, l
    <2>2. setup' \in [Procs -> LocalState] /\ \A q \in Procs : LocalOK(setup'[q])
      BY <1>1, <1>5, GotoTyped DEF SetupPk, LocalOK, Pcs, l
    <2> QED
      BY <1>5, <2>1, <2>2 DEF SetupPk, Typed
  <1>6. CASE SetupVk(p)
    <2>1. keys' \in [Circuits -> Pair]
      BY <1>1, <1>6 DEF SetupVk, Typed, Pair, LocalState, l
    <2>2. LocalOK([l EXCEPT !.pc = "record", !.ran = TRUE])
      BY <1>1, <1>6 DEF SetupVk, LocalOK, LocalState, Pcs, l
    <2>3. setup' = [setup EXCEPT ![p] = [l EXCEPT !.pc = "record", !.ran = TRUE]]
      BY <1>6 DEF SetupVk, l
    <2> QED
      BY <1>6, <2>1, <2>2, <2>3, MoveTyped DEF SetupVk, Typed
  <1>7. CASE SetupFails(p) \/ RecordFails(p) \/ RebuildFails(p)
    <2>1. Goto(p, "raised") /\ UNCHANGED <<keys, manifest, setups, crossed>>
          /\ faults' \in Nat
      BY <1>7 DEF SetupFails, RecordFails, RebuildFails, Typed
    <2>2. setup' \in [Procs -> LocalState] /\ \A q \in Procs : LocalOK(setup'[q])
      BY <2>1, GotoTyped DEF Pcs
    <2> QED
      BY <2>1, <2>2 DEF Typed
  <1>8. CASE RecordSkips(p)
    <2>1. LocalOK(NextCircuit(p, l))
      BY <1>1, <1>8, NextCircuitOK DEF RecordSkips, Recording, l
    <2>2. setup' = [setup EXCEPT ![p] = NextCircuit(p, l)]
      BY <1>8 DEF RecordSkips, l
    <2> QED
      BY <1>8, <2>1, <2>2, MoveTyped DEF RecordSkips, Typed
  <1>9. CASE RecordReads(p)
    <2> DEFINE d == [manifest[l.suite] EXCEPT !.writes = @ + 1, !.entry[c] = keys[c]]
    <2>1. c \in Range(CircuitsOf(l.suite)) /\ c \in Circuits /\ l.left # <<>>
      BY <1>2, <1>9 DEF RecordReads, Recording, l
    <2>2. manifest[l.suite] \in ManifestOf(l.suite) /\ keys[c] \in Pair
      BY <1>1, <2>1 DEF Typed
    <2>3. d \in ManifestOf(l.suite)
      <3>1. [manifest[l.suite].entry EXCEPT ![c] = keys[c]]
              \in [Range(CircuitsOf(l.suite)) -> Pair]
        BY <2>1, <2>2 DEF ManifestOf
      <3>2. d = [manifest[l.suite] EXCEPT
                   !.writes = manifest[l.suite].writes + 1,
                   !.entry = [manifest[l.suite].entry EXCEPT ![c] = keys[c]]]
        BY <2>2 DEF ManifestOf
      <3> HIDE DEF d
      <3> QED
        BY <2>2, <3>1, <3>2, EntryChanged
    <2>4. d \in Manifests
      BY <1>1, <2>3 DEF Manifests
    <2>5. setup' = [setup EXCEPT ![p] = [l EXCEPT !.pc = "truncate", !.doc = d]]
      BY <1>9 DEF RecordReads, l, c
    <2> HIDE DEF d
    <2>6. LocalOK([l EXCEPT !.pc = "truncate", !.doc = d])
      BY <1>1, <2>1, <2>3, <2>4 DEF LocalOK, LocalState, Pcs
    <2> QED
      BY <1>9, <2>5, <2>6, MoveTyped DEF RecordReads, Typed
  <1>10. CASE RecordTruncates(p)
    <2> DEFINE d == [manifest[l.suite] EXCEPT !.torn = TRUE]
    <2>1. manifest' = [manifest EXCEPT ![l.suite] = d]
      BY <1>10 DEF RecordTruncates, l
    <2>2. d \in ManifestOf(l.suite)
      BY <1>1 DEF Typed, ManifestOf
    <2>3. d \in Manifests
      BY <1>1, <2>2 DEF Manifests
    <2> HIDE DEF d
    <2>4. manifest' \in [Suites -> Manifests]
          /\ \A s \in Suites : manifest'[s] \in ManifestOf(s)
      BY <1>1, <2>1, <2>2, <2>3 DEF Typed
    <2>5. setup' \in [Procs -> LocalState] /\ \A q \in Procs : LocalOK(setup'[q])
      BY <1>1, <1>10, GotoTyped DEF RecordTruncates, LocalOK, Pcs, l
    <2> QED
      BY <1>10, <2>4, <2>5 DEF RecordTruncates, Typed
  <1>11. CASE RecordWrites(p)
    <2>1. l.doc \in ManifestOf(l.suite) /\ l.doc \in Manifests /\ l.left # <<>>
      BY <1>1, <1>11 DEF RecordWrites, LocalOK, LocalState, l
    <2>2. manifest' \in [Suites -> Manifests]
          /\ \A s \in Suites : manifest'[s] \in ManifestOf(s)
      BY <1>1, <1>11, <2>1 DEF RecordWrites, Typed, l
    <2>3. LocalOK(NextCircuit(p, l))
      BY <1>1, <2>1, NextCircuitOK
    <2>4. setup' = [setup EXCEPT ![p] = NextCircuit(p, l)]
      BY <1>11 DEF RecordWrites, l
    <2> QED
      BY <1>11, <2>2, <2>3, <2>4, MoveTyped DEF RecordWrites, Typed
  <1>12. CASE RebuildBegin(p)
    <2> DEFINE n == [l EXCEPT !.pc = "record", !.rebuild = TRUE,
                              !.left = CircuitsOf(l.suite)]
    <2>1. LocalOK(n)
      BY <1>1, CircuitsOfSuites DEF LocalOK, LocalState, Pcs
    <2>2. setup' = [setup EXCEPT ![p] = n]
      BY <1>12 DEF RebuildBegin, l
    <2> HIDE DEF n
    <2> QED
      BY <1>12, <2>1, <2>2, MoveTyped DEF RebuildBegin, Typed
  <1> QED
    BY <1>3, <1>4, <1>5, <1>6, <1>7, <1>8, <1>9, <1>10, <1>11, <1>12 DEF SetupStep

LEMMA StepTyped ==
  ASSUME Typed, [Next]_vars
  PROVE  Typed'
  <1>1. CASE UNCHANGED zkVars
    BY <1>1 DEF zkVars, Typed
  <1>2. ASSUME NEW p \in Procs, NEW s \in Suites, NEW force \in BOOLEAN,
               SetupBegin(p, s, force)
        PROVE  Typed'
    <2> DEFINE n == [Idle EXCEPT !.pc = "check", !.suite = s,
                       !.left = CircuitsOf(s), !.force = force, !.doc = NoManifest(s)]
    <2>1. LocalOK(n)
      BY CircuitsOfSuites, NoManifestType, IdleOK DEF Idle, LocalOK, LocalState, Pcs
    <2>2. setup' = [setup EXCEPT ![p] = n]
      BY <1>2 DEF SetupBegin
    <2> HIDE DEF n
    <2>3. crossed' \in BOOLEAN /\ UNCHANGED <<keys, manifest, setups, faults>>
      BY <1>2 DEF SetupBegin
    <2> QED
      BY <2>1, <2>2, <2>3, MoveTyped DEF Typed
  <1>3. ASSUME NEW p \in Procs, SetupStep(p)
        PROVE  Typed'
    BY <1>3, SetupTyped
  <1>4. ASSUME NEW p \in Procs, Drops(p)
        PROVE  Typed'
    <2>1. setup' \in [Procs -> LocalState] /\ \A q \in Procs : LocalOK(setup'[q])
      BY <1>4, IdleOK, MoveTyped DEF Drops
    <2>2. faults' \in Nat /\ UNCHANGED <<keys, manifest, setups, crossed>>
      BY <1>4 DEF Drops, Typed
    <2> QED
      BY <2>1, <2>2 DEF Typed
  <1>5. ASSUME NEW c \in Circuits, LoseKey(c)
        PROVE  Typed'
    <2>1. keys' \in [Circuits -> Pair]
      BY <1>5 DEF LoseKey, Typed, Pair
    <2> QED
      BY <1>5, <2>1 DEF LoseKey, Typed
  <1>6. ZkNext
    BY StepsOfKeys
  <1> QED
    BY <1>1, <1>2, <1>3, <1>4, <1>5, <1>6 DEF ZkNext

(* The key files, the manifests and the local variables of every key setup  *)
(* have their types, and a setup that makes a key or writes an entry has a  *)
(* circuit in hand.                                                         *)
THEOREM KeysTyped == Spec => []Typed
  BY InitTyped, StepTyped, PTL DEF Spec

-----------------------------------------------------------------------------
(* What "not crossed" buys: at most one process is inside a key setup.      *)
Alone == \A p, q \in Procs : Busy(p) /\ Busy(q) => p = q

(* A setup that no force demands replaces no complete pair; the proving key *)
(* it wrote is its own, unless the file was lost since.                     *)
Making ==
  \A p \in Procs, c \in Circuits : c = Current(p) =>
    /\ setup[p].pc = "pk" => setup[p].force \/ ~Complete(c)
    /\ setup[p].pc = "vk" => keys[c].pk \in {setup[p].key, 0}

KeptInv == ~crossed => Alone /\ Making

LEMMA OrStays ==
  ASSUME NEW A, NEW B, NEW C, A = (B \/ C)
  PROVE  ~A => ~B /\ ~C
  BY Zenon

(* What one process does to its setup, another's does not see.              *)
LEMMA OthersStay ==
  ASSUME Typed, NEW p \in Procs, SetupStep(p) \/ Drops(p)
  PROVE  /\ \A q \in Procs \ {p} : setup'[q] = setup[q]
         /\ crossed' = crossed
  <1>1. setup \in [Procs -> LocalState]
    BY DEF Typed
  <1>2. CASE Drops(p)
    BY <1>1, <1>2 DEF Drops
  <1>3. CASE SetupStep(p)
    BY <1>1, <1>3 DEF SetupStep, SetupPresent, SetupProve, SetupPk, SetupVk,
       SetupFails, RecordFails, RecordSkips, RecordReads, RecordTruncates,
       RecordWrites, RebuildFails, RebuildBegin, Goto
  <1> QED
    BY <1>2, <1>3

LEMMA StepIsBusy ==
  ASSUME NEW p \in Procs, SetupStep(p)
  PROVE  Busy(p)
  BY DEF SetupStep, SetupPresent, SetupProve, SetupPk, SetupVk,
     SetupFails, RecordFails, RecordSkips, RecordReads, RecordTruncates,
     RecordWrites, RebuildFails, RebuildBegin, RebuildReads, Recording, Busy

LEMMA AloneStays ==
  ASSUME Typed, ~crossed => Alone, [Next]_vars
  PROVE  ~crossed' => Alone'
  <1>1. CASE UNCHANGED zkVars
    BY <1>1 DEF zkVars, Alone, Busy
  <1>2. ASSUME NEW p \in Procs, NEW s \in Suites, NEW force \in BOOLEAN,
               SetupBegin(p, s, force), ~crossed'
        PROVE  Alone'
    <2>1. ~\E q \in Procs \ {p} : Busy(q)
      BY <1>2, OrStays DEF SetupBegin
    <2>2. \A q \in Procs \ {p} : setup'[q] = setup[q]
      BY <1>2 DEF SetupBegin, Typed
    <2> QED
      BY <2>1, <2>2 DEF Alone, Busy
  <1>3. ASSUME NEW p \in Procs, SetupStep(p), ~crossed'
        PROVE  Alone'
    <2>1. \A q \in Procs \ {p} : ~Busy(q) /\ setup'[q] = setup[q]
      BY <1>3, OthersStay, StepIsBusy DEF Alone
    <2> QED
      BY <2>1 DEF Alone, Busy
  <1>4. ASSUME NEW p \in Procs, Drops(p), ~crossed'
        PROVE  Alone'
    <2>1. \A q \in Procs \ {p} : setup'[q] = setup[q]
      BY <1>4, OthersStay
    <2>2. setup'[p] = Idle
      BY <1>4 DEF Drops, Typed
    <2>3. Alone
      BY <1>4, OthersStay
    <2> QED
      BY <2>1, <2>2, <2>3 DEF Alone, Busy, Idle
  <1>5. ASSUME NEW c \in Circuits, LoseKey(c)
        PROVE  ~crossed' => Alone'
    BY <1>5 DEF LoseKey, Alone, Busy
  <1>6. ZkNext
    BY StepsOfKeys
  <1> QED
    BY <1>1, <1>2, <1>3, <1>4, <1>5, <1>6 DEF ZkNext

(* Only a setup that writes a key changes a key, and its own circuit's.     *)
LEMMA KeysChange ==
  ASSUME Typed, NEW p \in Procs, SetupStep(p)
  PROVE  \/ SetupPk(p) \/ SetupVk(p)
         \/ /\ keys' = keys
            /\ setup'[p].pc # "vk"
            /\ setup'[p].pc = "pk" => SetupProve(p)
  <1>1. setup \in [Procs -> LocalState]
    BY DEF Typed
  <1>2. CASE SetupProve(p)
    BY <1>1, <1>2 DEF SetupProve, LocalState
  <1>3. CASE SetupPresent(p)
    BY <1>1, <1>3 DEF SetupPresent, LocalState
  <1>4. CASE SetupFails(p) \/ RecordFails(p) \/ RebuildFails(p) \/ RecordTruncates(p)
    BY <1>1, <1>4 DEF SetupFails, RecordFails, RebuildFails, RecordTruncates, Goto,
       LocalState
  <1>5. CASE RecordSkips(p) \/ RecordWrites(p)
    <2>1. setup[p].left # <<>> /\ LocalOK(setup[p])
      BY <1>5 DEF RecordSkips, Recording, RecordWrites, Typed, LocalOK
    <2>2. setup'[p] = NextCircuit(p, setup[p])
      BY <1>1, <1>5 DEF RecordSkips, RecordWrites
    <2>3. setup'[p].pc \in {"record", "check"}
      BY <2>1, <2>2, NextCircuitOK
    <2> QED
      BY <1>5, <2>3 DEF RecordSkips, RecordWrites
  <1>6. CASE RecordReads(p) \/ RebuildBegin(p)
    BY <1>1, <1>6 DEF RecordReads, RebuildBegin, LocalState
  <1> QED
    BY <1>2, <1>3, <1>4, <1>5, <1>6 DEF SetupStep

LEMMA MakingStays ==
  ASSUME Typed, KeptInv, [Next]_vars
  PROVE  ~crossed' => Making'
  <1>1. CASE UNCHANGED zkVars
    BY <1>1 DEF zkVars, KeptInv, Making, Current, Complete
  <1>2. ASSUME NEW p \in Procs, NEW s \in Suites, NEW force \in BOOLEAN,
               SetupBegin(p, s, force), ~crossed'
        PROVE  Making'
    <2>1. ~crossed
      BY <1>2, OrStays DEF SetupBegin
    <2>2. (\A q \in Procs \ {p} : setup'[q] = setup[q]) /\ keys' = keys
      BY <1>2 DEF SetupBegin, Typed
    <2>3. setup'[p].pc = "check"
      BY <1>2 DEF SetupBegin, Typed, Idle
    <2> QED
      BY <2>1, <2>2, <2>3 DEF KeptInv, Making, Current, Complete
  <1>3. ASSUME NEW p \in Procs, SetupStep(p), ~crossed'
        PROVE  Making'
    <2>1. ~crossed /\ Alone /\ Making
      BY <1>3, OthersStay DEF KeptInv
    <2>2. \A q \in Procs \ {p} : setup'[q].pc \notin {"pk", "vk"}
      <3>1. \A q \in Procs \ {p} : ~Busy(q) /\ setup'[q] = setup[q]
        BY <1>3, <2>1, OthersStay, StepIsBusy DEF Alone
      <3> QED
        BY <3>1 DEF Busy
    <2>3. setup \in [Procs -> LocalState] /\ keys \in [Circuits -> Pair]
      BY DEF Typed
    <2>4. CASE SetupPk(p)
      <3>1. /\ setup'[p].pc = "vk" /\ setup'[p].left = setup[p].left
            /\ setup'[p].key = setup[p].key
        BY <2>3, <2>4 DEF SetupPk, Goto, LocalState
      <3>2. \A c \in Circuits : c = Current(p) => keys'[c].pk = setup[p].key
        BY <2>3, <2>4 DEF SetupPk, Pair
      <3> QED
        BY <2>2, <3>1, <3>2 DEF Making, Current
    <2>5. CASE SetupVk(p)
      <3>1. setup'[p].pc = "record"
        BY <2>3, <2>5 DEF SetupVk, LocalState
      <3> QED
        BY <2>2, <3>1 DEF Making
    <2>6. CASE /\ keys' = keys
               /\ setup'[p].pc # "vk"
               /\ setup'[p].pc = "pk" => SetupProve(p)
      <3>1. CASE setup'[p].pc # "pk"
        BY <2>2, <2>6, <3>1 DEF Making
      <3>2. CASE SetupProve(p)
        <4>1. setup'[p].left = setup[p].left /\ setup'[p].force = setup[p].force
          BY <2>3, <3>2 DEF SetupProve, LocalState
        <4>2. setup[p].force \/ ~Complete(Current(p))
          BY <3>2 DEF SetupProve, NeedsSetup
        <4> QED
          BY <2>2, <2>6, <4>1, <4>2 DEF Making, Current, Complete
      <3> QED
        BY <2>6, <3>1, <3>2
    <2> QED
      BY <1>3, <2>4, <2>5, <2>6, KeysChange
  <1>4. ASSUME NEW p \in Procs, Drops(p), ~crossed'
        PROVE  Making'
    <2>1. ~crossed /\ \A q \in Procs \ {p} : setup'[q] = setup[q]
      BY <1>4, OthersStay
    <2>2. setup'[p].pc = "idle" /\ keys' = keys
      BY <1>4 DEF Drops, Typed, Idle
    <2> QED
      BY <2>1, <2>2 DEF KeptInv, Making, Current, Complete
  <1>5. ASSUME NEW d \in Circuits, LoseKey(d), ~crossed'
        PROVE  Making'
    <2>1. ~crossed /\ setup' = setup
      BY <1>5 DEF LoseKey
    <2>2. \A c \in Circuits : /\ keys'[c].pk \in {keys[c].pk, 0}
                              /\ keys'[c].vk \in {keys[c].vk, 0}
      BY <1>5 DEF LoseKey, Typed, Pair
    <2> QED
      BY <2>1, <2>2 DEF KeptInv, Making, Current, Complete
  <1>6. ZkNext
    BY StepsOfKeys
  <1> QED
    BY <1>1, <1>2, <1>3, <1>4, <1>5, <1>6 DEF ZkNext

LEMMA InitKept == Init => KeptInv
  <1> SUFFICES ASSUME Init PROVE KeptInv
    OBVIOUS
  <1>1. \A p \in Procs : setup[p] = Idle
    BY DEF Init, ZkInit
  <1> QED
    BY <1>1 DEF KeptInv, Alone, Making, Busy, Idle

(* The step formula of KeysKept.                                            *)
Kept ==
  \A c \in Circuits :
    Complete(c) /\ keys[c].pk = keys[c].vk /\ keys'[c] # keys[c] =>
      \/ faults' # faults \/ crossed
      \/ \E p \in Procs : setup[p].force /\ run'[p] = run[p] /\ setup'[p] # setup[p]

LEMMA KeptStep ==
  ASSUME Typed, KeptInv, [Next]_vars
  PROVE  Kept
  <1> SUFFICES ASSUME NEW c \in Circuits, Complete(c), keys[c].pk = keys[c].vk,
                      keys'[c] # keys[c], faults' = faults, ~crossed
               PROVE  \E p \in Procs : setup[p].force /\ run'[p] = run[p]
                                         /\ setup'[p] # setup[p]
    BY DEF Kept
  <1>1. keys' # keys
    OBVIOUS
  <1>2. Next
    BY <1>1 DEF vars
  <1>3. PICK p \in Procs : ZkStep(p)
    <2>1. ASSUME NEW p \in Procs, NEW s \in Suites, ZkBegin(p, s)
          PROVE  keys' = keys
      BY <2>1 DEF ZkBegin, SetupBegin
    <2>2. ASSUME NEW p \in Procs, ZkReturn(p) \/ Die(p)
          PROVE  keys' = keys
      BY <2>2 DEF ZkReturn, Die
    <2>3. ASSUME NEW p \in Procs,
                 \/ \E d \in DOMAIN Plan : Start(p, d)
                 \/ PolicyStep(p) \/ LoadRuntime(p)
                 \/ CheckHealth(p) \/ InstallCollect(p) \/ IntegrationsRead(p)
                 \/ InstallTruncate(p) \/ InstallWrite(p) \/ WriteTranscript(p)
                 \/ SmokeDoctor(p) \/ SmokeVerify(p)
          PROVE  keys' = keys
      BY <2>3 DEF Start, PolicyStep, LoadRuntime, CheckHealth, InstallCollect,
         IntegrationsRead, InstallTruncate, InstallWrite, WriteTranscript,
         SmokeDoctor, SmokeVerify, zkVars
    <2>4. ASSUME NEW d \in Circuits, Lose(d)
          PROVE  faults' # faults
      BY <2>4 DEF Lose, LoseKey, Typed
    <2> QED
      BY <1>1, <1>2, <2>1, <2>2, <2>3, <2>4 DEF Next
  <1>4. SetupStep(p) /\ run' = run
    BY <1>3 DEF ZkStep
  <1>5. SetupPk(p) \/ SetupVk(p)
    BY <1>1, <1>4, KeysChange
  <1>6. setup \in [Procs -> LocalState] /\ keys \in [Circuits -> Pair]
    BY DEF Typed
  <1>7. c = Current(p)
    BY <1>5, <1>6 DEF SetupPk, SetupVk
  <1>8. CASE SetupPk(p)
    <2>1. setup[p].force
      BY <1>7, <1>8 DEF KeptInv, Making, SetupPk
    <2>2. setup'[p] # setup[p]
      BY <1>6, <1>8 DEF SetupPk, Goto, LocalState
    <2> QED
      BY <1>4, <2>1, <2>2
  <1>9. CASE SetupVk(p)
    <2>1. keys[c].pk = setup[p].key
      BY <1>7, <1>9 DEF KeptInv, Making, SetupVk, Complete
    <2>2. keys'[c] = [keys[c] EXCEPT !.vk = setup[p].key]
      BY <1>6, <1>7, <1>9 DEF SetupVk
    <2>3. keys'[c] = keys[c]
      BY <1>6, <2>1, <2>2 DEF Pair
    <2> QED
      BY <2>3
  <1> QED
    BY <1>5, <1>8, <1>9

(* A complete pair of keys of one setup is replaced only by force, in a     *)
(* fault or where two setups met, so proofs made before stay verifiable:    *)
(* for any circuits, processes and commands (setup_zk.py, needs_setup).     *)
THEOREM CompleteKeysAreKept == Spec => KeysKept
  <1>1. Init => Typed /\ KeptInv
    BY InitTyped, InitKept
  <1>2. Typed /\ KeptInv /\ [Next]_vars => Typed' /\ KeptInv'
    BY StepTyped, AloneStays, MakingStays DEF KeptInv
  <1>3. Typed /\ KeptInv /\ [Next]_vars => [Kept]_vars
    BY KeptStep
  <1>4. Spec => [][Kept]_vars
    BY <1>1, <1>2, <1>3, PTL DEF Spec
  <1> QED
    BY <1>4 DEF KeysKept, Kept

-----------------------------------------------------------------------------
(* Without a fault and alone, a setup that has begun to write a key or an   *)
(* entry has the rest of it in hand.                                        *)
Local(p) ==
  LET l == setup[p] IN
  /\ l.pc \in {"check", "pk", "vk", "truncate", "write"} => ~l.rebuild
  /\ l.pc \in {"pk", "vk"} => l.key # 0
  /\ l.pc = "vk" => keys[Current(p)].pk = l.key
  /\ l.pc = "record" /\ ~l.rebuild => l.left # <<>> /\ Complete(Current(p))
  /\ l.pc \in {"truncate", "write"} =>
       /\ ~l.doc.torn
       /\ \A c \in Range(CircuitsOf(l.suite)) :
            l.doc.entry[c] = IF c = Current(p) THEN keys[c]
                             ELSE manifest[l.suite].entry[c]

(* Process p has written a key of c whose entry it has still to write.      *)
Pending(p, c) ==
  /\ c = Current(p)
  /\ \/ setup[p].pc \in {"vk", "truncate", "write"}
     \/ setup[p].pc = "record" /\ ~setup[p].rebuild

Entry(c) == manifest[SuiteOf(c)].entry[c]

(* What is out of order on disk, process p is about to put right.           *)
Owes(p) ==
  /\ \A s \in Suites : manifest[s].torn => setup[p].pc = "write" /\ setup[p].suite = s
  /\ \A c \in Circuits : \/ keys[c].pk = keys[c].vk
                         \/ setup[p].pc = "vk" /\ c = Current(p)
  /\ \A c \in Circuits : Entry(c) = keys[c] \/ Pending(p, c)

InOrder ==
  /\ \A s \in Suites : ~manifest[s].torn
  /\ \A c \in Circuits : keys[c].pk = keys[c].vk /\ Entry(c) = keys[c]

FaultlessInv ==
  faults = 0 /\ ~crossed =>
    /\ \A p \in Procs : Local(p)
    /\ \A p \in Procs : Busy(p) => Owes(p)
    /\ (\A p \in Procs : ~Busy(p)) => InOrder

LEMMA ProveSound ==
  ASSUME Typed, NEW p \in Procs, Local(p), Owes(p), SetupProve(p) \/ SetupPresent(p)
  PROVE  Local(p)' /\ Owes(p)'
  <1>1. setup \in [Procs -> LocalState] /\ setups \in [Circuits -> Nat]
        /\ LocalOK(setup[p])
    BY DEF Typed
  <1>2. keys' = keys /\ manifest' = manifest /\ setup[p].pc = "check"
        /\ setup[p].left # <<>>
    BY DEF SetupProve, SetupPresent
  <1>3. Current(p) \in Circuits
    BY <1>1, <1>2, LoopFacts DEF Current
  <1>4. /\ setup'[p].pc \in {"check", "pk"} /\ setup'[p].rebuild = setup[p].rebuild
        /\ setup'[p].pc = "pk" => setup'[p].key # 0
    <2>1. CASE SetupPresent(p)
      BY <1>1, <2>1 DEF SetupPresent, LocalState
    <2>2. CASE SetupProve(p)
      <3>1. setups'[Current(p)] = setups[Current(p)] + 1
        BY <1>1, <1>3, <2>2 DEF SetupProve
      <3>2. setups'[Current(p)] # 0
        BY <1>1, <1>3, <3>1
      <3>3. setup'[p].pc = "pk" /\ setup'[p].rebuild = setup[p].rebuild
        BY <1>1, <2>2 DEF SetupProve, LocalState
      <3>4. setup'[p].key = setups'[Current(p)]
        <4> DEFINE k == setups'[Current(p)]
        <4>1. setup' = [setup EXCEPT ![p].pc = "pk", ![p].key = k]
          BY <2>2, Zenon DEF SetupProve
        <4> HIDE DEF k
        <4>2. setup'[p].key = k
          BY <1>1, <4>1 DEF LocalState
        <4> QED
          BY <4>2 DEF k
      <3> QED
        BY <3>2, <3>3, <3>4
    <2> QED
      BY <2>1, <2>2
  <1>5. Local(p)'
    BY <1>2, <1>4 DEF Local
  <1>6. Owes(p)'
    BY <1>2 DEF Owes, Pending, Entry
  <1> QED
    BY <1>5, <1>6

LEMMA KeySound ==
  ASSUME Typed, NEW p \in Procs, Local(p), Owes(p), SetupPk(p) \/ SetupVk(p)
  PROVE  Local(p)' /\ Owes(p)'
  <1> DEFINE l == setup[p]
             c == Current(p)
  <1>1. setup \in [Procs -> LocalState] /\ keys \in [Circuits -> Pair]
        /\ LocalOK(l)
    BY DEF Typed
  <1>2. manifest' = manifest /\ l.pc \in {"pk", "vk"}
        /\ l.left # <<>> /\ ~l.rebuild /\ l.key # 0
    BY <1>1 DEF SetupPk, SetupVk, Local, LocalOK
  <1>3. c \in Circuits /\ l.key \in Nat
    BY <1>1, <1>2, LoopFacts DEF Current, LocalState
  <1>4. \A d \in Circuits \ {c} : keys'[d] = keys[d]
    BY <1>1 DEF SetupPk, SetupVk
  <1>5. /\ setup'[p].left = l.left /\ setup'[p].rebuild = l.rebuild
        /\ setup'[p].key = l.key /\ setup'[p].suite = l.suite
    BY <1>1 DEF SetupPk, SetupVk, Goto, LocalState
  <1>6. Current(p)' = c
    BY <1>5 DEF Current
  <1>7. CASE SetupPk(p)
    <2>1. setup'[p].pc = "vk" /\ keys'[c].pk = l.key
      BY <1>1, <1>3, <1>7 DEF SetupPk, Goto, LocalState, Pair
    <2>2. Local(p)'
      BY <1>2, <1>5, <1>6, <2>1 DEF Local
    <2>3. Owes(p)'
      BY <1>2, <1>4, <1>6, <1>7, <2>1 DEF Owes, Pending, Entry, SetupPk
    <2> QED
      BY <2>2, <2>3
  <1>8. CASE SetupVk(p)
    <2>1. setup'[p].pc = "record"
      BY <1>1, <1>8 DEF SetupVk, LocalState
    <2>2. keys'[c].pk = l.key /\ keys'[c].vk = l.key
      BY <1>1, <1>3, <1>8 DEF SetupVk, Pair, Local
    <2>3. Local(p)'
      <3>1. setup'[p].left # <<>>
        BY <1>2, <1>5
      <3>2. Complete(Current(p))'
        BY <1>2, <1>6, <2>2 DEF Complete
      <3> QED
        BY <1>2, <1>5, <2>1, <3>1, <3>2 DEF Local
    <2>4. Owes(p)'
      <3>1. \A s \in Suites : ~manifest'[s].torn
        BY <1>2 DEF Owes
      <3>2. \A d \in Circuits : keys'[d].pk = keys'[d].vk
        BY <1>2, <1>4, <2>2 DEF Owes
      <3>3. \A d \in Circuits \ {c} : Entry(d)' = keys'[d]
        BY <1>2, <1>4 DEF Owes, Pending, Entry
      <3>4. \A d \in Circuits : d = c => Pending(p, d)'
        BY <1>2, <1>5, <1>6, <2>1 DEF Pending
      <3>5. \A d \in Circuits : Entry(d)' = keys'[d] \/ Pending(p, d)'
        BY <3>3, <3>4
      <3> QED
        BY <3>1, <3>2, <3>5 DEF Owes
    <2> QED
      BY <2>3, <2>4
  <1> QED
    BY <1>7, <1>8

LEMMA EntriesOfSuites ==
  ASSUME NEW s \in Suites, NEW c \in Range(CircuitsOf(s))
  PROVE  c \in Circuits /\ SuiteOf(c) = s
  BY CircuitsOfSuites

LEMMA NextSound ==
  ASSUME Typed, NEW p \in Procs, Local(p), Owes(p), RecordSkips(p) \/ RecordWrites(p)
  PROVE  Local(p)' /\ Owes(p)'
  <1> DEFINE l == setup[p]
             c == Current(p)
  <1>1. setup \in [Procs -> LocalState] /\ keys \in [Circuits -> Pair]
        /\ LocalOK(l) /\ l.suite \in Suites
    BY DEF Typed, LocalState
  <1>2. l.left # <<>> /\ keys' = keys /\ setup'[p] = NextCircuit(p, l)
    BY <1>1 DEF RecordSkips, RecordWrites, Recording, LocalOK
  <1>3. /\ setup'[p].pc \in {"record", "check"} /\ setup'[p].rebuild = l.rebuild
        /\ l.rebuild <=> setup'[p].pc = "record"
    BY <1>1, <1>2, NextCircuitOK
  <1>4. Local(p)'
    BY <1>3 DEF Local
  <1>5. c \in Circuits /\ c \in Range(CircuitsOf(l.suite)) /\ SuiteOf(c) = l.suite
    BY <1>1, <1>2, LoopFacts DEF Current
  <1>6. /\ \A s \in Suites : ~manifest'[s].torn
        /\ \A d \in Circuits : keys[d].pk = keys[d].vk
        /\ \A d \in Circuits : manifest'[SuiteOf(d)].entry[d] = keys[d]
    <2>1. CASE RecordSkips(p)
      <3>1. l.pc = "record" /\ manifest' = manifest
        BY <2>1 DEF RecordSkips, Recording
      <3>2. Entry(c) = keys[c]
        <4>1. CASE l.rebuild
          BY <1>5, <3>1, <4>1 DEF Owes, Pending
        <4>2. CASE ~l.rebuild
          <5>1. Complete(c)
            BY <3>1, <4>2 DEF Local
          <5>2. Recorded(p) = keys[c]
            BY <2>1, <5>1 DEF RecordSkips, Unchanged
          <5> QED
            BY <1>5, <5>2 DEF Recorded, Entry
        <4> QED
          BY <4>1, <4>2
      <3> QED
        BY <3>1, <3>2 DEF Owes, Pending, Entry
    <2>2. CASE RecordWrites(p)
      <3>1. l.pc = "write" /\ manifest' = [manifest EXCEPT ![l.suite] = l.doc]
        BY <2>2 DEF RecordWrites
      <3>2. manifest'[l.suite] = l.doc /\ \A s \in Suites \ {l.suite} :
              manifest'[s] = manifest[s]
        BY <1>1, <3>1 DEF Typed
      <3>3. /\ ~l.doc.torn
            /\ \A d \in Range(CircuitsOf(l.suite)) :
                 l.doc.entry[d] = IF d = c THEN keys[d] ELSE manifest[l.suite].entry[d]
        BY <3>1 DEF Local
      <3>4. \A s \in Suites : ~manifest'[s].torn
        BY <3>1, <3>2, <3>3 DEF Owes
      <3>5. \A d \in Circuits : keys[d].pk = keys[d].vk
        BY <3>1 DEF Owes
      <3>6. ASSUME NEW d \in Circuits
            PROVE  manifest'[SuiteOf(d)].entry[d] = keys[d]
        <4>1. SuiteOf(d) \in Suites /\ d \in Range(CircuitsOf(SuiteOf(d)))
          BY CircuitsOfSuites
        <4>2. d # c => manifest[SuiteOf(d)].entry[d] = keys[d]
          BY DEF Owes, Pending, Entry
        <4>3. CASE SuiteOf(d) = l.suite
          <5>1. l.doc.entry[d] = keys[d]
            BY <3>3, <4>1, <4>2, <4>3
          <5> QED
            BY <3>2, <4>3, <5>1
        <4>4. CASE SuiteOf(d) # l.suite
          BY <1>5, <3>2, <4>1, <4>2, <4>4
        <4> QED
          BY <4>3, <4>4
      <3> QED
        BY <3>4, <3>5, <3>6
    <2> QED
      BY <2>1, <2>2
  <1>7. Owes(p)'
    BY <1>2, <1>6 DEF Owes, Entry
  <1> QED
    BY <1>4, <1>7

LEMMA ReadSound ==
  ASSUME Typed, NEW p \in Procs, Local(p), Owes(p), RecordReads(p)
  PROVE  Local(p)' /\ Owes(p)'
  <1> DEFINE l == setup[p]
             c == Current(p)
             d == [manifest[l.suite] EXCEPT !.writes = @ + 1, !.entry[c] = keys[c]]
  <1>1. setup \in [Procs -> LocalState] /\ keys \in [Circuits -> Pair]
        /\ LocalOK(l) /\ l.suite \in Suites
    BY DEF Typed, LocalState
  <1>2. l.left # <<>> /\ keys' = keys /\ manifest' = manifest /\ l.pc = "record"
        /\ ~manifest[l.suite].torn
    BY DEF RecordReads, Recording, Readable
  <1>3. c \in Circuits /\ c \in Range(CircuitsOf(l.suite)) /\ SuiteOf(c) = l.suite
    BY <1>1, <1>2, LoopFacts DEF Current
  <1>4. ~l.rebuild
    <2>1. Entry(c) # keys[c]
      BY <1>3 DEF RecordReads, Unchanged, Recorded, Entry
    <2> QED
      BY <1>2, <1>3, <2>1 DEF Owes, Pending
  <1>5. manifest[l.suite] \in ManifestOf(l.suite)
    BY <1>1 DEF Typed
  <1>6. /\ ~d.torn
        /\ \A e \in Range(CircuitsOf(l.suite)) :
             d.entry[e] = IF e = c THEN keys[e] ELSE manifest[l.suite].entry[e]
    BY <1>2, <1>3, <1>5 DEF ManifestOf
  <1>7. setup' = [setup EXCEPT ![p] = [l EXCEPT !.pc = "truncate", !.doc = d]]
    BY <1>1 DEF RecordReads
  <1> HIDE DEF d
  <1>8. /\ setup'[p].pc = "truncate" /\ setup'[p].left = l.left
        /\ setup'[p].suite = l.suite /\ setup'[p].rebuild = l.rebuild
        /\ setup'[p].doc = d
    BY <1>1, <1>7 DEF LocalState
  <1>9. Current(p)' = c
    BY <1>8 DEF Current
  <1>10. Local(p)'
    BY <1>2, <1>4, <1>6, <1>8, <1>9 DEF Local
  <1>11. Owes(p)'
    BY <1>2, <1>4, <1>8, <1>9 DEF Owes, Pending, Entry
  <1> QED
    BY <1>10, <1>11

LEMMA TruncateSound ==
  ASSUME Typed, NEW p \in Procs, Local(p), Owes(p), RecordTruncates(p)
  PROVE  Local(p)' /\ Owes(p)'
  <1> DEFINE l == setup[p]
             c == Current(p)
  <1>1. setup \in [Procs -> LocalState] /\ l.suite \in Suites
        /\ manifest \in [Suites -> Manifests]
        /\ \A s \in Suites : manifest[s] \in ManifestOf(s)
    BY DEF Typed, LocalState
  <1>2. l.pc = "truncate" /\ keys' = keys
    BY DEF RecordTruncates
  <1>3. \A s \in Suites : /\ manifest'[s].entry = manifest[s].entry
                          /\ manifest'[s].torn => manifest[s].torn \/ s = l.suite
    BY <1>1 DEF RecordTruncates, ManifestOf
  <1>4. /\ setup'[p].pc = "write" /\ setup'[p].left = l.left
        /\ setup'[p].suite = l.suite /\ setup'[p].rebuild = l.rebuild
        /\ setup'[p].doc = l.doc
    BY <1>1 DEF RecordTruncates, Goto, LocalState
  <1>5. Current(p)' = c
    BY <1>4 DEF Current
  <1>6. Local(p)'
    BY <1>1, <1>2, <1>3, <1>4, <1>5 DEF Local
  <1>7. Owes(p)'
    <2>1. \A d \in Circuits : SuiteOf(d) \in Suites
      BY CircuitsOfSuites
    <2>2. \A s \in Suites : manifest'[s].torn => s = l.suite
      BY <1>2, <1>3 DEF Owes
    <2> QED
      BY <1>2, <1>3, <1>4, <1>5, <2>1, <2>2 DEF Owes, Pending, Entry
  <1> QED
    BY <1>6, <1>7

LEMMA RebuildSound ==
  ASSUME Typed, NEW p \in Procs, Local(p), Owes(p), RebuildBegin(p)
  PROVE  Local(p)' /\ Owes(p)'
  <1>1. setup \in [Procs -> LocalState]
    BY DEF Typed
  <1>2. setup[p].pc = "check" /\ keys' = keys /\ manifest' = manifest
    BY DEF RebuildBegin, RebuildReads
  <1>3. setup'[p].pc = "record" /\ setup'[p].rebuild
    BY <1>1 DEF RebuildBegin, LocalState
  <1>4. Local(p)'
    BY <1>3 DEF Local
  <1>5. Owes(p)'
    BY <1>2, <1>3 DEF Owes, Pending, Entry
  <1> QED
    BY <1>4, <1>5

(* Without a fault nothing that a lone setup does fails.                    *)
LEMMA NothingFails ==
  ASSUME Typed, NEW p \in Procs, Local(p), Owes(p), faults' = faults
  PROVE  ~SetupFails(p) /\ ~RecordFails(p) /\ ~RebuildFails(p)
  <1>1. setup[p].suite \in Suites /\ faults \in Nat
    BY DEF Typed, LocalState
  <1>2. ~SetupFails(p)
    BY <1>1 DEF SetupFails
  <1>3. ~RecordFails(p)
    BY <1>1 DEF RecordFails, Recording, Readable, Local, Owes
  <1>4. ~RebuildFails(p)
    BY <1>1 DEF RebuildFails, RebuildReads, Readable, Owes
  <1> QED
    BY <1>2, <1>3, <1>4

LEMMA SetupSound ==
  ASSUME Typed, NEW p \in Procs, Local(p), Owes(p), SetupStep(p), faults' = faults
  PROVE  Local(p)' /\ Owes(p)'
  BY NothingFails, ProveSound, KeySound, NextSound, ReadSound, TruncateSound,
     RebuildSound DEF SetupStep

-----------------------------------------------------------------------------
LEMMA InitFaultless == Init => FaultlessInv
  <1> SUFFICES ASSUME Init PROVE FaultlessInv
    OBVIOUS
  <1>1. PICK old \in OldKeys : ZkInit(old)
    BY DEF Init
  <1>2. old \in {Absent, Vendor}
    BY <1>1, InstallAssumption
  <1>3. \A p \in Procs : setup[p] = Idle
    BY <1>1 DEF ZkInit
  <1>4. \A p \in Procs : Local(p) /\ ~Busy(p)
    BY <1>3 DEF Local, Busy, Idle
  <1>5. \A s \in Suites : /\ ~manifest[s].torn
                          /\ \A c \in Range(CircuitsOf(s)) : manifest[s].entry[c] = old
    BY <1>1 DEF ZkInit, NoManifest
  <1>6. \A c \in Circuits : keys[c] = old /\ Entry(c) = old
    BY <1>1, <1>5, CircuitsOfSuites DEF ZkInit, Entry
  <1>7. InOrder
    BY <1>2, <1>5, <1>6 DEF InOrder, Absent, Vendor
  <1> QED
    BY <1>4, <1>7 DEF FaultlessInv

(* Between setups nothing is owed; a setup that ends owes nothing.          *)
LEMMA EndInOrder ==
  ASSUME NEW p \in Procs, Local(p), Owes(p), Returns(p) \/ setup[p].pc = "raised"
  PROVE  InOrder
  <1>1. setup[p].pc \in {"check", "record", "raised"}
        /\ (setup[p].pc = "record" => setup[p].rebuild)
    BY DEF Returns, RebuildReads, Local
  <1> QED
    BY <1>1 DEF Owes, InOrder, Pending

LEMMA FaultlessStays ==
  ASSUME Typed, ~crossed => Alone, FaultlessInv, [Next]_vars
  PROVE  FaultlessInv'
  <1> SUFFICES ASSUME faults' = 0, ~crossed'
               PROVE  /\ \A p \in Procs : Local(p)'
                      /\ \A p \in Procs : Busy(p)' => Owes(p)'
                      /\ (\A p \in Procs : ~Busy(p)') => InOrder'
    BY DEF FaultlessInv
  <1>0. faults \in Nat /\ setup \in [Procs -> LocalState]
    BY DEF Typed
  <1>1. CASE UNCHANGED zkVars
    BY <1>1 DEF zkVars, FaultlessInv, Local, Owes, InOrder, Pending, Entry, Busy,
       Current, Complete
  <1>2. ASSUME NEW p \in Procs, NEW s \in Suites, NEW force \in BOOLEAN,
               SetupBegin(p, s, force)
        PROVE  /\ \A q \in Procs : Local(q)'
               /\ \A q \in Procs : Busy(q)' => Owes(q)'
               /\ (\A q \in Procs : ~Busy(q)') => InOrder'
    <2>1. ~crossed /\ \A q \in Procs \ {p} : ~Busy(q)
      BY <1>2, OrStays DEF SetupBegin
    <2>2. keys' = keys /\ manifest' = manifest /\ faults' = faults /\ ~Busy(p)
          /\ \A q \in Procs \ {p} : setup'[q] = setup[q]
      BY <1>0, <1>2 DEF SetupBegin
    <2>3. setup'[p].pc = "check" /\ ~setup'[p].rebuild
      BY <1>0, <1>2 DEF SetupBegin, Idle
    <2>4. InOrder /\ \A q \in Procs : Local(q)
      BY <2>1, <2>2 DEF FaultlessInv
    <2>5. \A q \in Procs \ {p} : ~Busy(q)' /\ Local(q)'
      BY <2>1, <2>2, <2>4 DEF Local, Busy, Current, Complete
    <2>6. Local(p)' /\ Owes(p)' /\ Busy(p)'
      BY <2>2, <2>3, <2>4 DEF Local, Owes, InOrder, Entry, Busy
    <2> QED
      BY <2>5, <2>6
  <1>3. ASSUME NEW p \in Procs, SetupStep(p)
        PROVE  /\ \A q \in Procs : Local(q)'
               /\ \A q \in Procs : Busy(q)' => Owes(q)'
               /\ (\A q \in Procs : ~Busy(q)') => InOrder'
    <2>1. ~crossed /\ Busy(p) /\ \A q \in Procs \ {p} : setup'[q] = setup[q]
      BY <1>3, OthersStay, StepIsBusy
    <2>2. \A q \in Procs \ {p} : ~Busy(q)
      BY <2>1 DEF Alone
    <2>3. faults' = faults
      BY <1>0, <1>3 DEF SetupStep, SetupPresent, SetupProve, SetupPk, SetupVk,
         SetupFails, RecordFails, RecordSkips, RecordReads, RecordTruncates,
         RecordWrites, RebuildFails, RebuildBegin
    <2>4. Local(p) /\ Owes(p)
      BY <2>1, <2>3 DEF FaultlessInv
    <2>5. Local(p)' /\ Owes(p)'
      BY <1>3, <2>3, <2>4, SetupSound
    <2>6. \A q \in Procs \ {p} : ~Busy(q)' /\ Local(q)'
      BY <2>1, <2>2 DEF Local, Busy
    <2>7. Busy(p)'
      <3>1. setup'[p].pc \notin {"idle", "raised"}
        <4>1. CASE SetupPresent(p) \/ SetupProve(p)
          BY <1>0, <4>1 DEF SetupPresent, SetupProve, LocalState
        <4>2. CASE SetupPk(p) \/ SetupVk(p)
          BY <1>0, <4>2 DEF SetupPk, SetupVk, Goto, LocalState
        <4>3. CASE RecordSkips(p) \/ RecordWrites(p)
          <5>1. setup[p].left # <<>> /\ LocalOK(setup[p])
            BY <4>3 DEF RecordSkips, Recording, RecordWrites, Typed, LocalOK
          <5>2. setup'[p] = NextCircuit(p, setup[p])
            BY <1>0, <4>3 DEF RecordSkips, RecordWrites
          <5> QED
            BY <5>1, <5>2, NextCircuitOK
        <4>4. CASE RecordReads(p) \/ RecordTruncates(p) \/ RebuildBegin(p)
          BY <1>0, <4>4 DEF RecordReads, RecordTruncates, RebuildBegin, Goto,
             LocalState
        <4> QED
          BY <1>3, <2>3, <2>4, <4>1, <4>2, <4>3, <4>4, NothingFails DEF SetupStep
      <3> QED
        BY <3>1 DEF Busy
    <2> QED
      BY <2>5, <2>6, <2>7
  <1>4. ASSUME NEW p \in Procs, Drops(p)
        PROVE  /\ \A q \in Procs : Local(q)'
               /\ \A q \in Procs : Busy(q)' => Owes(q)'
               /\ (\A q \in Procs : ~Busy(q)') => InOrder'
    <2>1. ~crossed /\ \A q \in Procs \ {p} : setup'[q] = setup[q]
      BY <1>4, OthersStay
    <2>2. faults = 0 /\ keys' = keys /\ manifest' = manifest
          /\ (Returns(p) \/ setup[p].pc = "raised")
      BY <1>0, <1>4 DEF Drops
    <2>3. setup'[p] = Idle
      BY <1>0, <1>4 DEF Drops
    <2>4. \A q \in Procs : Local(q)'
      BY <2>1, <2>2, <2>3 DEF FaultlessInv, Local, Idle, Current, Complete
    <2>5. ~Busy(p)'
      BY <2>3 DEF Busy, Idle
    <2>6. \A q \in Procs : Busy(q)' => Owes(q)'
      BY <2>1, <2>2, <2>5 DEF FaultlessInv, Busy, Owes, Pending, Entry, Current
    <2>7. ASSUME \A q \in Procs : ~Busy(q)'
          PROVE  InOrder
      <3>1. \A q \in Procs \ {p} : ~Busy(q)
        BY <2>1, <2>7 DEF Busy
      <3>2. CASE Busy(p)
        BY <2>1, <2>2, <3>2, EndInOrder DEF FaultlessInv
      <3>3. CASE ~Busy(p)
        BY <2>1, <2>2, <3>1, <3>3 DEF FaultlessInv
      <3> QED
        BY <3>2, <3>3
    <2> QED
      BY <2>2, <2>4, <2>6, <2>7 DEF InOrder, Entry
  <1>5. ASSUME NEW c \in Circuits, LoseKey(c)
        PROVE  FALSE
    BY <1>0, <1>5 DEF LoseKey
  <1>6. ZkNext
    BY StepsOfKeys
  <1> QED
    BY <1>1, <1>2, <1>3, <1>4, <1>5, <1>6 DEF ZkNext

LEMMA Invariants == Spec => [](Typed /\ KeptInv /\ FaultlessInv)
  <1>1. Init => Typed /\ KeptInv /\ FaultlessInv
    BY InitTyped, InitKept, InitFaultless
  <1>2. Typed /\ KeptInv /\ FaultlessInv /\ [Next]_vars
          => Typed' /\ KeptInv' /\ FaultlessInv'
    BY StepTyped, AloneStays, MakingStays, FaultlessStays DEF KeptInv
  <1> QED
    BY <1>1, <1>2, PTL DEF Spec

(* The two files of a pair are of one setup, as long as no fault came       *)
(* between and no two setups met: for any circuits and processes.           *)
THEOREM PairsOfOneSetup == Spec => []PairsMatch
  <1>1. Typed /\ KeptInv /\ FaultlessInv => PairsMatch
    BY DEF FaultlessInv, Owes, InOrder, PairsMatch
  <1> QED
    BY <1>1, Invariants, PTL

(* Between key setups the manifests record the keys on disk, under the same *)
(* conditions.                                                              *)
THEOREM ManifestsRecordKeys == Spec => []ManifestsCurrent
  <1>1. Typed /\ KeptInv /\ FaultlessInv => ManifestsCurrent
    <2> SUFFICES ASSUME Typed, KeptInv, FaultlessInv, faults = 0, ~crossed,
                        NEW c \in Circuits,
                        \A p \in Procs : ~Busy(p) \/ setup[p].suite # SuiteOf(c)
                 PROVE  manifest[SuiteOf(c)].entry[c] = keys[c]
      BY DEF ManifestsCurrent
    <2>1. CASE \A p \in Procs : ~Busy(p)
      BY <2>1 DEF FaultlessInv, InOrder, Entry
    <2>2. ASSUME NEW p \in Procs, Busy(p)
          PROVE  Entry(c) = keys[c]
      <3>1. Owes(p) /\ Local(p) /\ LocalOK(setup[p])
        BY <2>2 DEF FaultlessInv, Typed
      <3>2. ~Pending(p, c)
        <4> SUFFICES ASSUME Pending(p, c) PROVE FALSE
          OBVIOUS
        <4>1. setup[p].left # <<>>
          BY <3>1 DEF Pending, Local, LocalOK
        <4>2. SuiteOf(c) = setup[p].suite
          BY <3>1, <4>1, LoopFacts DEF Pending, Current
        <4> QED
          BY <2>2, <4>2
      <3> QED
        BY <3>1, <3>2 DEF Owes
    <2> QED
      BY <2>1, <2>2 DEF Entry
  <1> QED
    BY <1>1, Invariants, PTL

-----------------------------------------------------------------------------
(* What each step of a key setup does to its local variables.               *)
LEMMA PresentDoes ==
  ASSUME Typed, NEW p \in Procs, NEW l, l = setup[p], NEW n, n = setup'[p],
         SetupPresent(p)
  PROVE  /\ l.pc = "check" /\ l.left # <<>> /\ ~l.force /\ Complete(Current(p))
         /\ n.pc = "check" /\ n.left = Tail(l.left) /\ n.suite = l.suite
         /\ n.force = l.force /\ n.ran = l.ran /\ n.rebuild = l.rebuild
         /\ UNCHANGED <<keys, manifest, setups, faults, crossed>>
  BY DEF SetupPresent, NeedsSetup, Typed, LocalState

LEMMA ProveDoes ==
  ASSUME Typed, NEW p \in Procs, NEW l, l = setup[p], NEW n, n = setup'[p],
         NEW c, c = Current(p), SetupProve(p)
  PROVE  /\ l.pc = "check" /\ l.left # <<>> /\ (l.force \/ ~Complete(c))
         /\ n.pc = "pk" /\ n.left = l.left /\ n.suite = l.suite
         /\ n.force = l.force /\ n.ran = l.ran /\ n.rebuild = l.rebuild
         /\ n.key = setups[c] + 1
         /\ setups' = [setups EXCEPT ![c] = @ + 1]
         /\ UNCHANGED <<keys, manifest, faults, crossed>>
  <1> DEFINE k == setups'[c]
  <1>1. /\ setup \in [Procs -> LocalState] /\ LocalOK(l)
        /\ setups \in [Circuits -> Nat]
    BY DEF Typed
  <1>2. l.left # <<>>
    BY DEF SetupProve
  <1>3. c \in Circuits
    BY <1>1, <1>2, LoopFacts DEF Current
  <1>4. k = setups[c] + 1
    BY <1>1, <1>3 DEF SetupProve
  <1>5. setup' = [setup EXCEPT ![p].pc = "pk", ![p].key = k]
    BY DEF SetupProve
  <1> HIDE DEF k
  <1>6. n.key = k /\ n.pc = "pk" /\ n.left = l.left /\ n.suite = l.suite
        /\ n.force = l.force /\ n.ran = l.ran /\ n.rebuild = l.rebuild
    BY <1>1, <1>5 DEF LocalState
  <1> QED
    BY <1>4, <1>6 DEF SetupProve, NeedsSetup

LEMMA PkDoes ==
  ASSUME Typed, NEW p \in Procs, NEW l, l = setup[p], NEW n, n = setup'[p],
         NEW c, c = Current(p), SetupPk(p)
  PROVE  /\ l.pc = "pk" /\ l.left # <<>> /\ c \in Circuits
         /\ n.pc = "vk" /\ n.left = l.left /\ n.suite = l.suite
         /\ n.force = l.force /\ n.ran = l.ran /\ n.rebuild = l.rebuild
         /\ n.key = l.key /\ l.key \in Nat
         /\ keys'[c].pk = l.key /\ keys'[c].vk = keys[c].vk
         /\ \A d \in Circuits \ {c} : keys'[d] = keys[d]
         /\ UNCHANGED <<manifest, setups, faults, crossed>>
  <1>1. setup \in [Procs -> LocalState] /\ LocalOK(l)
        /\ keys \in [Circuits -> Pair]
    BY DEF Typed
  <1>2. l.pc = "pk" /\ l.left # <<>>
    BY <1>1 DEF SetupPk, LocalOK
  <1>3. c \in Circuits
    BY <1>1, <1>2, LoopFacts DEF Current
  <1>4. keys' = [keys EXCEPT ![c].pk = l.key] /\ UNCHANGED <<manifest, setups, faults, crossed>>
    BY DEF SetupPk
  <1>5. /\ n.pc = "vk" /\ n.left = l.left /\ n.suite = l.suite
        /\ n.force = l.force /\ n.ran = l.ran /\ n.rebuild = l.rebuild
        /\ n.key = l.key /\ l.key \in Nat
    BY <1>1 DEF SetupPk, Goto, LocalState
  <1>6. keys'[c].pk = l.key /\ keys'[c].vk = keys[c].vk
        /\ \A d \in Circuits \ {c} : keys'[d] = keys[d]
    BY <1>1, <1>3, <1>4 DEF Pair
  <1> QED
    BY <1>2, <1>3, <1>4, <1>5, <1>6

LEMMA VkDoes ==
  ASSUME Typed, NEW p \in Procs, NEW l, l = setup[p], NEW n, n = setup'[p],
         NEW c, c = Current(p), SetupVk(p)
  PROVE  /\ l.pc = "vk" /\ l.left # <<>> /\ c \in Circuits
         /\ n.pc = "record" /\ n.left = l.left /\ n.suite = l.suite
         /\ n.force = l.force /\ n.ran /\ n.rebuild = l.rebuild
         /\ n.key = l.key /\ l.key \in Nat
         /\ keys'[c].vk = l.key /\ keys'[c].pk = keys[c].pk
         /\ \A d \in Circuits \ {c} : keys'[d] = keys[d]
         /\ UNCHANGED <<manifest, setups, faults, crossed>>
  <1>1. setup \in [Procs -> LocalState] /\ LocalOK(l)
        /\ keys \in [Circuits -> Pair]
    BY DEF Typed
  <1>2. l.pc = "vk" /\ l.left # <<>>
    BY <1>1 DEF SetupVk, LocalOK
  <1>3. c \in Circuits
    BY <1>1, <1>2, LoopFacts DEF Current
  <1>4. keys' = [keys EXCEPT ![c].vk = l.key] /\ UNCHANGED <<manifest, setups, faults, crossed>>
    BY DEF SetupVk
  <1>5. /\ n.pc = "record" /\ n.left = l.left /\ n.suite = l.suite
        /\ n.force = l.force /\ n.ran /\ n.rebuild = l.rebuild
        /\ n.key = l.key /\ l.key \in Nat
    BY <1>1 DEF SetupVk, LocalState
  <1>6. keys'[c].vk = l.key /\ keys'[c].pk = keys[c].pk
        /\ \A d \in Circuits \ {c} : keys'[d] = keys[d]
    BY <1>1, <1>3, <1>4 DEF Pair
  <1> QED
    BY <1>2, <1>3, <1>4, <1>5, <1>6

LEMMA FailureDoes ==
  ASSUME Typed, NEW p \in Procs, NEW n, n = setup'[p],
         SetupFails(p) \/ RecordFails(p) \/ RebuildFails(p)
  PROVE  /\ n.pc = "raised" /\ n.suite = setup[p].suite
         /\ UNCHANGED <<keys, manifest, setups, crossed>>
  BY DEF SetupFails, RecordFails, RebuildFails, Goto, Typed, LocalState

LEMMA SkipDoes ==
  ASSUME Typed, NEW p \in Procs, NEW l, l = setup[p], NEW n, n = setup'[p],
         NEW c, c = Current(p), RecordSkips(p)
  PROVE  /\ l.pc = "record" /\ l.left # <<>> /\ c \in Range(CircuitsOf(l.suite))
         /\ c \in Circuits /\ SuiteOf(c) = l.suite
         /\ \/ ~Complete(c) /\ l.rebuild
            \/ Complete(c) /\ Entry(c) = keys[c]
         /\ n.pc = (IF l.rebuild THEN "record" ELSE "check")
         /\ n.left = Tail(l.left) /\ n.suite = l.suite
         /\ n.force = l.force /\ n.ran = l.ran /\ n.rebuild = l.rebuild
         /\ UNCHANGED <<keys, manifest, setups, faults, crossed>>
  <1>1. setup \in [Procs -> LocalState] /\ LocalOK(l)
    BY DEF Typed
  <1>2. l.pc = "record" /\ l.left # <<>>
    BY DEF RecordSkips, Recording
  <1>3. c \in Range(CircuitsOf(l.suite)) /\ c \in Circuits /\ SuiteOf(c) = l.suite
    BY <1>1, <1>2, LoopFacts DEF Current
  <1>4. \/ ~Complete(c) /\ l.rebuild
        \/ Complete(c) /\ Entry(c) = keys[c]
    BY <1>3 DEF RecordSkips, Unchanged, Recorded, Entry
  <1>5. n = NextCircuit(p, l)
    BY <1>1 DEF RecordSkips
  <1>6. /\ n.pc = (IF l.rebuild THEN "record" ELSE "check")
        /\ n.left = Tail(l.left) /\ n.suite = l.suite
        /\ n.force = l.force /\ n.ran = l.ran /\ n.rebuild = l.rebuild
    BY <1>1, <1>5 DEF NextCircuit, LocalOK, LocalState
  <1> QED
    BY <1>2, <1>3, <1>4, <1>6 DEF RecordSkips

LEMMA ReadDoes ==
  ASSUME Typed, NEW p \in Procs, NEW l, l = setup[p], NEW n, n = setup'[p],
         NEW c, c = Current(p), RecordReads(p)
  PROVE  /\ l.pc = "record" /\ l.left # <<>> /\ c \in Range(CircuitsOf(l.suite))
         /\ c \in Circuits /\ SuiteOf(c) = l.suite /\ l.suite \in Suites
         /\ Complete(c) /\ Entry(c) # keys[c]
         /\ n.pc = "truncate" /\ n.left = l.left /\ n.suite = l.suite
         /\ n.force = l.force /\ n.ran = l.ran /\ n.rebuild = l.rebuild
         /\ n.doc.entry = [manifest[l.suite].entry EXCEPT ![c] = keys[c]]
         /\ n.doc.torn = manifest[l.suite].torn /\ ~manifest[l.suite].torn
         /\ UNCHANGED <<keys, manifest, setups, faults, crossed>>
  <1> DEFINE d == [manifest[l.suite] EXCEPT !.writes = @ + 1, !.entry[c] = keys[c]]
  <1>1. setup \in [Procs -> LocalState] /\ LocalOK(l) /\ l.suite \in Suites
    BY DEF Typed, LocalState
  <1>2. l.pc = "record" /\ l.left # <<>>
    BY DEF RecordReads, Recording
  <1>3. c \in Range(CircuitsOf(l.suite)) /\ c \in Circuits /\ SuiteOf(c) = l.suite
    BY <1>1, <1>2, LoopFacts DEF Current
  <1>4. Complete(c) /\ Entry(c) # keys[c] /\ ~manifest[l.suite].torn
    BY <1>3 DEF RecordReads, Unchanged, Recorded, Entry, Readable
  <1>5. manifest[l.suite] \in ManifestOf(l.suite)
    BY <1>1 DEF Typed
  <1>6. d.entry = [manifest[l.suite].entry EXCEPT ![c] = keys[c]]
        /\ d.torn = manifest[l.suite].torn
    BY <1>5 DEF ManifestOf
  <1>7. setup' = [setup EXCEPT ![p] = [l EXCEPT !.pc = "truncate", !.doc = d]]
    <2> DEFINE e == [manifest[setup[p].suite] EXCEPT !.writes = @ + 1,
                       !.entry[Current(p)] = keys[Current(p)]]
    <2>1. setup' = [setup EXCEPT ![p].pc = "truncate", ![p].doc = e]
      BY DEF RecordReads
    <2>2. e = d
      OBVIOUS
    <2> HIDE DEF d, e
    <2> QED
      BY <1>1, <2>1, <2>2
  <1> HIDE DEF d
  <1>8. /\ n.pc = "truncate" /\ n.left = l.left /\ n.suite = l.suite
        /\ n.force = l.force /\ n.ran = l.ran /\ n.rebuild = l.rebuild
        /\ n.doc = d
    BY <1>1, <1>7 DEF LocalState
  <1> QED
    BY <1>1, <1>2, <1>3, <1>4, <1>6, <1>8 DEF RecordReads

LEMMA TruncateDoes ==
  ASSUME Typed, NEW p \in Procs, NEW l, l = setup[p], NEW n, n = setup'[p],
         RecordTruncates(p)
  PROVE  /\ l.pc = "truncate" /\ l.suite \in Suites /\ l.left # <<>>
         /\ n.pc = "write" /\ n.left = l.left /\ n.suite = l.suite
         /\ n.force = l.force /\ n.ran = l.ran /\ n.rebuild = l.rebuild
         /\ n.doc = l.doc
         /\ manifest'[l.suite].torn
         /\ \A s \in Suites : /\ manifest'[s].entry = manifest[s].entry
                              /\ manifest'[s].writes = manifest[s].writes
                              /\ s # l.suite => manifest'[s] = manifest[s]
         /\ UNCHANGED <<keys, setups, faults, crossed>>
  <1>1. setup \in [Procs -> LocalState] /\ LocalOK(l) /\ l.suite \in Suites
        /\ manifest \in [Suites -> Manifests]
        /\ \A s \in Suites : manifest[s] \in ManifestOf(s)
    BY DEF Typed, LocalState
  <1>2. l.pc = "truncate" /\ l.left # <<>>
    BY <1>1 DEF RecordTruncates, LocalOK
  <1>3. \A s \in Suites : /\ manifest'[s].entry = manifest[s].entry
                          /\ manifest'[s].writes = manifest[s].writes
                          /\ s # l.suite => manifest'[s] = manifest[s]
    BY <1>1 DEF RecordTruncates, ManifestOf
  <1>4. /\ n.pc = "write" /\ n.left = l.left /\ n.suite = l.suite
        /\ n.force = l.force /\ n.ran = l.ran /\ n.rebuild = l.rebuild
        /\ n.doc = l.doc
    BY <1>1 DEF RecordTruncates, Goto, LocalState
  <1>5. manifest'[l.suite].torn
    BY <1>1 DEF RecordTruncates, ManifestOf
  <1> QED
    BY <1>1, <1>2, <1>3, <1>4, <1>5 DEF RecordTruncates

LEMMA WriteDoes ==
  ASSUME Typed, NEW p \in Procs, NEW l, l = setup[p], NEW n, n = setup'[p],
         NEW c, c = Current(p), RecordWrites(p)
  PROVE  /\ l.pc = "write" /\ l.suite \in Suites /\ l.left # <<>>
         /\ c \in Range(CircuitsOf(l.suite)) /\ c \in Circuits /\ SuiteOf(c) = l.suite
         /\ n.pc = (IF l.rebuild THEN "record" ELSE "check")
         /\ n.left = Tail(l.left) /\ n.suite = l.suite
         /\ n.force = l.force /\ n.ran = l.ran /\ n.rebuild = l.rebuild
         /\ manifest'[l.suite] = l.doc
         /\ \A s \in Suites \ {l.suite} : manifest'[s] = manifest[s]
         /\ UNCHANGED <<keys, setups, faults, crossed>>
  <1>1. setup \in [Procs -> LocalState] /\ LocalOK(l) /\ l.suite \in Suites
        /\ manifest \in [Suites -> Manifests]
    BY DEF Typed, LocalState
  <1>2. l.pc = "write" /\ l.left # <<>>
    BY <1>1 DEF RecordWrites, LocalOK
  <1>3. c \in Range(CircuitsOf(l.suite)) /\ c \in Circuits /\ SuiteOf(c) = l.suite
    BY <1>1, <1>2, LoopFacts DEF Current
  <1>4. n = NextCircuit(p, l)
    BY <1>1 DEF RecordWrites
  <1>5. /\ n.pc = (IF l.rebuild THEN "record" ELSE "check")
        /\ n.left = Tail(l.left) /\ n.suite = l.suite
        /\ n.force = l.force /\ n.ran = l.ran /\ n.rebuild = l.rebuild
    BY <1>1, <1>4 DEF NextCircuit, LocalOK, LocalState
  <1>6. /\ manifest'[l.suite] = l.doc
        /\ \A s \in Suites \ {l.suite} : manifest'[s] = manifest[s]
    BY <1>1 DEF RecordWrites
  <1> QED
    BY <1>1, <1>2, <1>3, <1>5, <1>6 DEF RecordWrites

LEMMA RebuildDoes ==
  ASSUME Typed, NEW p \in Procs, NEW l, l = setup[p], NEW n, n = setup'[p],
         RebuildBegin(p)
  PROVE  /\ l.pc = "check" /\ l.left = <<>> /\ ~l.ran /\ ~l.rebuild
         /\ n.pc = "record" /\ n.left = CircuitsOf(l.suite) /\ n.suite = l.suite
         /\ n.force = l.force /\ n.ran = l.ran /\ n.rebuild
         /\ UNCHANGED <<keys, manifest, setups, faults, crossed>>
  BY DEF RebuildBegin, RebuildReads, Typed, LocalState

-----------------------------------------------------------------------------
(* Setups are numbered: a key that was on disk, or in a manifest or a       *)
(* transcript, is older than the next one made for its circuit.             *)
Older(e, c) ==
  /\ e.pk <= setups[c] /\ e.vk <= setups[c]
  /\ keys[c].pk # 0 => e.pk <= keys[c].pk
  /\ keys[c].vk # 0 => e.vk <= keys[c].vk
  /\ \A p \in Procs : c = Current(p) =>
       /\ setup[p].pc = "pk" => e.pk < setup[p].key /\ e.vk < setup[p].key
       /\ setup[p].pc = "vk" => e.vk < setup[p].key

(* What an entry records is not the complete pair of keys on disk, and will *)
(* not be again.                                                            *)
Stale(e, c) == e.pk = 0 \/ e.vk = 0 \/ keys[c] # e

InHand == \A p \in Procs : setup[p].pc \in {"pk", "vk"} =>
                             setup[p].key \in 1 .. setups[Current(p)]

LEMMA OtherSteps ==
  ASSUME Typed, NEW p \in Procs,
         \/ SetupPresent(p) \/ SetupFails(p) \/ RecordFails(p) \/ RecordSkips(p)
         \/ RecordReads(p) \/ RecordTruncates(p) \/ RecordWrites(p)
         \/ RebuildFails(p) \/ RebuildBegin(p)
  PROVE  setup'[p].pc \notin {"pk", "vk"} /\ UNCHANGED <<keys, setups>>
  <1>1. PICK l : l = setup[p]
    OBVIOUS
  <1>2. PICK n : n = setup'[p]
    OBVIOUS
  <1>3. PICK c : c = Current(p)
    OBVIOUS
  <1>4. CASE SetupPresent(p)
    BY <1>1, <1>2, <1>4, PresentDoes
  <1>5. CASE SetupFails(p) \/ RecordFails(p) \/ RebuildFails(p)
    BY <1>2, <1>5, FailureDoes
  <1>6. CASE RecordSkips(p)
    BY <1>1, <1>2, <1>3, <1>6, SkipDoes
  <1>7. CASE RecordReads(p)
    BY <1>1, <1>2, <1>3, <1>7, ReadDoes
  <1>8. CASE RecordTruncates(p)
    BY <1>1, <1>2, <1>8, TruncateDoes
  <1>9. CASE RecordWrites(p)
    BY <1>1, <1>2, <1>3, <1>9, WriteDoes
  <1>10. CASE RebuildBegin(p)
    BY <1>1, <1>2, <1>10, RebuildDoes
  <1> QED
    BY <1>4, <1>5, <1>6, <1>7, <1>8, <1>9, <1>10

(* Whether setups cross or not, the number in hand is one of them.          *)
LEMMA HandStays ==
  ASSUME Typed, InHand, [Next]_vars
  PROVE  InHand'
  <1>0. setup \in [Procs -> LocalState] /\ setups \in [Circuits -> Nat]
    BY DEF Typed
  <1>1. CASE UNCHANGED zkVars
    BY <1>1 DEF zkVars, InHand, Current
  <1>2. ASSUME NEW p \in Procs, NEW s \in Suites, NEW force \in BOOLEAN,
               SetupBegin(p, s, force)
        PROVE  InHand'
    <2>1. (\A q \in Procs \ {p} : setup'[q] = setup[q]) /\ setups' = setups
      BY <1>0, <1>2 DEF SetupBegin
    <2>2. setup'[p].pc = "check"
      BY <1>0, <1>2 DEF SetupBegin, Idle
    <2> QED
      BY <2>1, <2>2 DEF InHand, Current
  <1>3. ASSUME NEW p \in Procs, SetupStep(p)
        PROVE  InHand'
    <2>1. \A q \in Procs \ {p} : setup'[q] = setup[q]
      BY <1>3, OthersStay
    <2>2. PICK l : l = setup[p]
      OBVIOUS
    <2>3. PICK n : n = setup'[p]
      OBVIOUS
    <2>4. PICK c : c = Current(p)
      OBVIOUS
    <2>5. CASE SetupProve(p)
      <3>1. /\ l.left # <<>> /\ n.left = l.left /\ n.key = setups[c] + 1
            /\ setups' = [setups EXCEPT ![c] = @ + 1]
        BY <2>2, <2>3, <2>4, <2>5, ProveDoes
      <3>2. c \in Circuits
        BY <2>2, <2>4, <3>1, LoopFacts DEF Current, Typed
      <3>3. n.key \in 1 .. setups'[c] /\ Current(p)' = c
        BY <1>0, <2>2, <2>3, <2>4, <3>1, <3>2 DEF Current
      <3>4. ASSUME NEW q \in Procs \ {p}, setup[q].pc \in {"pk", "vk"}
            PROVE  setup[q].key \in 1 .. setups'[Current(q)]
        <4>1. Current(q) \in Circuits
          BY <3>4, LoopFacts DEF Current, Typed, LocalOK
        <4>2. setups'[Current(q)] \in {setups[Current(q)], setups[Current(q)] + 1}
          BY <1>0, <3>1, <3>2, <4>1
        <4> QED
          BY <1>0, <3>4, <4>1, <4>2 DEF InHand
      <3> QED
        BY <2>1, <2>3, <3>3, <3>4 DEF InHand, Current
    <2>6. CASE SetupPk(p)
      <3>1. l.pc = "pk" /\ n.left = l.left /\ n.key = l.key /\ setups' = setups
        BY <2>2, <2>3, <2>4, <2>6, PkDoes
      <3> QED
        BY <2>1, <2>2, <2>3, <3>1 DEF InHand, Current
    <2>7. CASE SetupVk(p)
      <3>1. n.pc = "record" /\ setups' = setups
        BY <2>2, <2>3, <2>4, <2>7, VkDoes
      <3> QED
        BY <2>1, <2>3, <3>1 DEF InHand, Current
    <2>8. CASE ~(SetupProve(p) \/ SetupPk(p) \/ SetupVk(p))
      <3>1. setup'[p].pc \notin {"pk", "vk"} /\ setups' = setups
        BY <1>3, <2>8, OtherSteps DEF SetupStep
      <3> QED
        BY <2>1, <3>1 DEF InHand, Current
    <2> QED
      BY <2>5, <2>6, <2>7, <2>8
  <1>4. ASSUME NEW p \in Procs, Drops(p)
        PROVE  InHand'
    <2>1. \A q \in Procs \ {p} : setup'[q] = setup[q]
      BY <1>4, OthersStay
    <2>2. setup'[p].pc = "idle" /\ setups' = setups
      BY <1>0, <1>4 DEF Drops, Idle
    <2> QED
      BY <2>1, <2>2 DEF InHand, Current
  <1>5. ASSUME NEW c \in Circuits, LoseKey(c)
        PROVE  InHand'
    BY <1>5 DEF LoseKey, InHand, Current
  <1>6. ZkNext
    BY StepsOfKeys
  <1> QED
    BY <1>1, <1>2, <1>3, <1>4, <1>5, <1>6 DEF ZkNext

(* Where no two setups meet, older stays older, and stale stays stale.      *)
LEMMA OlderStays ==
  ASSUME Typed, KeptInv, [Next]_vars, ~crossed',
         NEW e \in Pair, NEW c \in Circuits, Older(e, c)
  PROVE  /\ Older(e, c)'
         /\ Stale(e, c) => Stale(e, c)'
  <1>0. /\ setup \in [Procs -> LocalState] /\ setups \in [Circuits -> Nat]
        /\ keys \in [Circuits -> Pair] /\ e.pk \in Nat /\ e.vk \in Nat
        /\ keys[c].pk \in Nat /\ keys[c].vk \in Nat /\ setups[c] \in Nat
    BY DEF Typed, Pair
  <1>1. CASE UNCHANGED zkVars
    BY <1>1 DEF zkVars, Older, Stale, Current
  <1>2. ASSUME NEW p \in Procs, NEW s \in Suites, NEW force \in BOOLEAN,
               SetupBegin(p, s, force)
        PROVE  Older(e, c)' /\ (Stale(e, c) => Stale(e, c)')
    <2>1. (\A q \in Procs \ {p} : setup'[q] = setup[q]) /\ UNCHANGED <<keys, setups>>
      BY <1>0, <1>2 DEF SetupBegin
    <2>2. setup'[p].pc = "check"
      BY <1>0, <1>2 DEF SetupBegin, Idle
    <2> QED
      BY <2>1, <2>2 DEF Older, Stale, Current
  <1>3. ASSUME NEW p \in Procs, SetupStep(p)
        PROVE  Older(e, c)' /\ (Stale(e, c) => Stale(e, c)')
    <2>1. /\ \A q \in Procs \ {p} : setup'[q] = setup[q]
          /\ \A q \in Procs \ {p} : setup[q].pc \notin {"pk", "vk"}
      BY <1>3, OthersStay, StepIsBusy DEF KeptInv, Alone, Busy
    <2>2. PICK l : l = setup[p]
      OBVIOUS
    <2>3. PICK n : n = setup'[p]
      OBVIOUS
    <2>4. PICK d : d = Current(p)
      OBVIOUS
    <2>5. CASE SetupProve(p)
      <3>1. /\ l.left # <<>> /\ n.left = l.left /\ n.pc = "pk"
            /\ n.key = setups[d] + 1
            /\ setups' = [setups EXCEPT ![d] = @ + 1] /\ keys' = keys
        BY <2>2, <2>3, <2>4, <2>5, ProveDoes
      <3>2. Current(p)' = d
        BY <2>2, <2>3, <2>4, <3>1 DEF Current
      <3>3. e.pk <= setups'[c] /\ e.vk <= setups'[c]
        BY <1>0, <3>1 DEF Older
      <3>4. d = c => e.pk < n.key /\ e.vk < n.key
        BY <1>0, <3>1 DEF Older
      <3>5. Older(e, c)'
        BY <2>1, <2>3, <3>1, <3>2, <3>3, <3>4 DEF Older
      <3> QED
        BY <3>1, <3>5 DEF Stale
    <2>6. CASE SetupPk(p)
      <3>1. /\ l.pc = "pk" /\ n.pc = "vk" /\ n.left = l.left /\ n.key = l.key
            /\ setups' = setups /\ l.key \in Nat
            /\ keys'[d].pk = l.key /\ keys'[d].vk = keys[d].vk
            /\ \A b \in Circuits \ {d} : keys'[b] = keys[b]
        BY <2>2, <2>3, <2>4, <2>6, PkDoes
      <3>2. Current(p)' = d
        BY <2>2, <2>3, <2>4, <3>1 DEF Current
      <3>3. d = c => e.pk < l.key /\ e.vk < l.key
        BY <2>2, <2>4, <3>1 DEF Older
      <3>4. Older(e, c)'
        <4>1. /\ keys'[c].pk # 0 => e.pk <= keys'[c].pk
              /\ keys'[c].vk # 0 => e.vk <= keys'[c].vk
          BY <1>0, <3>1, <3>3 DEF Older
        <4>2. ASSUME NEW q \in Procs, c = Current(q)'
              PROVE  /\ setup'[q].pc # "pk"
                     /\ setup'[q].pc = "vk" => e.vk < setup'[q].key
          BY <2>1, <2>3, <3>1, <3>2, <3>3, <4>2
        <4>3. e.pk <= setups'[c] /\ e.vk <= setups'[c]
          BY <3>1 DEF Older
        <4> QED
          BY <4>1, <4>2, <4>3 DEF Older
      <3>5. keys'[c] = keys[c] \/ keys'[c].pk # e.pk
        BY <1>0, <3>1, <3>3
      <3> QED
        BY <3>4, <3>5 DEF Stale
    <2>7. CASE SetupVk(p)
      <3>1. /\ l.pc = "vk" /\ n.pc = "record" /\ setups' = setups
            /\ l.key \in Nat
            /\ keys'[d].vk = l.key /\ keys'[d].pk = keys[d].pk
            /\ \A b \in Circuits \ {d} : keys'[b] = keys[b]
        BY <2>2, <2>3, <2>4, <2>7, VkDoes
      <3>2. d = c => e.vk < l.key
        BY <2>2, <2>4, <3>1 DEF Older
      <3>3. Older(e, c)'
        <4>1. /\ keys'[c].pk # 0 => e.pk <= keys'[c].pk
              /\ keys'[c].vk # 0 => e.vk <= keys'[c].vk
          BY <1>0, <3>1, <3>2 DEF Older
        <4>2. \A q \in Procs : setup'[q].pc \notin {"pk", "vk"}
          BY <2>1, <2>3, <3>1
        <4>3. e.pk <= setups'[c] /\ e.vk <= setups'[c]
          BY <3>1 DEF Older
        <4> QED
          BY <4>1, <4>2, <4>3 DEF Older
      <3>4. keys'[c] = keys[c] \/ keys'[c].vk # e.vk
        BY <1>0, <3>1, <3>2
      <3> QED
        BY <3>3, <3>4 DEF Stale
    <2>8. CASE ~(SetupProve(p) \/ SetupPk(p) \/ SetupVk(p))
      <3>1. setup'[p].pc \notin {"pk", "vk"} /\ UNCHANGED <<keys, setups>>
        BY <1>3, <2>8, OtherSteps DEF SetupStep
      <3> QED
        BY <2>1, <3>1 DEF Older, Stale, Current
    <2> QED
      BY <2>5, <2>6, <2>7, <2>8
  <1>4. ASSUME NEW p \in Procs, Drops(p)
        PROVE  Older(e, c)' /\ (Stale(e, c) => Stale(e, c)')
    <2>1. \A q \in Procs \ {p} : setup'[q] = setup[q]
      BY <1>4, OthersStay
    <2>2. setup'[p].pc = "idle" /\ UNCHANGED <<keys, setups>>
      BY <1>0, <1>4 DEF Drops, Idle
    <2> QED
      BY <2>1, <2>2 DEF Older, Stale, Current
  <1>5. ASSUME NEW d \in Circuits, LoseKey(d)
        PROVE  Older(e, c)' /\ (Stale(e, c) => Stale(e, c)')
    <2>1. UNCHANGED <<setup, setups>>
      BY <1>5 DEF LoseKey
    <2>2. /\ keys'[c].pk \in {keys[c].pk, 0} /\ keys'[c].vk \in {keys[c].vk, 0}
          /\ keys'[c] = keys[c] \/ keys'[c].pk = 0 \/ keys'[c].vk = 0
      BY <1>0, <1>5 DEF LoseKey, Pair
    <2>3. Older(e, c)'
      BY <2>1, <2>2 DEF Older, Current
    <2> QED
      BY <2>2, <2>3 DEF Stale
  <1>6. ZkNext
    BY StepsOfKeys
  <1> QED
    BY <1>1, <1>2, <1>3, <1>4, <1>5, <1>6 DEF ZkNext

-----------------------------------------------------------------------------
(* What a step of Install is to the transcript.                             *)
Files ==
  \/ transcript' = transcript
  \/ /\ transcript'.exists /\ transcript'.doc = manifest
     /\ \A s \in Suites : ~manifest[s].torn
     /\ UNCHANGED zkVars

LEMMA StepsOfTranscript == [Next]_vars => Files
  <1> SUFFICES ASSUME [Next]_vars, transcript' # transcript  PROVE  Files
    BY DEF Files
  <1>1. Next
    BY DEF vars
  <1>2. ASSUME NEW p \in Procs, WriteTranscript(p)
        PROVE  Files
    BY <1>2 DEF WriteTranscript, Files, Readable
  <1>3. ASSUME NEW p \in Procs,
               \/ \E c \in DOMAIN Plan : Start(p, c)
               \/ \E s \in Suites : ZkBegin(p, s)
               \/ ZkStep(p) \/ ZkReturn(p)
               \/ PolicyStep(p) \/ LoadRuntime(p)
               \/ CheckHealth(p) \/ InstallCollect(p) \/ IntegrationsRead(p)
               \/ InstallTruncate(p) \/ InstallWrite(p)
               \/ SmokeDoctor(p) \/ SmokeVerify(p) \/ Die(p)
        PROVE  FALSE
    BY <1>3 DEF Start, ZkBegin, ZkStep, ZkReturn, PolicyStep, LoadRuntime,
       CheckHealth, InstallCollect, IntegrationsRead, InstallTruncate, InstallWrite,
       SmokeDoctor, SmokeVerify, Die, instVars
  <1>4. ASSUME NEW c \in Circuits, Lose(c)
        PROVE  FALSE
    BY <1>4 DEF Lose, instVars
  <1> QED
    BY <1>1, <1>2, <1>3, <1>4 DEF Next

FiledTyped ==
  transcript.exists => \A s \in Suites : /\ transcript.doc[s] \in ManifestOf(s)
                                         /\ ~transcript.doc[s].torn
                                         /\ transcript.doc \in [Suites -> Manifests]

LEMMA FiledStays ==
  ASSUME Typed, FiledTyped, [Next]_vars
  PROVE  FiledTyped'
  <1>1. CASE transcript' = transcript
    BY <1>1 DEF FiledTyped
  <1>2. CASE transcript'.doc = manifest /\ \A s \in Suites : ~manifest[s].torn
    BY <1>2 DEF FiledTyped, Typed
  <1> QED
    BY <1>1, <1>2, StepsOfTranscript DEF Files

(* The pairs of numbers that are on record for circuit c: its keys, the     *)
(* entry of the manifest, that of a manifest about to be written, that of   *)
(* the transcript.                                                          *)
Filed(c) == transcript.doc[SuiteOf(c)].entry[c]

Records(c, p) == setup[p].pc \in {"truncate", "write"} /\ setup[p].suite = SuiteOf(c)

OnRecord(e, c) ==
  \/ e = keys[c]
  \/ e = Entry(c)
  \/ \E p \in Procs : Records(c, p) /\ e = setup[p].doc.entry[c]
  \/ transcript.exists /\ e = Filed(c)

LEMMA RecordTyped ==
  ASSUME Typed, FiledTyped, NEW c \in Circuits, NEW e, OnRecord(e, c)
  PROVE  e \in Pair
  <1>1. SuiteOf(c) \in Suites /\ c \in Range(CircuitsOf(SuiteOf(c)))
    BY CircuitsOfSuites
  <1>2. CASE e = keys[c]
    BY <1>2 DEF Typed
  <1>3. CASE e = Entry(c)
    <2>1. manifest[SuiteOf(c)] \in ManifestOf(SuiteOf(c))
      BY <1>1 DEF Typed
    <2> QED
      BY <1>1, <1>3, <2>1 DEF Entry, ManifestOf
  <1>4. ASSUME NEW p \in Procs, Records(c, p), e = setup[p].doc.entry[c]
        PROVE  e \in Pair
    <2>1. setup[p].doc \in ManifestOf(SuiteOf(c))
      BY <1>4 DEF Typed, LocalOK, Records
    <2> QED
      BY <1>1, <1>4, <2>1 DEF ManifestOf
  <1>5. CASE transcript.exists /\ e = Filed(c)
    <2>1. transcript.doc[SuiteOf(c)] \in ManifestOf(SuiteOf(c))
      BY <1>1, <1>5 DEF FiledTyped
    <2> QED
      BY <1>1, <1>5, <2>1 DEF Filed, ManifestOf
  <1> QED
    BY <1>2, <1>3, <1>4, <1>5 DEF OnRecord

(* Nothing comes on record but the keys on disk.                            *)
LEMMA RecordGrows ==
  ASSUME Typed, [Next]_vars, NEW c \in Circuits, NEW e, OnRecord(e, c)'
  PROVE  OnRecord(e, c) \/ e = keys'[c]
  <1>0. setup \in [Procs -> LocalState] /\ SuiteOf(c) \in Suites
        /\ c \in Range(CircuitsOf(SuiteOf(c)))
    BY CircuitsOfSuites DEF Typed
  <1> SUFFICES ASSUME e # keys'[c]  PROVE  OnRecord(e, c)
    OBVIOUS
  <1>1. \/ e = Entry(c)'
        \/ \E p \in Procs : Records(c, p)' /\ e = setup'[p].doc.entry[c]
        \/ transcript'.exists /\ e = Filed(c)'
    BY DEF OnRecord
  <1>2. CASE transcript'.exists /\ e = Filed(c)'
    BY <1>2, StepsOfTranscript DEF Files, Filed, Entry, OnRecord
  <1>3. ASSUME e = Entry(c)' \/ \E p \in Procs : Records(c, p)' /\ e = setup'[p].doc.entry[c]
        PROVE  OnRecord(e, c)
    <2>1. CASE UNCHANGED zkVars
      BY <1>3, <2>1 DEF zkVars, OnRecord, Entry, Records
    <2>2. ASSUME NEW p \in Procs,
                 \A q \in Procs \ {p} : setup'[q] = setup[q],
                 setup'[p].pc \notin {"truncate", "write"}, manifest' = manifest
          PROVE  OnRecord(e, c)
      BY <1>3, <2>2 DEF OnRecord, Entry, Records
    <2>3. ASSUME NEW p \in Procs, NEW s \in Suites, NEW force \in BOOLEAN,
                 SetupBegin(p, s, force)
          PROVE  OnRecord(e, c)
      <3>1. (\A q \in Procs \ {p} : setup'[q] = setup[q]) /\ manifest' = manifest
        BY <1>0, <2>3 DEF SetupBegin
      <3>2. setup'[p].pc = "check"
        BY <1>0, <2>3 DEF SetupBegin, Idle
      <3> QED
        BY <2>2, <3>1, <3>2
    <2>4. ASSUME NEW p \in Procs, SetupStep(p)
          PROVE  OnRecord(e, c)
      <3>1. \A q \in Procs \ {p} : setup'[q] = setup[q]
        BY <2>4, OthersStay
      <3>2. PICK l : l = setup[p]
        OBVIOUS
      <3>3. PICK n : n = setup'[p]
        OBVIOUS
      <3>4. PICK d : d = Current(p)
        OBVIOUS
      <3>5. CASE SetupPresent(p)
        BY <2>2, <3>1, <3>2, <3>3, <3>5, PresentDoes
      <3>6. CASE SetupProve(p)
        BY <2>2, <3>1, <3>2, <3>3, <3>4, <3>6, ProveDoes
      <3>7. CASE SetupPk(p)
        BY <2>2, <3>1, <3>2, <3>3, <3>4, <3>7, PkDoes
      <3>8. CASE SetupVk(p)
        BY <2>2, <3>1, <3>2, <3>3, <3>4, <3>8, VkDoes
      <3>9. CASE SetupFails(p) \/ RecordFails(p) \/ RebuildFails(p)
        BY <2>2, <3>1, <3>3, <3>9, FailureDoes
      <3>10. CASE RecordSkips(p)
        BY <2>2, <3>1, <3>2, <3>3, <3>4, <3>10, SkipDoes
      <3>11. CASE RebuildBegin(p)
        BY <2>2, <3>1, <3>2, <3>3, <3>11, RebuildDoes
      <3>12. CASE RecordReads(p)
        <4>1. /\ n.suite = l.suite /\ l.suite \in Suites
              /\ n.doc.entry = [manifest[l.suite].entry EXCEPT ![d] = keys[d]]
              /\ UNCHANGED <<keys, manifest>>
          BY <3>2, <3>3, <3>4, <3>12, ReadDoes
        <4>2. manifest[l.suite] \in ManifestOf(l.suite)
          BY <4>1 DEF Typed
        <4>3. l.suite = SuiteOf(c) => n.doc.entry[c] \in {Entry(c), keys[c]}
          BY <1>0, <4>1, <4>2 DEF Entry, ManifestOf
        <4>4. CASE e = Entry(c)'
          BY <4>1, <4>4 DEF OnRecord, Entry
        <4>5. ASSUME NEW q \in Procs, Records(c, q)', e = setup'[q].doc.entry[c]
              PROVE  OnRecord(e, c)
          <5>1. CASE q = p
            BY <3>2, <3>3, <4>1, <4>3, <4>5, <5>1 DEF OnRecord, Records
          <5>2. CASE q # p
            BY <3>1, <4>5, <5>2 DEF OnRecord, Records
          <5> QED
            BY <5>1, <5>2
        <4> QED
          BY <1>3, <4>4, <4>5
      <3>13. CASE RecordTruncates(p)
        <4>1. /\ n.suite = l.suite /\ l.pc = "truncate" /\ n.doc = l.doc
              /\ \A s \in Suites : manifest'[s].entry = manifest[s].entry
          BY <3>2, <3>3, <3>13, TruncateDoes
        <4> QED
          BY <1>0, <1>3, <3>1, <3>2, <3>3, <4>1 DEF OnRecord, Entry, Records
      <3>14. CASE RecordWrites(p)
        <4>1. /\ l.pc = "write" /\ n.pc \in {"record", "check"}
              /\ manifest'[l.suite] = l.doc
              /\ \A s \in Suites \ {l.suite} : manifest'[s] = manifest[s]
          BY <3>2, <3>3, <3>4, <3>14, WriteDoes
        <4> QED
          BY <1>0, <1>3, <3>1, <3>2, <3>3, <4>1 DEF OnRecord, Entry, Records
      <3> QED
        BY <2>4, <3>5, <3>6, <3>7, <3>8, <3>9, <3>10, <3>11, <3>12, <3>13, <3>14
           DEF SetupStep
    <2>5. ASSUME NEW p \in Procs, Drops(p)
          PROVE  OnRecord(e, c)
      <3>1. \A q \in Procs \ {p} : setup'[q] = setup[q]
        BY <2>5, OthersStay
      <3>2. setup'[p].pc = "idle" /\ manifest' = manifest
        BY <1>0, <2>5 DEF Drops, Idle
      <3> QED
        BY <2>2, <3>1, <3>2
    <2>6. ASSUME NEW d \in Circuits, LoseKey(d)
          PROVE  OnRecord(e, c)
      BY <1>3, <2>6 DEF LoseKey, OnRecord, Entry, Records
    <2>7. ZkNext
      BY StepsOfKeys
    <2> QED
      BY <2>1, <2>3, <2>4, <2>5, <2>6, <2>7 DEF ZkNext
  <1> QED
    BY <1>1, <1>2, <1>3

-----------------------------------------------------------------------------
Dated ==
  \A c \in Circuits, e \in Pair : OnRecord(e, c) =>
    /\ e.pk <= setups[c] /\ e.vk <= setups[c]
    /\ ~crossed => Older(e, c)

LEMMA CrossedStays ==
  ASSUME Typed, [Next]_vars
  PROVE  /\ crossed => crossed'
         /\ \A c \in Circuits : setups[c] <= setups'[c]
  <1>0. setups \in [Circuits -> Nat] /\ setup \in [Procs -> LocalState]
    BY DEF Typed
  <1>1. CASE UNCHANGED zkVars
    BY <1>0, <1>1 DEF zkVars
  <1>2. ASSUME NEW p \in Procs, NEW s \in Suites, NEW force \in BOOLEAN,
               SetupBegin(p, s, force)
        PROVE  (crossed => crossed') /\ setups' = setups
    <2>1. crossed => crossed'
      BY <1>2, OrStays DEF SetupBegin
    <2> QED
      BY <1>2, <2>1 DEF SetupBegin
  <1>3. ASSUME NEW p \in Procs, SetupStep(p)
        PROVE  crossed' = crossed /\ \A c \in Circuits : setups[c] <= setups'[c]
    <2>1. crossed' = crossed
      BY <1>3, OthersStay
    <2>2. CASE SetupProve(p)
      <3>1. setups' = [setups EXCEPT ![Current(p)] = @ + 1]
        BY <2>2 DEF SetupProve
      <3> QED
        BY <1>0, <2>1, <3>1
    <2>3. CASE ~SetupProve(p)
      <3>1. setups' = setups
        BY <1>3, <2>3 DEF SetupStep, SetupPresent, SetupPk, SetupVk, SetupFails,
           RecordFails, RecordSkips, RecordReads, RecordTruncates, RecordWrites,
           RebuildFails, RebuildBegin
      <3> QED
        BY <1>0, <2>1, <3>1
    <2> QED
      BY <2>2, <2>3
  <1>4. ASSUME NEW p \in Procs, Drops(p)
        PROVE  crossed' = crossed /\ setups' = setups
    BY <1>4 DEF Drops
  <1>5. ASSUME NEW c \in Circuits, LoseKey(c)
        PROVE  crossed' = crossed /\ setups' = setups
    BY <1>5 DEF LoseKey
  <1>6. ZkNext
    BY StepsOfKeys
  <1> QED
    BY <1>0, <1>1, <1>2, <1>3, <1>4, <1>5, <1>6 DEF ZkNext

(* The keys that a step puts on disk are the newest.                        *)
LEMMA KeysDated ==
  ASSUME Typed, KeptInv, InHand, Dated, [Next]_vars, NEW c \in Circuits,
         NEW k, k = keys'[c], k # keys[c]
  PROVE  /\ k.pk <= setups'[c] /\ k.vk <= setups'[c]
         /\ ~crossed' => Older(k, c)'
  <1>0. /\ setup \in [Procs -> LocalState] /\ setups \in [Circuits -> Nat]
        /\ keys \in [Circuits -> Pair] /\ keys[c] \in Pair
        /\ keys[c].pk \in Nat /\ keys[c].vk \in Nat /\ setups[c] \in Nat
    BY DEF Typed, Pair
  <1>1. keys[c].pk <= setups[c] /\ keys[c].vk <= setups[c]
        /\ (~crossed => Older(keys[c], c))
    BY <1>0 DEF Dated, OnRecord
  <1>2. ASSUME NEW p \in Procs, SetupPk(p)
        PROVE  /\ k.pk <= setups'[c] /\ k.vk <= setups'[c]
               /\ ~crossed' => Older(k, c)'
    <2>1. PICK l : l = setup[p]
      OBVIOUS
    <2>2. PICK n : n = setup'[p]
      OBVIOUS
    <2>3. PICK d : d = Current(p)
      OBVIOUS
    <2>4. /\ l.pc = "pk" /\ n.pc = "vk" /\ n.left = l.left /\ n.key = l.key
          /\ setups' = setups /\ crossed' = crossed /\ l.key \in Nat
          /\ keys'[d].pk = l.key /\ keys'[d].vk = keys[d].vk
          /\ \A b \in Circuits \ {d} : keys'[b] = keys[b]
      BY <1>2, <2>1, <2>2, <2>3, PkDoes
    <2>5. c = d
      BY <2>4
    <2>6. l.key <= setups[c]
      BY <1>0, <2>1, <2>3, <2>4, <2>5 DEF InHand
    <2>7. ASSUME ~crossed'
          PROVE  Older(k, c)'
      <3>1. \A q \in Procs \ {p} : setup'[q].pc \notin {"pk", "vk"}
        BY <1>2, <2>4, <2>7, OthersStay, StepIsBusy DEF SetupStep, KeptInv, Alone, Busy
      <3>2. keys[c].vk < l.key
        BY <1>1, <2>1, <2>3, <2>4, <2>5, <2>7 DEF Older
      <3>3. ASSUME NEW q \in Procs, c = Current(q)'
            PROVE  /\ setup'[q].pc # "pk"
                   /\ setup'[q].pc = "vk" => keys'[c].vk < setup'[q].key
        BY <2>2, <2>4, <2>5, <3>1, <3>2
      <3>4. keys'[c].pk \in Nat /\ keys'[c].vk \in Nat
        BY <1>0, <2>4, <2>5
      <3> QED
        BY <1>0, <1>1, <2>4, <2>5, <2>6, <3>3, <3>4 DEF Older
    <2> QED
      BY <1>1, <2>4, <2>5, <2>6, <2>7
  <1>3. ASSUME NEW p \in Procs, SetupVk(p)
        PROVE  /\ k.pk <= setups'[c] /\ k.vk <= setups'[c]
               /\ ~crossed' => Older(k, c)'
    <2>1. PICK l : l = setup[p]
      OBVIOUS
    <2>2. PICK n : n = setup'[p]
      OBVIOUS
    <2>3. PICK d : d = Current(p)
      OBVIOUS
    <2>4. /\ l.pc = "vk" /\ n.pc = "record"
          /\ setups' = setups /\ crossed' = crossed /\ l.key \in Nat
          /\ keys'[d].vk = l.key /\ keys'[d].pk = keys[d].pk
          /\ \A b \in Circuits \ {d} : keys'[b] = keys[b]
      BY <1>3, <2>1, <2>2, <2>3, VkDoes
    <2>5. c = d
      BY <2>4
    <2>6. l.key <= setups[c]
      BY <1>0, <2>1, <2>3, <2>4, <2>5 DEF InHand
    <2>7. ASSUME ~crossed'
          PROVE  Older(k, c)'
      <3>1. \A q \in Procs : setup'[q].pc \notin {"pk", "vk"}
        BY <1>3, <2>2, <2>4, <2>7, OthersStay, StepIsBusy
           DEF SetupStep, KeptInv, Alone, Busy
      <3>2. keys'[c].pk \in Nat /\ keys'[c].vk \in Nat
        BY <1>0, <2>4, <2>5
      <3> QED
        BY <1>0, <1>1, <2>4, <2>5, <2>6, <3>1, <3>2 DEF Older
    <2> QED
      BY <1>1, <2>4, <2>5, <2>6, <2>7
  <1>4. ASSUME NEW d \in Circuits, LoseKey(d)
        PROVE  /\ k.pk <= setups'[c] /\ k.vk <= setups'[c]
               /\ ~crossed' => Older(k, c)'
    <2>1. UNCHANGED <<setup, setups, crossed>>
      BY <1>4 DEF LoseKey
    <2>2. keys'[c].pk \in {keys[c].pk, 0} /\ keys'[c].vk \in {keys[c].vk, 0}
      BY <1>0, <1>4 DEF LoseKey, Pair
    <2>3. k.pk <= setups'[c] /\ k.vk <= setups'[c]
      BY <1>0, <1>1, <2>1, <2>2
    <2>4. ASSUME ~crossed', NEW p \in Procs, c = Current(p)'
          PROVE  /\ setup'[p].pc = "pk" => /\ keys'[c].pk < setup'[p].key
                                           /\ keys'[c].vk < setup'[p].key
                 /\ setup'[p].pc = "vk" => keys'[c].vk < setup'[p].key
      <3>1. Older(keys[c], c) /\ c = Current(p)
        BY <1>1, <2>1, <2>4 DEF Current
      <3>2. setup[p].pc \in {"pk", "vk"} => 0 < setup[p].key
        BY <1>0, <3>1 DEF InHand
      <3> QED
        BY <2>1, <2>2, <3>1, <3>2 DEF Older
    <2>5. keys'[c].pk <= keys'[c].pk /\ keys'[c].vk <= keys'[c].vk
      BY <1>0, <2>2
    <2> QED
      BY <2>3, <2>4, <2>5 DEF Older
  <1>5. ASSUME NEW p \in Procs, SetupStep(p)
        PROVE  SetupPk(p) \/ SetupVk(p)
    <2>1. keys' # keys
      OBVIOUS
    <2> QED
      BY <1>5, <2>1, KeysChange
  <1>6. ZkNext
    BY StepsOfKeys
  <1>7. \/ \E p \in Procs : SetupPk(p) \/ SetupVk(p)
        \/ \E d \in Circuits : LoseKey(d)
    BY <1>5, <1>6 DEF ZkNext, zkVars, SetupBegin, Drops
  <1> QED
    BY <1>2, <1>3, <1>4, <1>7

LEMMA DatedStays ==
  ASSUME Typed, KeptInv, FiledTyped, InHand, Dated, [Next]_vars
  PROVE  Dated'
  <1> SUFFICES ASSUME NEW c \in Circuits, NEW e \in Pair, OnRecord(e, c)'
               PROVE  /\ e.pk <= setups'[c] /\ e.vk <= setups'[c]
                      /\ ~crossed' => Older(e, c)'
    BY DEF Dated
  <1>1. CASE OnRecord(e, c)
    <2>1. e.pk <= setups[c] /\ e.vk <= setups[c] /\ (~crossed => Older(e, c))
      BY <1>1 DEF Dated
    <2>2. e.pk \in Nat /\ e.vk \in Nat /\ setups[c] \in Nat /\ setups'[c] \in Nat
      BY StepTyped DEF Typed, Pair
    <2>3. e.pk <= setups'[c] /\ e.vk <= setups'[c]
      BY <2>1, <2>2, CrossedStays
    <2>4. ~crossed' => Older(e, c)'
      BY <2>1, CrossedStays, OlderStays
    <2> QED
      BY <2>3, <2>4
  <1>2. CASE ~OnRecord(e, c)
    <2>1. e = keys'[c] /\ keys'[c] # keys[c]
      BY <1>2, RecordGrows DEF OnRecord
    <2>2. PICK k : k = keys'[c]
      OBVIOUS
    <2>3. /\ k.pk <= setups'[c] /\ k.vk <= setups'[c]
          /\ ~crossed' => Older(k, c)'
      BY <2>1, <2>2, KeysDated
    <2> QED
      BY <2>1, <2>2, <2>3
  <1> QED
    BY <1>1, <1>2

LEMMA InitDated == Init => InHand /\ FiledTyped /\ Dated
  <1> SUFFICES ASSUME Init  PROVE  InHand /\ FiledTyped /\ Dated
    OBVIOUS
  <1>1. PICK old \in OldKeys : ZkInit(old)
    BY DEF Init
  <1>2. old \in {Absent, Vendor}
    BY <1>1, InstallAssumption
  <1>3. \A p \in Procs : setup[p].pc = "idle"
    BY <1>1 DEF ZkInit, Idle
  <1>4. ~transcript.exists
    BY DEF Init, NoTranscript
  <1>5. \A c \in Circuits : keys[c] = old /\ setups[c] = 1
    BY <1>1 DEF ZkInit
  <1>6. ASSUME NEW c \in Circuits  PROVE  Entry(c) = old
    <2>1. SuiteOf(c) \in Suites /\ c \in Range(CircuitsOf(SuiteOf(c)))
      BY CircuitsOfSuites
    <2> QED
      BY <1>1, <2>1 DEF ZkInit, NoManifest, Entry
  <1>7. ASSUME NEW c \in Circuits, NEW e, OnRecord(e, c)  PROVE  e = old
    BY <1>3, <1>4, <1>5, <1>6, <1>7 DEF OnRecord, Records
  <1>8. \A c \in Circuits : Older(old, c)
    <2>1. old.pk \in {0, 1} /\ old.vk \in {0, 1}
      BY <1>2 DEF Absent, Vendor
    <2> QED
      BY <1>3, <1>5, <2>1 DEF Older
  <1>9. Dated
    BY <1>7, <1>8 DEF Dated, Older
  <1> QED
    BY <1>3, <1>4, <1>9 DEF InHand, FiledTyped

-----------------------------------------------------------------------------
(* A manifest is about to be written only where an entry differs from the   *)
(* keys on disk, and is torn until the text is there.                       *)
WritesStale ==
  ~crossed => \A p \in Procs :
    /\ setup[p].pc = "truncate" => Stale(Entry(Current(p)), Current(p))
    /\ setup[p].pc = "write" => manifest[setup[p].suite].torn

LEMMA ManifestSteps ==
  ASSUME Typed, NEW p \in Procs, SetupStep(p)
  PROVE  \/ RecordReads(p) \/ RecordTruncates(p) \/ RecordWrites(p)
         \/ manifest' = manifest /\ setup'[p].pc \notin {"truncate", "write"}
  <1>1. PICK l : l = setup[p]
    OBVIOUS
  <1>2. PICK n : n = setup'[p]
    OBVIOUS
  <1>3. PICK c : c = Current(p)
    OBVIOUS
  <1>4. CASE SetupPresent(p)
    BY <1>1, <1>2, <1>4, PresentDoes
  <1>5. CASE SetupProve(p)
    BY <1>1, <1>2, <1>3, <1>5, ProveDoes
  <1>6. CASE SetupPk(p)
    BY <1>1, <1>2, <1>3, <1>6, PkDoes
  <1>7. CASE SetupVk(p)
    BY <1>1, <1>2, <1>3, <1>7, VkDoes
  <1>8. CASE SetupFails(p) \/ RecordFails(p) \/ RebuildFails(p)
    BY <1>2, <1>8, FailureDoes
  <1>9. CASE RecordSkips(p)
    BY <1>1, <1>2, <1>3, <1>9, SkipDoes
  <1>10. CASE RebuildBegin(p)
    BY <1>1, <1>2, <1>10, RebuildDoes
  <1> QED
    BY <1>4, <1>5, <1>6, <1>7, <1>8, <1>9, <1>10 DEF SetupStep

LEMMA EntriesAreStill ==
  ASSUME Typed, NEW c \in Circuits,
         \A s \in Suites : manifest'[s].entry = manifest[s].entry
  PROVE  Entry(c)' = Entry(c)
  BY CircuitsOfSuites DEF Entry

LEMMA CurrentIsCircuit ==
  ASSUME Typed, NEW p \in Procs, setup[p].pc \in {"truncate", "write"}
  PROVE  Current(p) \in Circuits /\ SuiteOf(Current(p)) = setup[p].suite
         /\ Current(p) \in Range(CircuitsOf(setup[p].suite))
  BY LoopFacts DEF Typed, LocalOK, Current

LEMMA EntryStaysStale ==
  ASSUME Typed, KeptInv, FiledTyped, Dated, [Next]_vars, ~crossed',
         NEW c \in Circuits, NEW e, OnRecord(e, c), Stale(e, c)
  PROVE  Stale(e, c)'
  <1>1. ~crossed
    BY CrossedStays
  <1>2. e \in Pair
    BY RecordTyped
  <1>3. Older(e, c)
    BY <1>1, <1>2 DEF Dated
  <1> QED
    BY <1>2, <1>3, OlderStays

LEMMA ReadIsStale ==
  ASSUME Typed, NEW p \in Procs, RecordReads(p)
  PROVE  setup'[p].pc = "truncate" /\ Stale(Entry(Current(p)), Current(p))'
  <1>1. /\ setup'[p].pc = "truncate" /\ setup'[p].left = setup[p].left
        /\ UNCHANGED <<keys, manifest>>
    BY DEF RecordReads, Typed, LocalState
  <1>2. Current(p)' = Current(p)
    BY <1>1 DEF Current
  <1>3. setup[p].left # <<>> /\ LocalOK(setup[p])
    BY DEF RecordReads, Recording, Typed
  <1>4. SuiteOf(Current(p)) = setup[p].suite
    BY <1>3, LoopFacts DEF Current
  <1>5. Entry(Current(p)) # keys[Current(p)]
    BY <1>4 DEF RecordReads, Unchanged, Recorded, Entry
  <1>6. Entry(Current(p))' = Entry(Current(p))
    BY <1>1, <1>2 DEF Entry
  <1> QED
    BY <1>1, <1>2, <1>5, <1>6 DEF Stale

LEMMA WritesStaleStays ==
  ASSUME Typed, KeptInv, FiledTyped, Dated, WritesStale, [Next]_vars
  PROVE  WritesStale'
  <1> SUFFICES ASSUME ~crossed', NEW q \in Procs
               PROVE  /\ setup'[q].pc = "truncate" =>
                           Stale(Entry(Current(q)), Current(q))'
                      /\ setup'[q].pc = "write" => manifest'[setup'[q].suite].torn
    BY DEF WritesStale
  <1>0. setup \in [Procs -> LocalState] /\ ~crossed
    BY CrossedStays DEF Typed
  <1>1. CASE UNCHANGED zkVars
    BY <1>0, <1>1 DEF zkVars, WritesStale, Stale, Entry, Current
  <1>2. ASSUME NEW p \in Procs, NEW s \in Suites, NEW force \in BOOLEAN,
               SetupBegin(p, s, force)
        PROVE  setup'[q].pc \notin {"truncate", "write"}
    <2>1. ~\E r \in Procs \ {p} : Busy(r)
      BY <1>2, OrStays DEF SetupBegin
    <2>2. setup'[p].pc = "check" /\ \A r \in Procs \ {p} : setup'[r] = setup[r]
      BY <1>0, <1>2 DEF SetupBegin, Idle
    <2> QED
      BY <2>1, <2>2 DEF Busy
  <1>3. ASSUME NEW p \in Procs, Drops(p)
        PROVE  /\ setup'[q].pc = "truncate" =>
                    Stale(Entry(Current(q)), Current(q))'
               /\ setup'[q].pc = "write" => manifest'[setup'[q].suite].torn
    <2>1. setup'[p].pc = "idle" /\ UNCHANGED <<keys, manifest>>
      BY <1>0, <1>3 DEF Drops, Idle
    <2>2. q # p => setup'[q] = setup[q]
      BY <1>3, OthersStay
    <2> QED
      BY <1>0, <2>1, <2>2 DEF WritesStale, Stale, Entry, Current
  <1>4. ASSUME NEW d \in Circuits, LoseKey(d)
        PROVE  /\ setup'[q].pc = "truncate" =>
                    Stale(Entry(Current(q)), Current(q))'
               /\ setup'[q].pc = "write" => manifest'[setup'[q].suite].torn
    <2>1. setup' = setup /\ manifest' = manifest
      BY <1>4 DEF LoseKey
    <2>2. ASSUME setup[q].pc = "truncate"
          PROVE  Stale(Entry(Current(q)), Current(q))'
      <3>1. PICK c : c = Current(q)
        OBVIOUS
      <3>2. PICK e : e = Entry(c)
        OBVIOUS
      <3>3. c \in Circuits /\ Stale(e, c) /\ OnRecord(e, c)
        BY <1>0, <2>2, <3>1, <3>2, CurrentIsCircuit DEF WritesStale, OnRecord
      <3>4. Stale(e, c)'
        BY <3>3, EntryStaysStale
      <3>5. Current(q)' = c /\ Entry(c)' = e
        BY <2>1, <3>1, <3>2 DEF Current, Entry
      <3>6. Entry(Current(q))' = e
        BY <2>1, <3>1, <3>2 DEF Current, Entry
      <3> QED
        BY <3>4, <3>5, <3>6 DEF Stale
    <2> QED
      BY <1>0, <2>1, <2>2 DEF WritesStale
  <1>5. ASSUME NEW p \in Procs, SetupStep(p)
        PROVE  /\ setup'[q].pc = "truncate" =>
                    Stale(Entry(Current(q)), Current(q))'
               /\ setup'[q].pc = "write" => manifest'[setup'[q].suite].torn
    <2>1. q # p => setup'[q].pc \notin {"truncate", "write"}
      BY <1>0, <1>5, OthersStay, StepIsBusy DEF KeptInv, Alone, Busy
    <2>2. PICK l : l = setup[p]
      OBVIOUS
    <2>3. PICK n : n = setup'[p]
      OBVIOUS
    <2>4. PICK c : c = Current(p)
      OBVIOUS
    <2>5. CASE RecordReads(p)
      BY <2>1, <2>5, ReadIsStale
    <2>6. CASE RecordTruncates(p)
      <3>1. n.pc = "write" /\ n.suite = l.suite /\ manifest'[l.suite].torn
        BY <2>2, <2>3, <2>6, TruncateDoes
      <3> QED
        BY <2>1, <2>3, <3>1
    <2>7. CASE RecordWrites(p)
      <3>1. n.pc \in {"record", "check"}
        BY <2>2, <2>3, <2>4, <2>7, WriteDoes
      <3> QED
        BY <2>1, <2>3, <3>1
    <2> QED
      BY <1>5, <2>1, <2>5, <2>6, <2>7, ManifestSteps
  <1>6. ZkNext
    BY StepsOfKeys
  <1> QED
    BY <1>1, <1>2, <1>3, <1>4, <1>5, <1>6 DEF ZkNext

-----------------------------------------------------------------------------
(* A transcript records the manifest of a suite as it is, or an entry that  *)
(* new keys have left behind.                                               *)
Agrees(s) ==
  /\ transcript.doc[s].entry = manifest[s].entry
  /\ transcript.doc[s].writes = manifest[s].writes
  /\ \A p \in Procs : setup[p].pc = "write" => setup[p].suite # s

Drifted(s) == \E c \in Range(CircuitsOf(s)) : Stale(Filed(c), c)

Drift == transcript.exists /\ ~crossed => \A s \in Suites : Agrees(s) \/ Drifted(s)

LEMMA DriftedStays ==
  ASSUME Typed, KeptInv, FiledTyped, Dated, [Next]_vars, ~crossed',
         transcript' = transcript, transcript.exists,
         NEW s \in Suites, Drifted(s)
  PROVE  Drifted(s)'
  <1>1. PICK c \in Range(CircuitsOf(s)) : Stale(Filed(c), c)
    BY DEF Drifted
  <1>2. PICK e : e = Filed(c)
    OBVIOUS
  <1>3. c \in Circuits /\ OnRecord(e, c)
    BY <1>2, CircuitsOfSuites DEF OnRecord
  <1>4. Stale(e, c)'
    BY <1>1, <1>2, <1>3, EntryStaysStale
  <1>5. Filed(c)' = e
    BY <1>2 DEF Filed
  <1> QED
    BY <1>4, <1>5 DEF Drifted, Stale

LEMMA AgreesOrDrifts ==
  ASSUME Typed, KeptInv, FiledTyped, WritesStale, [Next]_vars, ~crossed',
         transcript' = transcript, NEW s \in Suites, Agrees(s)
  PROVE  Agrees(s)' \/ Drifted(s)'
  <1>0. setup \in [Procs -> LocalState] /\ ~crossed
    BY CrossedStays DEF Typed
  <1>1. CASE UNCHANGED zkVars
    BY <1>1 DEF zkVars, Agrees
  <1>2. ASSUME NEW p \in Procs, \A q \in Procs \ {p} : setup'[q] = setup[q],
               setup'[p].pc # "write", manifest'[s] = manifest[s]
        PROVE  Agrees(s)'
    BY <1>2 DEF Agrees
  <1>3. ASSUME NEW p \in Procs, NEW t \in Suites, NEW force \in BOOLEAN,
               SetupBegin(p, t, force)
        PROVE  Agrees(s)'
    <2>1. (\A q \in Procs \ {p} : setup'[q] = setup[q]) /\ manifest' = manifest
          /\ setup'[p].pc = "check"
      BY <1>0, <1>3 DEF SetupBegin, Idle
    <2> QED
      BY <1>2, <2>1
  <1>4. ASSUME NEW p \in Procs, Drops(p)
        PROVE  Agrees(s)'
    <2>1. setup'[p].pc = "idle" /\ manifest' = manifest
      BY <1>0, <1>4 DEF Drops, Idle
    <2> QED
      BY <1>2, <1>4, <2>1, OthersStay
  <1>5. ASSUME NEW c \in Circuits, LoseKey(c)
        PROVE  Agrees(s)'
    BY <1>5 DEF LoseKey, Agrees
  <1>6. ASSUME NEW p \in Procs, SetupStep(p)
        PROVE  Agrees(s)' \/ Drifted(s)'
    <2>1. \A q \in Procs \ {p} : setup'[q] = setup[q]
      BY <1>6, OthersStay
    <2>2. PICK l : l = setup[p]
      OBVIOUS
    <2>3. PICK n : n = setup'[p]
      OBVIOUS
    <2>4. PICK c : c = Current(p)
      OBVIOUS
    <2>5. CASE RecordReads(p)
      <3>1. n.pc = "truncate" /\ manifest' = manifest
        BY <2>2, <2>3, <2>4, <2>5, ReadDoes
      <3> QED
        BY <1>2, <2>1, <2>3, <3>1
    <2>6. CASE RecordTruncates(p)
      <3>1. /\ l.pc = "truncate" /\ n.pc = "write" /\ n.suite = l.suite
            /\ keys' = keys
            /\ \A t \in Suites : /\ manifest'[t].entry = manifest[t].entry
                                 /\ manifest'[t].writes = manifest[t].writes
        BY <2>2, <2>3, <2>6, TruncateDoes
      <3>2. CASE l.suite # s
        BY <2>1, <2>3, <3>1, <3>2 DEF Agrees
      <3>3. CASE l.suite = s
        <4>1. c \in Range(CircuitsOf(s)) /\ SuiteOf(c) = s /\ Stale(Entry(c), c)
          BY <1>0, <2>2, <2>4, <3>1, <3>3, CurrentIsCircuit DEF WritesStale
        <4>2. Filed(c) = Entry(c)
          BY <4>1 DEF Agrees, Filed, Entry
        <4>3. Filed(c)' = Filed(c)
          BY DEF Filed
        <4>4. Stale(Filed(c), c)'
          BY <3>1, <4>1, <4>2, <4>3 DEF Stale
        <4> QED
          BY <4>1, <4>4 DEF Drifted
      <3> QED
        BY <3>2, <3>3
    <2>7. CASE RecordWrites(p)
      <3>1. /\ l.pc = "write" /\ n.pc \in {"record", "check"}
            /\ \A t \in Suites \ {l.suite} : manifest'[t] = manifest[t]
        BY <2>2, <2>3, <2>4, <2>7, WriteDoes
      <3>2. l.suite # s
        BY <2>2, <3>1 DEF Agrees
      <3> QED
        BY <1>2, <2>1, <2>3, <3>1, <3>2
    <2> QED
      BY <1>2, <1>6, <2>1, <2>5, <2>6, <2>7, ManifestSteps
  <1>7. ZkNext
    BY StepsOfKeys
  <1> QED
    BY <1>1, <1>3, <1>4, <1>5, <1>6, <1>7 DEF ZkNext

LEMMA DriftStays ==
  ASSUME Typed, KeptInv, FiledTyped, Dated, WritesStale, Drift, [Next]_vars
  PROVE  Drift'
  <1> SUFFICES ASSUME transcript'.exists, ~crossed', NEW s \in Suites
               PROVE  Agrees(s)' \/ Drifted(s)'
    BY DEF Drift
  <1>0. ~crossed
    BY CrossedStays
  <1>1. CASE transcript' = transcript
    BY <1>0, <1>1, AgreesOrDrifts, DriftedStays DEF Drift
  <1>2. CASE /\ transcript'.doc = manifest
             /\ \A t \in Suites : ~manifest[t].torn
             /\ UNCHANGED zkVars
    <2>1. \A p \in Procs : setup[p].pc = "write" => setup[p].suite # s
      BY <1>0, <1>2 DEF WritesStale
    <2> QED
      BY <1>2, <2>1 DEF Agrees, zkVars
  <1> QED
    BY <1>1, <1>2, StepsOfTranscript DEF Files

FiledInv == FiledTyped /\ InHand /\ Dated /\ WritesStale /\ Drift

LEMMA FiledInvariant == Spec => [](Typed /\ KeptInv /\ FiledInv)
  <1>1. Init => Typed /\ KeptInv /\ FiledInv
    <2> SUFFICES ASSUME Init PROVE Typed /\ KeptInv /\ FiledInv
      OBVIOUS
    <2>1. \A p \in Procs : setup[p].pc = "idle"
      BY DEF Init, ZkInit, Idle
    <2>2. ~transcript.exists
      BY DEF Init, NoTranscript
    <2>3. WritesStale /\ Drift
      BY <2>1, <2>2 DEF WritesStale, Drift
    <2> QED
      BY <2>3, InitTyped, InitKept, InitDated DEF FiledInv
  <1>2. Typed /\ KeptInv /\ FiledInv /\ [Next]_vars => Typed' /\ KeptInv' /\ FiledInv'
    BY StepTyped, AloneStays, MakingStays, FiledStays, HandStays, DatedStays,
       WritesStaleStays, DriftStays DEF KeptInv, FiledInv
  <1> QED
    BY <1>1, <1>2, PTL DEF Spec

(* A transcript that records the keys on disk is the manifests as they are, *)
(* for every crash and loss: only new keys make it drift.                   *)
THEOREM TranscriptIsKept == Spec => []TranscriptStands
  <1>1. Typed /\ FiledInv => TranscriptStands
    <2> SUFFICES ASSUME Typed, FiledInv, transcript.exists, ~crossed,
                        \A c \in Circuits : /\ Complete(c)
                                            /\ Filed(c) = keys[c],
                        \A s \in Suites : ~manifest[s].torn
                 PROVE  transcript.doc = manifest
      BY DEF TranscriptStands, TranscriptMatches, Filed
    <2>1. ASSUME NEW s \in Suites
          PROVE  transcript.doc[s] = manifest[s]
      <3>1. ~Drifted(s)
        BY CircuitsOfSuites DEF Drifted, Stale, Complete
      <3>2. Agrees(s)
        BY <3>1 DEF FiledInv, Drift
      <3>3. /\ transcript.doc[s] \in ManifestOf(s) /\ manifest[s] \in ManifestOf(s)
            /\ transcript.doc[s].torn = manifest[s].torn
        BY DEF FiledInv, FiledTyped, Typed, ManifestOf
      <3> QED
        BY <3>2, <3>3 DEF Agrees, ManifestOf
    <2>2. transcript.doc \in [Suites -> Manifests] /\ manifest \in [Suites -> Manifests]
      <3>1. \E s : s \in Suites
        BY DEF Suites
      <3> QED
        BY <3>1 DEF FiledInv, FiledTyped, Typed
    <2> QED
      BY <2>1, <2>2
  <1> QED
    BY <1>1, FiledInvariant, PTL

-----------------------------------------------------------------------------
(* The command each process runs: what is left of its plan, and what it has *)
(* in hand in the key setup, the policy and the installation record.        *)
Names == {"governance", "entity", "policy", "load", "health", "install", "doctor",
          "verify", "integrations", "transcript"}

Docs == [state : {"absent", "torn", "written"}, sovereign : BOOLEAN,
         vk : [Circuits -> Nat]]

RunState == [command : {"none"} \cup DOMAIN Plan, stages : Seq(Names),
             step : {"", "setup", "truncate", "write"}, doc : Docs,
             trusted : BOOLEAN, alone : BOOLEAN, end : {"none", "ok", "failed"}]

SignState == [pc : {"policy", "key", "config", "sign"}, key : Nat]

(* Stages done, and the rest of the plan.                                   *)
Done(r) == Len(Plan[r.command]) - Len(r.stages)

OnPlan(r) ==
  /\ r.command # "none" /\ r.end = "none"
  /\ Done(r) >= 0
  /\ \A i \in 1 .. Len(r.stages) : r.stages[i] = Plan[r.command][Done(r) + i]

Written(d) == d.state = "written" => d.sovereign

InStep(p) ==
  /\ ~Active(p) => run[p].step = ""
  /\ run[p].step = "setup" <=> setup[p].pc # "idle"
  /\ run[p].step = "setup" => /\ Stage(p) \in Suites
                              /\ setup[p].suite = Stage(p)
                              /\ setup[p].force = Forces(run[p].command)
  /\ sign[p].pc = "policy" => sign[p] = NotSigning
  /\ sign[p].pc # "policy" => At(p, "policy")
  /\ run[p].step \in {"truncate", "write"} => /\ Stage(p) \in {"install", "integrations"}
                                              /\ run[p].doc.state = "written"

Mine(p) ==
  /\ Active(p) => OnPlan(run[p])
  /\ Written(run[p].doc)
  /\ InStep(p)

House ==
  /\ run \in [Procs -> RunState]
  /\ sign \in [Procs -> SignState]
  /\ signing \in [key : Nat, config : Nat]
  /\ policy \in Nat /\ pairs \in Nat
  /\ install \in Docs /\ Written(install)
  /\ \A p \in Procs : Mine(p)

-----------------------------------------------------------------------------
LEMMA ToolPlans ==
  /\ DOMAIN Plan = {"bootstrap", "first_run", "force_setup", "attest", "integrations",
                    "ceremony"}
  /\ Plan["force_setup"] = <<"governance">>
  /\ Plan["attest"] = <<"governance", "entity">>
  /\ Plan["integrations"] = <<"integrations">>
  /\ Plan["ceremony"] = <<"transcript">>
  /\ Plan["first_run"] = <<"policy", "load", "governance", "entity", "health">>
  /\ Plan["bootstrap"] = Keys \o FirstRun \o <<"install">> \o Smoke
  BY DEF Plan, Keys

LEMMA Joined ==
  ASSUME NEW S, NEW u \in Seq(S), NEW v \in Seq(S), NEW w, w = u \o v
  PROVE  /\ w \in Seq(S) /\ Len(w) = Len(u) + Len(v)
         /\ \A i \in 1 .. Len(w) : w[i] = IF i <= Len(u) THEN u[i] ELSE v[i - Len(u)]
  OBVIOUS

LEMMA BootstrapPlan ==
  LET b == Plan["bootstrap"]
  IN  /\ b \in Seq(Names) /\ Len(b) = 10
      /\ b[1] = "governance" /\ b[2] = "entity" /\ b[3] = "policy" /\ b[4] = "load"
      /\ b[5] = "health" /\ b[6] = "install" /\ b[7] = "doctor"
      /\ b[8] = "governance" /\ b[9] = "entity" /\ b[10] = "verify"
  <1>1. PICK k : k = Keys
    OBVIOUS
  <1>2. PICK a : a = FirstRun
    OBVIOUS
  <1>3. PICK c : c = <<"install">>
    OBVIOUS
  <1>4. PICK e : e = <<"doctor">>
    OBVIOUS
  <1>5. PICK g : g = <<"verify">>
    OBVIOUS
  <1>6. k \in Seq(Names)
    BY <1>1 DEF Keys, Names
  <1>7. Len(k) = 2 /\ k[1] = "governance" /\ k[2] = "entity"
    BY <1>1 DEF Keys
  <1>8. a \in Seq(Names)
    BY <1>2 DEF FirstRun, Names
  <1>9. Len(a) = 3 /\ a[1] = "policy" /\ a[2] = "load" /\ a[3] = "health"
    BY <1>2 DEF FirstRun
  <1>10. c \in Seq(Names)
    BY <1>3 DEF Names
  <1>11. Len(c) = 1 /\ c[1] = "install"
    BY <1>3
  <1>12. e \in Seq(Names)
    BY <1>4 DEF Names
  <1>13. Len(e) = 1 /\ e[1] = "doctor"
    BY <1>4
  <1>14. g \in Seq(Names)
    BY <1>5 DEF Names
  <1>15. Len(g) = 1 /\ g[1] = "verify"
    BY <1>5
  <1>16. PICK d : d = e \o k
    OBVIOUS
  <1>17. d \in Seq(Names)
    BY <1>12, <1>6, <1>16, Joined
  <1>18. /\ Len(d) = 3 /\ d[1] = "doctor" /\ d[2] = "governance"
        /\ d[3] = "entity"
    <2>1. /\ Len(d) = Len(e) + Len(k)
          /\ \A j \in 1 .. Len(d) :
               d[j] = IF j <= Len(e) THEN e[j] ELSE k[j - Len(e)]
      BY <1>12, <1>6, <1>16, Joined
    <2> QED
      BY <1>13, <1>7, <2>1
  <1>19. PICK s : s = d \o g
    OBVIOUS
  <1>20. s \in Seq(Names)
    BY <1>17, <1>14, <1>19, Joined
  <1>21. /\ Len(s) = 4 /\ s[1] = "doctor" /\ s[2] = "governance"
        /\ s[3] = "entity" /\ s[4] = "verify"
    <2>1. /\ Len(s) = Len(d) + Len(g)
          /\ \A j \in 1 .. Len(s) :
               s[j] = IF j <= Len(d) THEN d[j] ELSE g[j - Len(d)]
      BY <1>17, <1>14, <1>19, Joined
    <2> QED
      BY <1>18, <1>15, <2>1
  <1>22. PICK f : f = k \o a
    OBVIOUS
  <1>23. f \in Seq(Names)
    BY <1>6, <1>8, <1>22, Joined
  <1>24. /\ Len(f) = 5 /\ f[1] = "governance" /\ f[2] = "entity"
        /\ f[3] = "policy" /\ f[4] = "load" /\ f[5] = "health"
    <2>1. /\ Len(f) = Len(k) + Len(a)
          /\ \A j \in 1 .. Len(f) :
               f[j] = IF j <= Len(k) THEN k[j] ELSE a[j - Len(k)]
      BY <1>6, <1>8, <1>22, Joined
    <2> QED
      BY <1>7, <1>9, <2>1
  <1>25. PICK i : i = f \o c
    OBVIOUS
  <1>26. i \in Seq(Names)
    BY <1>23, <1>10, <1>25, Joined
  <1>27. /\ Len(i) = 6 /\ i[1] = "governance" /\ i[2] = "entity"
        /\ i[3] = "policy" /\ i[4] = "load" /\ i[5] = "health"
        /\ i[6] = "install"
    <2>1. /\ Len(i) = Len(f) + Len(c)
          /\ \A j \in 1 .. Len(i) :
               i[j] = IF j <= Len(f) THEN f[j] ELSE c[j - Len(f)]
      BY <1>23, <1>10, <1>25, Joined
    <2> QED
      BY <1>24, <1>11, <2>1
  <1>28. PICK b : b = i \o s
    OBVIOUS
  <1>29. b \in Seq(Names)
    BY <1>26, <1>20, <1>28, Joined
  <1>30. /\ Len(b) = 10 /\ b[1] = "governance" /\ b[2] = "entity"
        /\ b[3] = "policy" /\ b[4] = "load" /\ b[5] = "health"
        /\ b[6] = "install" /\ b[7] = "doctor" /\ b[8] = "governance"
        /\ b[9] = "entity" /\ b[10] = "verify"
    <2>1. /\ Len(b) = Len(i) + Len(s)
          /\ \A j \in 1 .. Len(b) :
               b[j] = IF j <= Len(i) THEN i[j] ELSE s[j - Len(i)]
      BY <1>26, <1>20, <1>28, Joined
    <2> QED
      BY <1>27, <1>21, <2>1
  <1> QED
    <2>1. Plan["bootstrap"] = b
      BY <1>1, <1>2, <1>3, <1>4, <1>5, <1>16, <1>19, <1>22, <1>25, <1>28 DEF Plan, Smoke
    <2> QED
      BY <2>1, <1>29, <1>30

LEMMA PlansTyped ==
  ASSUME NEW c \in DOMAIN Plan
  PROVE  Plan[c] \in Seq(Names) /\ Len(Plan[c]) > 0
  <1>1. CASE c = "bootstrap"
    BY <1>1, BootstrapPlan
  <1>2. CASE c = "first_run"
    BY <1>2, ToolPlans DEF Names
  <1>3. CASE c = "force_setup"
    BY <1>3, ToolPlans DEF Names
  <1>4. CASE c = "attest"
    BY <1>4, ToolPlans DEF Names
  <1>5. CASE c = "integrations"
    BY <1>5, ToolPlans DEF Names
  <1>6. CASE c = "ceremony"
    BY <1>6, ToolPlans DEF Names
  <1> QED
    BY <1>1, <1>2, <1>3, <1>4, <1>5, <1>6, ToolPlans

LEMMA PlanAdvances ==
  ASSUME NEW r \in RunState, OnPlan(r), r.stages # <<>>,
         NEW n \in RunState, n.command = r.command, n.end = "none",
         n.stages = Tail(r.stages)
  PROVE  OnPlan(n) /\ Done(n) = Done(r) + 1
  <1>1. /\ r.command \in DOMAIN Plan /\ r.stages \in Seq(Names)
        /\ Plan[r.command] \in Seq(Names)
    BY PlansTyped DEF OnPlan, RunState
  <1>2. Len(n.stages) = Len(r.stages) - 1
        /\ \A i \in 1 .. Len(n.stages) : n.stages[i] = r.stages[i + 1]
    BY <1>1
  <1>5. Len(r.stages) \in Nat /\ Len(Plan[r.command]) \in Nat
    BY <1>1
  <1>6. Done(n) = Len(Plan[r.command]) - (Len(r.stages) - 1)
    BY <1>2 DEF Done
  <1>7. Done(r) = Len(Plan[r.command]) - Len(r.stages) /\ Done(r) >= 0
    BY DEF Done, OnPlan
  <1>3. Done(n) = Done(r) + 1 /\ Done(r) \in Nat
    BY <1>5, <1>6, <1>7
  <1>4. ASSUME NEW i \in 1 .. Len(n.stages)
        PROVE  n.stages[i] = Plan[n.command][Done(n) + i]
    <2>1. i + 1 \in 1 .. Len(r.stages)
      BY <1>1, <1>2
    <2>2. r.stages[i + 1] = Plan[r.command][Done(r) + (i + 1)]
      BY <2>1 DEF OnPlan
    <2> QED
      BY <1>2, <1>3, <2>2
  <1> QED
    BY <1>3, <1>4 DEF OnPlan

LEMMA RecordsTyped ==
  /\ NoInstall \in Docs /\ Written(NoInstall)
  /\ NoRun \in RunState /\ Written(NoRun.doc)
  <1>1. NoInstall \in Docs /\ Written(NoInstall)
    BY DEF NoInstall, Docs, Written
  <1>2. <<>> \in Seq(Names)
    OBVIOUS
  <1> QED
    BY <1>1, <1>2 DEF NoRun, RunState

LEMMA NoRunFields ==
  /\ NoRun.command = "none" /\ NoRun.stages = <<>> /\ NoRun.step = ""
  /\ NoRun.doc = NoInstall /\ ~NoRun.trusted /\ NoRun.alone /\ NoRun.end = "none"
  BY DEF NoRun

LEMMA InitHouse == Init => House
  <1> SUFFICES ASSUME Init  PROVE  House
    OBVIOUS
  <1>1. \A p \in Procs : setup[p] = Idle
    BY DEF Init, ZkInit
  <1>2. \A p \in Procs : run[p] = NoRun /\ sign[p] = NotSigning
    BY DEF Init, SignInit
  <1>3. /\ run \in [Procs -> RunState] /\ sign \in [Procs -> SignState]
        /\ signing \in [key : Nat, config : Nat] /\ policy \in Nat /\ pairs \in Nat
        /\ install \in Docs /\ Written(install)
    BY RecordsTyped DEF Init, SignInit, SignState, NotSigning
  <1>4. ASSUME NEW p \in Procs  PROVE  Mine(p)
    <2>1. setup[p].pc = "idle"
      BY <1>1 DEF Idle
    <2>2. run[p].stages = <<>> /\ run[p].step = ""
      BY <1>2, NoRunFields
    <2>4. Written(run[p].doc)
      BY <1>2, RecordsTyped
    <2>3. sign[p] = NotSigning /\ sign[p].pc = "policy"
      BY <1>2 DEF NotSigning
    <2> QED
      BY <2>1, <2>2, <2>3, <2>4 DEF Mine, InStep, Active, At
  <1> QED
    BY <1>3, <1>4 DEF House

-----------------------------------------------------------------------------
(* What a step of a command does to its place in the plan.                  *)
LEMMA AdvanceDoes ==
  ASSUME House, NEW p \in Procs, Active(p), Advance(p)
  PROVE  /\ \A q \in Procs \ {p} : run'[q] = run[q]
         /\ run' \in [Procs -> RunState]
         /\ run'[p].command = run[p].command /\ run'[p].alone = run[p].alone
         /\ run'[p].step = ""
         /\ run'[p].stages = Tail(run[p].stages) /\ Written(run'[p].doc)
         /\ run'[p].stages # <<>> => /\ OnPlan(run'[p])
                                     /\ Done(run'[p]) = Done(run[p]) + 1
                                     /\ run'[p].trusted = run[p].trusted
         /\ run'[p].stages = <<>> => run'[p].end = "ok"
  <1>1. PICK r : r = run[p]
    OBVIOUS
  <1>2. PICK n : n = run'[p]
    OBVIOUS
  <1> USE <1>1, <1>2
  <1>3. /\ \A q \in Procs \ {p} : run'[q] = run[q]
        /\ run' \in [Procs -> RunState]
        /\ n.command = r.command /\ n.alone = r.alone /\ n.step = ""
        /\ n.stages = Tail(r.stages) /\ Written(n.doc)
        /\ n.stages # <<>> => /\ OnPlan(n) /\ Done(n) = Done(r) + 1
                              /\ n.trusted = r.trusted
        /\ n.stages = <<>> => n.end = "ok"
    <2>1. /\ run \in [Procs -> RunState] /\ r \in RunState /\ OnPlan(r)
          /\ r.stages # <<>> /\ r.stages \in Seq(Names) /\ Tail(r.stages) \in Seq(Names)
          /\ Written(r.doc)
      <3>1. run \in [Procs -> RunState] /\ r \in RunState /\ Mine(p) /\ r.stages # <<>>
        BY DEF House, Active
      <3>2. OnPlan(r) /\ Written(r.doc)
        BY <3>1 DEF Mine, Active
      <3>3. r.stages \in Seq(Names)
        BY <3>1 DEF RunState
      <3> QED
        BY <3>1, <3>2, <3>3, HeadAndTail
    <2>2. PICK t : t = Tail(r.stages)
      OBVIOUS
    <2>3. CASE t = <<>>
      <3> DEFINE e == Ended(p, "ok")
      <3>1. e = [NoRun EXCEPT !.command = r.command, !.alone = r.alone, !.end = "ok"]
        BY DEF Ended
      <3>2. /\ e \in RunState /\ e.command = r.command /\ e.alone = r.alone
            /\ e.step = "" /\ e.stages = <<>> /\ e.end = "ok" /\ e.doc = NoInstall
        <4>1. r.command \in {"none"} \cup DOMAIN Plan /\ r.alone \in BOOLEAN
          BY <2>1 DEF RunState
        <4>2. NoRun \in RunState /\ NoRun.step = "" /\ NoRun.stages = <<>>
              /\ NoRun.doc = NoInstall
          BY RecordsTyped, NoRunFields
        <4> QED
          BY <3>1, <4>1, <4>2 DEF RunState
      <3> HIDE DEF e
      <3>3. run' = [run EXCEPT ![p] = e]
        BY <2>2, <2>3 DEF Advance, e
      <3>4. n = e /\ run' \in [Procs -> RunState]
            /\ \A q \in Procs \ {p} : run'[q] = run[q]
        BY <2>1, <3>2, <3>3
      <3> QED
        BY <2>2, <2>3, <3>2, <3>4, RecordsTyped
    <2>4. CASE t # <<>>
      <3> DEFINE e == [r EXCEPT !.stages = t, !.step = ""]
      <3>1. /\ e \in RunState /\ e.command = r.command /\ e.alone = r.alone
            /\ e.step = "" /\ e.stages = t /\ e.end = r.end /\ e.doc = r.doc
            /\ e.trusted = r.trusted
        BY <2>1, <2>2 DEF RunState
      <3> HIDE DEF e
      <3>2. run' = [run EXCEPT ![p] = e]
        BY <2>2, <2>4 DEF Advance, e
      <3>3. n = e /\ run' \in [Procs -> RunState]
            /\ \A q \in Procs \ {p} : run'[q] = run[q]
        BY <2>1, <3>1, <3>2
      <3>5. e.end = "none" /\ e.stages = Tail(r.stages)
        BY <2>1, <2>2, <3>1 DEF OnPlan
      <3>4. OnPlan(e) /\ Done(e) = Done(r) + 1
        BY <2>1, <3>1, <3>5, PlanAdvances
      <3> QED
        BY <2>1, <2>2, <2>4, <3>1, <3>3, <3>4
    <2> QED
      BY <2>3, <2>4
  <1> QED
    BY <1>1, <1>2, <1>3

LEMMA FailDoes ==
  ASSUME House, NEW p \in Procs, Fail(p)
  PROVE  /\ \A q \in Procs \ {p} : run'[q] = run[q]
         /\ run' \in [Procs -> RunState]
         /\ run'[p].command = run[p].command /\ run'[p].alone = run[p].alone
         /\ run'[p].step = ""
         /\ run'[p].stages = <<>> /\ Written(run'[p].doc) /\ run'[p].end = "failed"
  <1>1. PICK r : r = run[p]
    OBVIOUS
  <1>2. PICK n : n = run'[p]
    OBVIOUS
  <1> USE <1>1, <1>2
  <1>3. /\ \A q \in Procs \ {p} : run'[q] = run[q]
        /\ run' \in [Procs -> RunState]
        /\ n.command = r.command /\ n.alone = r.alone /\ n.step = ""
        /\ n.stages = <<>> /\ Written(n.doc) /\ n.end = "failed"
    <2>1. run \in [Procs -> RunState] /\ r \in RunState
      BY DEF House
    <2> DEFINE e == Ended(p, "failed")
    <2>2. e = [NoRun EXCEPT !.command = r.command, !.alone = r.alone, !.end = "failed"]
      BY DEF Ended
    <2>3. /\ e \in RunState /\ e.command = r.command /\ e.alone = r.alone
          /\ e.step = "" /\ e.stages = <<>> /\ e.end = "failed" /\ e.doc = NoInstall
      <3>1. r.command \in {"none"} \cup DOMAIN Plan /\ r.alone \in BOOLEAN
        BY <2>1 DEF RunState
      <3>2. NoRun \in RunState /\ NoRun.step = "" /\ NoRun.stages = <<>>
            /\ NoRun.doc = NoInstall
        BY RecordsTyped, NoRunFields
      <3> QED
        BY <2>2, <3>1, <3>2 DEF RunState
    <2> HIDE DEF e
    <2>4. run' = [run EXCEPT ![p] = e]
      BY DEF Fail, e
    <2>5. n = e /\ run' \in [Procs -> RunState]
          /\ \A q \in Procs \ {p} : run'[q] = run[q]
      BY <2>1, <2>3, <2>4
    <2> QED
      BY <2>3, <2>5, RecordsTyped
  <1> QED
    BY <1>1, <1>2, <1>3

LEMMA LoadDoes ==
  ASSUME House, NEW p \in Procs, LoadRuntime(p)
  PROVE  /\ \A q \in Procs \ {p} : run'[q] = run[q]
         /\ run' \in [Procs -> RunState] /\ run[p].stages # <<>>
         /\ run'[p].command = run[p].command /\ run'[p].alone = run[p].alone
         /\ run'[p].step = run[p].step
         /\ run'[p].stages = Tail(run[p].stages) /\ Written(run'[p].doc)
         /\ run'[p].end = "none" /\ run'[p].trusted = PolicyTrusted
         /\ OnPlan(run'[p]) /\ Done(run'[p]) = Done(run[p]) + 1
  <1>1. PICK r : r = run[p]
    OBVIOUS
  <1>2. PICK n : n = run'[p]
    OBVIOUS
  <1> USE <1>1, <1>2
  <1>3. /\ \A q \in Procs \ {p} : run'[q] = run[q]
        /\ run' \in [Procs -> RunState] /\ r.stages # <<>>
        /\ n.command = r.command /\ n.alone = r.alone /\ n.step = r.step
        /\ n.stages = Tail(r.stages) /\ Written(n.doc) /\ n.end = "none"
        /\ OnPlan(n) /\ Done(n) = Done(r) + 1 /\ n.trusted = PolicyTrusted
    <2>1. /\ run \in [Procs -> RunState] /\ r \in RunState /\ OnPlan(r)
          /\ r.stages # <<>> /\ Tail(r.stages) \in Seq(Names)
          /\ Written(r.doc)
      <3>1. run \in [Procs -> RunState] /\ r \in RunState /\ Mine(p) /\ r.stages # <<>>
        BY DEF House, Active, LoadRuntime, At
      <3>2. OnPlan(r) /\ Written(r.doc)
        BY <3>1 DEF Mine, Active
      <3>3. r.stages \in Seq(Names)
        BY <3>1 DEF RunState
      <3> QED
        BY <3>1, <3>2, <3>3, HeadAndTail
    <2>2. PICK v \in BOOLEAN : v = PolicyTrusted
      BY DEF PolicyTrusted
    <2>3. PICK t : t = Tail(r.stages)
      OBVIOUS
    <2> DEFINE e == [r EXCEPT !.stages = t, !.trusted = v]
    <2>4. /\ e \in RunState /\ e.command = r.command /\ e.alone = r.alone
          /\ e.step = r.step /\ e.stages = t /\ e.end = r.end /\ e.doc = r.doc
          /\ e.trusted = v
      BY <2>1, <2>2, <2>3 DEF RunState
    <2>5. run' = [run EXCEPT ![p] = e]
      BY <2>2, <2>3 DEF LoadRuntime
    <2> HIDE DEF e
    <2>6. n = e /\ run' \in [Procs -> RunState]
          /\ \A q \in Procs \ {p} : run'[q] = run[q]
      BY <2>1, <2>4, <2>5
    <2>7. OnPlan(e) /\ Done(e) = Done(r) + 1 /\ e.end = "none"
      BY <2>1, <2>3, <2>4, PlanAdvances DEF OnPlan
    <2> QED
      BY <2>1, <2>2, <2>3, <2>4, <2>6, <2>7
  <1> QED
    BY <1>1, <1>2, <1>3

LEMMA StartDoes ==
  ASSUME House, NEW p \in Procs, NEW c \in DOMAIN Plan, Start(p, c)
  PROVE  /\ ~Active(p) /\ run' \in [Procs -> RunState]
         /\ run'[p].command = c /\ run'[p].stages = Plan[c] /\ run'[p].step = ""
         /\ run'[p].end = "none" /\ run'[p].stages # <<>>
         /\ Written(run'[p].doc) /\ OnPlan(run'[p]) /\ Done(run'[p]) = 0
         /\ \/ (\A q \in Procs : ~Active(q)) /\ \A q \in Procs \ {p} : run'[q] = NoRun
            \/ /\ run'[p].alone = FALSE
               /\ \A q \in Procs \ {p} : run'[q] = [run[q] EXCEPT !.alone = FALSE]
  <1>1. PICK n : n = run'[p]
    OBVIOUS
  <1> USE <1>1
  <1>2. /\ ~Active(p) /\ run' \in [Procs -> RunState]
        /\ n.command = c /\ n.stages = Plan[c] /\ n.step = "" /\ n.end = "none"
        /\ Written(n.doc) /\ OnPlan(n) /\ Done(n) = 0 /\ n.stages # <<>>
        /\ \/ (\A q \in Procs : ~Active(q)) /\ \A q \in Procs \ {p} : run'[q] = NoRun
           \/ /\ n.alone = FALSE
              /\ \A q \in Procs \ {p} : run'[q] = [run[q] EXCEPT !.alone = FALSE]
    <2>1. run \in [Procs -> RunState] /\ ~Active(p)
      BY DEF House, Start
    <2>2. PICK a \in BOOLEAN : a = \A q \in Procs : ~Active(q)
      OBVIOUS
    <2>3. PICK o : o = IF a THEN [q \in Procs |-> NoRun] ELSE Disturbed
      OBVIOUS
    <2>4. o \in [Procs -> RunState]
      <3>1. CASE a
        BY <2>3, <3>1, RecordsTyped
      <3>2. CASE ~a
        <4>1. \A q \in Procs : [run[q] EXCEPT !.alone = FALSE] \in RunState
          BY <2>1 DEF RunState
        <4>2. o = [q \in Procs |-> [run[q] EXCEPT !.alone = FALSE]]
          BY <2>3, <3>2 DEF Disturbed
        <4> QED
          BY <4>1, <4>2
      <3> QED
        BY <2>2, <3>1, <3>2
    <2> DEFINE e == [NoRun EXCEPT !.command = c, !.stages = Plan[c], !.alone = a]
    <2>5. /\ e \in RunState /\ e.command = c /\ e.stages = Plan[c] /\ e.step = ""
          /\ e.end = "none" /\ e.alone = a /\ e.doc = NoInstall
      <3>1. NoRun \in RunState /\ NoRun.step = "" /\ NoRun.end = "none"
            /\ NoRun.doc = NoInstall
        BY RecordsTyped, NoRunFields
      <3> QED
        BY <2>2, <3>1, PlansTyped DEF RunState
    <2>6. run' = [o EXCEPT ![p] = e]
      BY <2>2, <2>3 DEF Start
    <2> HIDE DEF e
    <2>7. n = e /\ run' \in [Procs -> RunState] /\ \A q \in Procs \ {p} : run'[q] = o[q]
      BY <2>4, <2>5, <2>6
    <2>8. c # "none" /\ Plan[c] # <<>> /\ Len(Plan[c]) \in Nat
      BY ToolPlans, PlansTyped
    <2>9. OnPlan(e) /\ Done(e) = 0
      <3>1. PICK k \in Nat : k = Len(Plan[c])
        BY <2>8
      <3>2. Done(e) = k - k
        BY <2>5, <3>1 DEF Done
      <3>3. Done(e) = 0
        BY <3>2
      <3>4. ASSUME NEW i \in 1 .. Len(e.stages)
            PROVE  e.stages[i] = Plan[e.command][Done(e) + i]
        <4>1. i \in Int
          OBVIOUS
        <4>2. Done(e) + i = i
          BY <3>3, <4>1
        <4> QED
          BY <2>5, <4>2
      <3>5. Done(e) >= 0
        BY <3>3
      <3>6. e.command # "none" /\ e.end = "none"
        BY <2>5, <2>8
      <3> QED
        BY <3>3, <3>4, <3>5, <3>6 DEF OnPlan
    <2>10. CASE a
      BY <2>1, <2>2, <2>3, <2>5, <2>7, <2>8, <2>9, <2>10, RecordsTyped
    <2>11. CASE ~a
      <3>1. \A q \in Procs : o[q] = [run[q] EXCEPT !.alone = FALSE]
        BY <2>3, <2>11 DEF Disturbed
      <3> QED
        BY <2>1, <2>5, <2>7, <2>8, <2>9, <2>11, <3>1, RecordsTyped
    <2> QED
      BY <2>2, <2>10, <2>11
  <1> QED
    BY <1>1, <1>2

LEMMA DisturbedDoes ==
  ASSUME House, run' = Disturbed \/ run' = run
  PROVE  /\ run' \in [Procs -> RunState]
         /\ \A q \in Procs : /\ run'[q].command = run[q].command
                             /\ run'[q].stages = run[q].stages
                             /\ run'[q].step = run[q].step
                             /\ run'[q].doc = run[q].doc
                             /\ run'[q].trusted = run[q].trusted
                             /\ run'[q].end = run[q].end
                             /\ run'[q].alone => run'[q] = run[q]
  <1>1. run \in [Procs -> RunState]
    BY DEF House
  <1>2. CASE run' = Disturbed
    <2>1. ASSUME NEW q \in Procs
          PROVE  run'[q] = [run[q] EXCEPT !.alone = FALSE] /\ run[q] \in RunState
      BY <1>1, <1>2 DEF Disturbed
    <2>2. run' \in [Procs -> RunState]
      <3>1. ASSUME NEW r \in RunState
            PROVE  [r EXCEPT !.alone = FALSE] \in RunState
        BY DEF RunState
      <3>2. run' = [q \in Procs |-> [run[q] EXCEPT !.alone = FALSE]]
        BY <1>2 DEF Disturbed
      <3> QED
        BY <1>1, <3>1, <3>2
    <2>3. ASSUME NEW q \in Procs
          PROVE  /\ run'[q].command = run[q].command /\ run'[q].stages = run[q].stages
                 /\ run'[q].step = run[q].step /\ run'[q].doc = run[q].doc
                 /\ run'[q].trusted = run[q].trusted /\ run'[q].end = run[q].end
      BY <2>1 DEF RunState
    <2>4. ASSUME NEW q \in Procs
          PROVE  ~run'[q].alone
      BY <2>1 DEF RunState
    <2> QED
      BY <2>2, <2>3, <2>4
  <1>3. CASE run' = run
    BY <1>1, <1>3
  <1> QED
    BY <1>2, <1>3

-----------------------------------------------------------------------------
(* Every process stays on its plan.                                         *)
LEMMA HouseFrame ==
  ASSUME House, NEW p \in Procs,
         run' \in [Procs -> RunState], sign' \in [Procs -> SignState],
         signing' \in [key : Nat, config : Nat], policy' \in Nat, pairs' \in Nat,
         install' \in Docs, Written(install'), Mine(p)',
         \A q \in Procs \ {p} :
           /\ setup'[q] = setup[q] /\ sign'[q] = sign[q]
           /\ \/ run'[q] = run[q]
              \/ run'[q] = [run[q] EXCEPT !.alone = FALSE]
              \/ ~Active(q) /\ run'[q] = NoRun
  PROVE  House'
  <1> SUFFICES ASSUME NEW q \in Procs \ {p}  PROVE  Mine(q)'
    BY DEF House
  <1>1. Mine(q) /\ run[q] \in RunState
    BY DEF House
  <1>2. CASE run'[q] = run[q] \/ run'[q] = [run[q] EXCEPT !.alone = FALSE]
    <2>1. /\ run'[q].command = run[q].command /\ run'[q].stages = run[q].stages
          /\ run'[q].step = run[q].step /\ run'[q].doc = run[q].doc
          /\ run'[q].end = run[q].end
      BY <1>1, <1>2 DEF RunState
    <2>2. setup'[q] = setup[q] /\ sign'[q] = sign[q]
      OBVIOUS
    <2>3. InStep(q)'
      BY <1>1, <2>1, <2>2 DEF Mine, InStep, Active, At, Stage
    <2>4. Active(q)' => OnPlan(run'[q])
      BY <1>1, <2>1 DEF Mine, OnPlan, Done, Active
    <2> QED
      BY <1>1, <2>1, <2>3, <2>4 DEF Mine
  <1>3. CASE ~Active(q) /\ run'[q] = NoRun
    <2>1. run[q].step = "" /\ setup[q].pc = "idle" /\ sign[q].pc = "policy"
          /\ sign[q] = NotSigning
      <3>1. sign[q].pc = "policy" /\ run[q].step = ""
        BY <1>1, <1>3 DEF Mine, InStep, At
      <3> QED
        BY <1>1, <3>1 DEF Mine, InStep
    <2>2. setup'[q] = setup[q] /\ sign'[q] = sign[q]
      OBVIOUS
    <2>3. run'[q].step = "" /\ run'[q].stages = <<>> /\ Written(run'[q].doc)
      BY <1>3, NoRunFields, RecordsTyped
    <2> QED
      BY <2>1, <2>2, <2>3 DEF Mine, InStep, Active, At
  <1> QED
    BY <1>2, <1>3

(* Between two stages nothing is in hand.                                   *)
LEMMA MineRests ==
  ASSUME NEW p \in Procs, Written(run'[p].doc), Active(p)' => OnPlan(run'[p]),
         run'[p].step = "", setup'[p].pc = "idle", sign'[p] = NotSigning
  PROVE  Mine(p)'
  <1>1. NotSigning.pc = "policy"
    BY DEF NotSigning
  <1>2. sign'[p].pc = "policy"
    BY <1>1
  <1> QED
    BY <1>2 DEF Mine, InStep, At

LEMMA HandsEmpty ==
  ASSUME House, NEW p \in Procs, run[p].step # "setup"
  PROVE  /\ setup[p].pc = "idle"
         /\ ~At(p, "policy") => sign[p] = NotSigning
  BY DEF House, Mine, InStep

LEMMA SetupMoves ==
  ASSUME Typed, NEW p \in Procs, SetupStep(p)
  PROVE  /\ setup'[p].suite = setup[p].suite /\ setup'[p].force = setup[p].force
         /\ setup'[p].pc # "idle"
  <1>1. PICK l : l = setup[p]
    OBVIOUS
  <1>2. PICK n : n = setup'[p]
    OBVIOUS
  <1>3. PICK c : c = Current(p)
    OBVIOUS
  <1>4. CASE SetupPresent(p)
    BY <1>1, <1>2, <1>4, PresentDoes
  <1>5. CASE SetupProve(p)
    BY <1>1, <1>2, <1>3, <1>5, ProveDoes
  <1>6. CASE SetupPk(p)
    BY <1>1, <1>2, <1>3, <1>6, PkDoes
  <1>7. CASE SetupVk(p)
    BY <1>1, <1>2, <1>3, <1>7, VkDoes
  <1>8. CASE SetupFails(p) \/ RecordFails(p) \/ RebuildFails(p)
    BY <1>8 DEF SetupFails, RecordFails, RebuildFails, Goto, Typed, LocalState
  <1>9. CASE RecordSkips(p)
    BY <1>1, <1>2, <1>3, <1>9, SkipDoes
  <1>10. CASE RecordReads(p)
    BY <1>10 DEF RecordReads, Typed, LocalState
  <1>11. CASE RecordTruncates(p)
    BY <1>1, <1>2, <1>11, TruncateDoes
  <1>12. CASE RecordWrites(p)
    BY <1>1, <1>2, <1>3, <1>12, WriteDoes
  <1>13. CASE RebuildBegin(p)
    BY <1>1, <1>2, <1>13, RebuildDoes
  <1> QED
    BY <1>4, <1>5, <1>6, <1>7, <1>8, <1>9, <1>10, <1>11, <1>12, <1>13 DEF SetupStep

LEMMA HouseStays ==
  ASSUME Typed, House, [Next]_vars
  PROVE  House'
  <1>0. /\ run \in [Procs -> RunState] /\ sign \in [Procs -> SignState]
        /\ signing \in [key : Nat, config : Nat] /\ policy \in Nat /\ pairs \in Nat
        /\ install \in Docs /\ Written(install) /\ setup \in [Procs -> LocalState]
        /\ \A p \in Procs : Mine(p) /\ run[p] \in RunState
    BY DEF House, Typed
  <1>1. CASE UNCHANGED vars
    BY <1>1 DEF vars, House, Mine, InStep, Active, At, Stage
  <1>2. ASSUME NEW p \in Procs, NEW c \in DOMAIN Plan, Start(p, c)
        PROVE  House'
    <2>1. PICK n : n = run'[p]
      OBVIOUS
    <2>2. /\ ~Active(p) /\ run' \in [Procs -> RunState]
          /\ n.step = "" /\ Written(n.doc) /\ OnPlan(n)
          /\ \/ (\A q \in Procs : ~Active(q)) /\ \A q \in Procs \ {p} : run'[q] = NoRun
             \/ \A q \in Procs \ {p} : run'[q] = [run[q] EXCEPT !.alone = FALSE]
      BY <1>2, <2>1, StartDoes
    <2>3. UNCHANGED <<zkVars, signVars, install>>
      BY <1>2 DEF Start
    <2>4. setup[p].pc = "idle" /\ sign[p] = NotSigning
      BY <1>0, <2>2, HandsEmpty DEF Mine, InStep, At
    <2>5. setup' = setup /\ sign' = sign /\ signing' = signing /\ policy' = policy
          /\ pairs' = pairs /\ install' = install
      BY <2>3 DEF zkVars, signVars
    <2>6. Mine(p)'
      BY <2>1, <2>2, <2>4, <2>5, MineRests
    <2> QED
      BY <1>0, <2>2, <2>5, <2>6, HouseFrame
  (* A step that leaves process p between two stages.                       *)
  <1>3. ASSUME NEW p \in Procs, Active(p), Advance(p) \/ Fail(p),
               setup'[p].pc = "idle", sign'[p] = NotSigning,
               \A q \in Procs \ {p} : setup'[q] = setup[q] /\ sign'[q] = sign[q],
               sign' \in [Procs -> SignState], signing' = signing,
               policy' \in Nat, pairs' = pairs, install' \in Docs, Written(install')
        PROVE  House'
    <2>1. PICK n : n = run'[p]
      OBVIOUS
    <2>2. /\ run' \in [Procs -> RunState] /\ \A q \in Procs \ {p} : run'[q] = run[q]
          /\ n.step = "" /\ Written(n.doc) /\ (n.stages # <<>> => OnPlan(n))
      <3>1. CASE Advance(p)
        BY <1>3, <2>1, <3>1, AdvanceDoes
      <3>2. CASE Fail(p)
        BY <1>3, <2>1, <3>2, FailDoes
      <3> QED
        BY <1>3, <3>1, <3>2
    <2>3. Mine(p)'
      BY <1>3, <2>1, <2>2, MineRests DEF Active
    <2> QED
      BY <1>0, <1>3, <2>2, <2>3, HouseFrame
  <1>4. ASSUME NEW p \in Procs, NEW s \in Suites, ZkBegin(p, s)
        PROVE  House'
    <2>1. /\ At(p, s) /\ run[p].step = "" /\ SetupBegin(p, s, Forces(run[p].command))
          /\ run' = [run EXCEPT ![p].step = "setup"]
          /\ UNCHANGED <<signing, policy, pairs, sign, install>>
      BY <1>4 DEF ZkBegin, signVars, instVars
    <2>2. /\ run' \in [Procs -> RunState] /\ \A q \in Procs \ {p} : run'[q] = run[q]
          /\ run'[p] = [run[p] EXCEPT !.step = "setup"]
      <3>1. [run[p] EXCEPT !.step = "setup"] \in RunState
        BY <1>0 DEF RunState
      <3> QED
        BY <1>0, <2>1, <3>1
    <2>3. /\ \A q \in Procs \ {p} : setup'[q] = setup[q]
          /\ setup'[p].pc = "check" /\ setup'[p].suite = s
          /\ setup'[p].force = Forces(run[p].command)
      BY <1>0, <2>1 DEF SetupBegin, Idle
    <2>4. /\ run'[p].command = run[p].command /\ run'[p].stages = run[p].stages
          /\ run'[p].step = "setup" /\ run'[p].doc = run[p].doc
          /\ run'[p].end = run[p].end
      BY <1>0, <2>2 DEF RunState
    <2>5. Stage(p)' = s /\ Active(p)' /\ s \in Suites /\ s # "policy"
      BY <2>1, <2>4 DEF At, Stage, Active, Suites
    <2>6. sign'[p] = sign[p] /\ sign[p] = NotSigning
      BY <2>1, <2>5, HandsEmpty DEF At
    <2>7. sign'[p].pc = "policy"
      BY <2>6 DEF NotSigning
    <2>8. InStep(p)'
      BY <2>3, <2>4, <2>5, <2>6, <2>7 DEF InStep
    <2>9. OnPlan(run'[p]) /\ Written(run'[p].doc)
      <3>1. Mine(p) /\ Active(p)
        BY <1>0, <2>1 DEF At
      <3> QED
        BY <2>4, <3>1 DEF Mine, OnPlan, Done
    <2>10. Mine(p)'
      BY <2>8, <2>9 DEF Mine
    <2> QED
      BY <1>0, <2>1, <2>2, <2>3, <2>10, HouseFrame
  <1>5. ASSUME NEW p \in Procs, ZkStep(p)
        PROVE  House'
    <2>1. /\ Active(p) /\ run[p].step = "setup" /\ SetupStep(p)
          /\ run' = run \/ run' = Disturbed
          /\ UNCHANGED <<signing, policy, pairs, sign, install>>
      BY <1>5 DEF ZkStep, signVars, instVars
    <2>2. /\ run' \in [Procs -> RunState]
          /\ \A q \in Procs : run'[q] = run[q] \/ run'[q] = [run[q] EXCEPT !.alone = FALSE]
      BY <1>0, <2>1, DisturbedDoes DEF Disturbed
    <2>3. \A q \in Procs : /\ run'[q].command = run[q].command
                           /\ run'[q].stages = run[q].stages
                           /\ run'[q].step = run[q].step
                           /\ run'[q].doc = run[q].doc
                           /\ run'[q].end = run[q].end
      BY <2>1, DisturbedDoes
    <2>4. /\ setup'[p].suite = setup[p].suite /\ setup'[p].force = setup[p].force
          /\ setup'[p].pc # "idle"
          /\ \A q \in Procs \ {p} : setup'[q] = setup[q]
      BY <2>1, SetupMoves, OthersStay
    <2>5. Mine(p) /\ InStep(p) /\ OnPlan(run[p])
      BY <1>0, <2>1 DEF Mine
    <2>6. InStep(p)'
      BY <2>1, <2>3, <2>4, <2>5 DEF InStep, Active, At, Stage
    <2>7. OnPlan(run'[p]) /\ Written(run'[p].doc)
      BY <2>3, <2>5 DEF Mine, OnPlan, Done
    <2>8. Mine(p)'
      BY <2>6, <2>7 DEF Mine
    <2> QED
      BY <1>0, <2>1, <2>2, <2>4, <2>8, HouseFrame
  <1>6. ASSUME NEW p \in Procs, ZkReturn(p)
        PROVE  House'
    <2>1. /\ Active(p) /\ run[p].step = "setup" /\ (Advance(p) \/ Fail(p))
          /\ setup' = [setup EXCEPT ![p] = Idle]
          /\ UNCHANGED <<signing, policy, pairs, sign, install>>
      BY <1>6 DEF ZkReturn, signVars, instVars
    <2>2. setup'[p].pc = "idle" /\ \A q \in Procs \ {p} : setup'[q] = setup[q]
      BY <1>0, <2>1 DEF Idle
    <2>3. sign[p] = NotSigning
      BY <1>0, <2>1 DEF Mine, InStep, At, Suites
    <2> QED
      BY <1>0, <1>3, <2>1, <2>2, <2>3
  <1>7. ASSUME NEW p \in Procs, PolicyStep(p)
        PROVE  House'
    <2>1. /\ At(p, "policy") /\ SignStep(p)
          /\ IF SignEnds(p) THEN Advance(p) ELSE UNCHANGED run
          /\ setup' = setup /\ install' = install
      BY <1>7 DEF PolicyStep, zkVars, instVars
    <2>2. run[p].step = "" /\ setup[p].pc = "idle" /\ sign[p] \in SignState
          /\ (sign[p].pc = "policy" => sign[p] = NotSigning)
      BY <1>0, <2>1 DEF Mine, InStep, At, Suites, RunState
    <2>3. /\ sign' \in [Procs -> SignState] /\ signing' \in [key : Nat, config : Nat]
          /\ policy' \in Nat /\ pairs' \in Nat
          /\ \A q \in Procs \ {p} : sign'[q] = sign[q]
      <3>1. CASE PolicyVerified(p)
        BY <1>0, <3>1 DEF PolicyVerified, signVars
      <3>2. CASE PairPresent(p)
        BY <1>0, <3>2 DEF PairPresent, SignPc, SignState
      <3>3. CASE PairGenerate(p)
        <4>1. PICK k \in Nat : k = pairs + 1
          BY <1>0
        <4>2. sign' = [sign EXCEPT ![p] = [pc |-> "key", key |-> k]]
              /\ pairs' = k /\ signing' = signing /\ policy' = policy
          BY <3>3, <4>1 DEF PairGenerate
        <4> QED
          BY <1>0, <4>2 DEF SignState
      <3>4. CASE KeyWrite(p)
        BY <1>0, <2>2, <3>4 DEF KeyWrite, SignPc, SignState
      <3>5. CASE ConfigWrite(p)
        BY <1>0, <2>2, <3>5 DEF ConfigWrite, SignPc, SignState
      <3>6. CASE PolicySign(p)
        BY <1>0, <3>6 DEF PolicySign, SignState, NotSigning
      <3> QED
        BY <2>1, <3>1, <3>2, <3>3, <3>4, <3>5, <3>6 DEF SignStep
    <2>4. CASE SignEnds(p)
      <3>1. sign'[p] = NotSigning /\ signing' = signing /\ pairs' = pairs
        <4>1. CASE sign[p].pc = "sign"
          BY <1>0, <2>1, <4>1 DEF SignStep, PolicyVerified, PairPresent, PairGenerate,
             KeyWrite, ConfigWrite, PolicySign
        <4>2. CASE sign[p].pc = "policy" /\ PolicyTrusted
          BY <2>1, <2>2, <4>2 DEF SignStep, PolicyVerified, PairPresent, PairGenerate,
             KeyWrite, ConfigWrite, PolicySign, signVars
        <4> QED
          BY <2>4, <4>1, <4>2 DEF SignEnds
      <3> QED
        BY <1>0, <1>3, <2>1, <2>2, <2>3, <2>4, <3>1 DEF At
    <2>5. CASE ~SignEnds(p)
      <3>1. run' = run
        BY <2>1, <2>5
      <3>2. sign'[p].pc # "policy"
        <4>1. ~PolicyVerified(p) /\ ~PolicySign(p)
          BY <2>5 DEF SignEnds, PolicyVerified, PolicySign
        <4> QED
          BY <1>0, <2>1, <4>1 DEF SignStep, PairPresent, PairGenerate, KeyWrite,
             ConfigWrite, SignPc, SignState
      <3>3. InStep(p)'
        BY <2>1, <2>2, <3>1, <3>2 DEF InStep, At, Active, Stage
      <3>4. Mine(p)'
        BY <1>0, <3>1, <3>3 DEF Mine, Active
      <3> QED
        BY <1>0, <2>1, <2>3, <3>1, <3>4, HouseFrame
    <2> QED
      BY <2>4, <2>5
  <1>8. ASSUME NEW p \in Procs, LoadRuntime(p)
        PROVE  House'
    <2>1. PICK r : r = run[p]
      OBVIOUS
    <2>2. PICK n : n = run'[p]
      OBVIOUS
    <2>3. /\ \A q \in Procs \ {p} : run'[q] = run[q]
          /\ run' \in [Procs -> RunState] /\ n.step = r.step
          /\ Written(n.doc) /\ OnPlan(n)
      BY <1>8, <2>1, <2>2, LoadDoes
    <2>4. At(p, "load") /\ UNCHANGED <<setup, signing, policy, pairs, sign, install>>
      BY <1>8 DEF LoadRuntime, zkVars, signVars, instVars
    <2>5. r.step = "" /\ setup[p].pc = "idle" /\ sign[p] = NotSigning
      BY <1>0, <2>1, <2>4, HandsEmpty DEF Mine, InStep, At, Suites, RunState
    <2>6. Mine(p)'
      BY <2>1, <2>2, <2>3, <2>4, <2>5, MineRests
    <2> QED
      BY <1>0, <2>3, <2>4, <2>6, HouseFrame
  (* A stage that is decided at once.                                       *)
  <1>9. ASSUME NEW p \in Procs, Active(p), Stage(p) \notin Suites \cup {"policy"},
               run[p].step # "setup", Advance(p) \/ Fail(p),
               UNCHANGED <<setup, signing, policy, pairs, sign>>,
               install' \in Docs, Written(install')
        PROVE  House'
    <2>1. setup[p].pc = "idle" /\ sign[p] = NotSigning
      BY <1>0, <1>9, HandsEmpty DEF At
    <2> QED
      BY <1>0, <1>3, <1>9, <2>1
  (* A stage that has the installation record in hand.                      *)
  <1>10. ASSUME NEW p \in Procs, Active(p), Stage(p) \in {"install", "integrations"},
                NEW n \in RunState, run' = [run EXCEPT ![p] = n],
                n.step \in {"truncate", "write"}, n.command = run[p].command,
                n.stages = run[p].stages, n.end = run[p].end,
                n.doc.state = "written", Written(n.doc), run[p].step # "setup",
                UNCHANGED <<setup, signing, policy, pairs, sign>>,
                install' \in Docs, Written(install')
         PROVE  House'
    <2>1. setup[p].pc = "idle" /\ sign[p] = NotSigning
      BY <1>0, <1>10, HandsEmpty DEF At
    <2>2. run' \in [Procs -> RunState] /\ run'[p] = n
          /\ \A q \in Procs \ {p} : run'[q] = run[q]
      BY <1>0, <1>10
    <2>3. Active(p)' /\ Stage(p)' = Stage(p) /\ sign[p].pc = "policy"
      BY <1>10, <2>1, <2>2 DEF Active, Stage, NotSigning
    <2>4. InStep(p)'
      BY <1>10, <2>1, <2>2, <2>3 DEF InStep
    <2>5. OnPlan(n)
      BY <1>0, <1>10 DEF Mine, OnPlan, Done
    <2>6. Mine(p)'
      BY <1>10, <2>2, <2>4, <2>5 DEF Mine
    <2> QED
      BY <1>0, <1>10, <2>2, <2>6, HouseFrame
  <1>11. ASSUME NEW p \in Procs, Active(p), run[p].step \in {"", "truncate", "write"}
         PROVE  run[p].step # "setup"
    BY <1>11
  <1>12. ASSUME NEW p \in Procs, Active(p), Stage(p) \notin Suites
         PROVE  run[p].step # "setup"
    BY <1>0, <1>12 DEF Mine, InStep
  <1>13. ASSUME NEW p \in Procs, CheckHealth(p) \/ SmokeDoctor(p) \/ SmokeVerify(p)
         PROVE  House'
    <2>1. /\ At(p, "health") \/ At(p, "doctor") \/ At(p, "verify")
          /\ Advance(p) \/ Fail(p)
          /\ UNCHANGED <<setup, signing, policy, pairs, sign, install>>
      BY <1>13 DEF CheckHealth, SmokeDoctor, SmokeVerify, zkVars, signVars, instVars
    <2>2. Active(p) /\ Stage(p) \notin Suites \cup {"policy"}
      BY <2>1 DEF At, Suites
    <2> QED
      BY <1>0, <1>9, <1>12, <2>1, <2>2
  <1>14. ASSUME NEW p \in Procs, WriteTranscript(p)
         PROVE  House'
    <2>1. /\ At(p, "transcript") /\ (Advance(p) \/ Fail(p))
          /\ UNCHANGED <<setup, signing, policy, pairs, sign, install>>
      BY <1>14 DEF WriteTranscript, zkVars, signVars
    <2>2. Active(p) /\ Stage(p) \notin Suites \cup {"policy"}
      BY <2>1 DEF At, Suites
    <2> QED
      BY <1>0, <1>9, <1>12, <2>1, <2>2
  <1>15. ASSUME NEW p \in Procs, InstallCollect(p)
         PROVE  House'
    <2>1. /\ At(p, "install") /\ run[p].step = ""
          /\ UNCHANGED <<setup, signing, policy, pairs, sign, install>>
      BY <1>15 DEF InstallCollect, zkVars, signVars, instVars
    <2>2. Active(p) /\ Stage(p) \notin Suites \cup {"policy"}
          /\ Stage(p) \in {"install", "integrations"}
      BY <2>1 DEF At, Suites
    <2>3. CASE Fail(p)
      BY <1>0, <1>9, <2>1, <2>2, <2>3
    <2>4. CASE ~Fail(p)
      <3>1. PICK v : v = OnDisk
        OBVIOUS
      <3>2. v \in [Circuits -> Nat]
        BY <3>1 DEF OnDisk, Typed, Pair
      <3>3. PICK d : d = [state |-> "written", sovereign |-> TRUE, vk |-> v]
        OBVIOUS
      <3>4. d \in Docs /\ d.state = "written" /\ Written(d)
        BY <3>2, <3>3 DEF Docs, Written
      <3>5. run' = [run EXCEPT ![p].step = "truncate", ![p].doc = d]
        BY <1>15, <2>4, <3>1, <3>3 DEF InstallCollect
      <3> DEFINE n == [run[p] EXCEPT !.step = "truncate", !.doc = d]
      <3>6. run' = [run EXCEPT ![p] = n]
        BY <1>0, <3>5
      <3>7. /\ n \in RunState /\ n.step = "truncate" /\ n.doc = d
            /\ n.command = run[p].command /\ n.stages = run[p].stages
            /\ n.end = run[p].end
        BY <1>0, <3>4 DEF RunState
      <3> HIDE DEF n
      <3> QED
        BY <1>0, <1>10, <2>1, <2>2, <3>4, <3>6, <3>7
    <2> QED
      BY <2>3, <2>4
  <1>16. ASSUME NEW p \in Procs, IntegrationsRead(p)
         PROVE  House'
    <2>1. /\ At(p, "integrations") /\ run[p].step = ""
          /\ UNCHANGED <<setup, signing, policy, pairs, sign, install>>
      BY <1>16 DEF IntegrationsRead, zkVars, signVars, instVars
    <2>2. Active(p) /\ Stage(p) \notin Suites \cup {"policy"}
          /\ Stage(p) \in {"install", "integrations"}
      BY <2>1 DEF At, Suites
    <2>3. CASE Advance(p) \/ Fail(p)
      BY <1>0, <1>9, <2>1, <2>2, <2>3
    <2>4. CASE ~(Advance(p) \/ Fail(p))
      <3>1. install.state = "written"
        BY <1>0, <1>16, <2>4 DEF IntegrationsRead, Docs
      <3>2. run' = [run EXCEPT ![p].step = "truncate", ![p].doc = install]
        BY <1>16, <3>1 DEF IntegrationsRead
      <3> DEFINE n == [run[p] EXCEPT !.step = "truncate", !.doc = install]
      <3>3. run' = [run EXCEPT ![p] = n]
        BY <1>0, <3>2
      <3>4. /\ n \in RunState /\ n.step = "truncate" /\ n.doc = install
            /\ n.command = run[p].command /\ n.stages = run[p].stages
            /\ n.end = run[p].end
        BY <1>0 DEF RunState
      <3> HIDE DEF n
      <3> QED
        BY <1>0, <1>10, <2>1, <2>2, <3>1, <3>3, <3>4
    <2> QED
      BY <2>3, <2>4
  <1>17. ASSUME NEW p \in Procs, InstallTruncate(p)
         PROVE  House'
    <2>1. /\ Active(p) /\ run[p].step = "truncate"
          /\ install' = [NoInstall EXCEPT !.state = "torn"]
          /\ run' = [run EXCEPT ![p].step = "write"]
          /\ UNCHANGED <<setup, signing, policy, pairs, sign>>
      BY <1>17 DEF InstallTruncate, zkVars, signVars
    <2>2. Stage(p) \in {"install", "integrations"} /\ run[p].doc.state = "written"
          /\ Written(run[p].doc)
      BY <1>0, <2>1 DEF Mine, InStep
    <2>3. install' \in Docs /\ Written(install')
      BY <2>1, RecordsTyped DEF Docs, Written
    <2> DEFINE n == [run[p] EXCEPT !.step = "write"]
    <2>4. run' = [run EXCEPT ![p] = n]
      BY <1>0, <2>1
    <2>5. /\ n \in RunState /\ n.step = "write" /\ n.doc = run[p].doc
          /\ n.command = run[p].command /\ n.stages = run[p].stages
          /\ n.end = run[p].end
      BY <1>0 DEF RunState
    <2> HIDE DEF n
    <2>6. n.doc.state = "written" /\ Written(n.doc) /\ run[p].step # "setup"
      BY <2>1, <2>2, <2>5
    <2> QED
      BY <1>10, <2>1, <2>2, <2>3, <2>4, <2>5, <2>6
  <1>18. ASSUME NEW p \in Procs, InstallWrite(p)
         PROVE  House'
    <2>1. /\ Active(p) /\ run[p].step = "write" /\ Advance(p)
          /\ install' = run[p].doc
          /\ UNCHANGED <<setup, signing, policy, pairs, sign>>
      BY <1>18 DEF InstallWrite, zkVars, signVars
    <2>2. Stage(p) \in {"install", "integrations"} /\ Written(run[p].doc)
          /\ run[p].doc \in Docs
      BY <1>0, <2>1 DEF Mine, InStep, RunState
    <2>3. Stage(p) \notin Suites \cup {"policy"}
      BY <2>2 DEF Suites
    <2> QED
      BY <1>9, <2>1, <2>2, <2>3
  <1>19. ASSUME NEW p \in Procs, Die(p)
         PROVE  House'
    <2>1. /\ run' = [run EXCEPT ![p] = NoRun]
          /\ setup' = [setup EXCEPT ![p] = Idle]
          /\ sign' = [sign EXCEPT ![p] = NotSigning]
          /\ UNCHANGED <<signing, policy, pairs, install>>
      BY <1>19 DEF Die
    <2>2. NotSigning \in SignState
      BY DEF NotSigning, SignState
    <2>3. /\ run' \in [Procs -> RunState] /\ run'[p] = NoRun
          /\ \A q \in Procs \ {p} : run'[q] = run[q]
      BY <1>0, <2>1, RecordsTyped
    <2>4. /\ setup'[p].pc = "idle" /\ sign'[p] = NotSigning
          /\ sign' \in [Procs -> SignState]
          /\ \A q \in Procs \ {p} : setup'[q] = setup[q] /\ sign'[q] = sign[q]
      BY <1>0, <2>1, <2>2 DEF Idle
    <2>5. Mine(p)'
      BY <2>3, <2>4, NoRunFields, RecordsTyped, MineRests DEF Active
    <2> QED
      BY <1>0, <2>1, <2>3, <2>4, <2>5, HouseFrame
  <1>20. ASSUME NEW c \in Circuits, Lose(c)
         PROVE  House'
    <2>1. run' = Disturbed /\ UNCHANGED <<setup, signing, policy, pairs, sign, install>>
      BY <1>20 DEF Lose, LoseKey, signVars, instVars
    <2>2. run' \in [Procs -> RunState]
      BY <2>1, DisturbedDoes
    <2>3. ASSUME NEW q \in Procs  PROVE  Mine(q)'
      <3>1. /\ run'[q].command = run[q].command /\ run'[q].stages = run[q].stages
            /\ run'[q].step = run[q].step /\ run'[q].doc = run[q].doc
            /\ run'[q].end = run[q].end
        BY <2>1, DisturbedDoes
      <3>2. InStep(q)'
        BY <1>0, <2>1, <3>1 DEF Mine, InStep, Active, At, Stage
      <3>3. Active(q)' => OnPlan(run'[q])
        BY <1>0, <3>1 DEF Mine, OnPlan, Done, Active
      <3> QED
        BY <1>0, <3>1, <3>2, <3>3 DEF Mine
    <2> QED
      BY <1>0, <2>1, <2>2, <2>3 DEF House
  <1> QED
    BY <1>1, <1>2, <1>4, <1>5, <1>6, <1>7, <1>8, <1>13, <1>14, <1>15, <1>16, <1>17,
       <1>18, <1>19, <1>20 DEF Next

-----------------------------------------------------------------------------
(* The stage a command is at tells how far it is.                           *)
LEMMA StageIs ==
  ASSUME NEW r \in RunState, OnPlan(r), r.stages # <<>>
  PROVE  /\ r.command \in DOMAIN Plan /\ Plan[r.command] \in Seq(Names)
         /\ Done(r) \in 0 .. (Len(Plan[r.command]) - 1)
         /\ Head(r.stages) = Plan[r.command][Done(r) + 1]
         /\ Tail(r.stages) = <<>> <=> Done(r) = Len(Plan[r.command]) - 1
  <1>1. /\ r.command \in DOMAIN Plan /\ r.stages \in Seq(Names)
        /\ Plan[r.command] \in Seq(Names)
    BY PlansTyped DEF OnPlan, RunState
  <1>2. PICK k \in Nat : k = Len(Plan[r.command])
    BY <1>1
  <1>3. PICK m \in Nat : m = Len(r.stages)
    BY <1>1
  <1>4. Done(r) = k - m /\ Done(r) >= 0
    BY <1>2, <1>3 DEF Done, OnPlan
  <1>5. m > 0 /\ Head(r.stages) = r.stages[1]
        /\ (Tail(r.stages) = <<>> <=> m = 1)
    <2>1. PICK q \in Seq(Names) : q = r.stages
      BY <1>1
    <2>2. Len(q) > 0 /\ Head(q) = q[1] /\ Len(q) \in Nat
      BY <2>1
    <2>3. PICK u \in Seq(Names) : u = Tail(q)
      BY <2>1, HeadAndTail
    <2>4. Len(u) = Len(q) - 1
      BY <2>1, <2>3
    <2>5. u = <<>> <=> Len(u) = 0
      OBVIOUS
    <2>6. Tail(q) = <<>> <=> Len(q) = 1
      BY <2>2, <2>3, <2>4, <2>5
    <2> QED
      BY <1>3, <2>1, <2>2, <2>6
  <1>6. r.stages[1] = Plan[r.command][Done(r) + 1]
    BY <1>3, <1>5 DEF OnPlan
  <1>7. Done(r) \in 0 .. (k - 1) /\ (m = 1 <=> Done(r) = k - 1)
    BY <1>4, <1>5
  <1> QED
    BY <1>1, <1>2, <1>5, <1>6, <1>7

LEMMA BootstrapStages ==
  ASSUME NEW r \in RunState, OnPlan(r), r.stages # <<>>, r.command = "bootstrap",
         NEW d, d = Done(r), NEW h, h = Head(r.stages)
  PROVE  /\ d \in 0 .. 9
         /\ h = "governance" => d \in {0, 7}
         /\ h = "entity" => d \in {1, 8}
         /\ h = "policy" => d = 2
         /\ h = "load" => d = 3
         /\ h = "health" => d = 4
         /\ h = "install" => d = 5
         /\ h = "doctor" => d = 6
         /\ h = "verify" => d = 9
         /\ h \notin {"integrations", "transcript"}
         /\ Tail(r.stages) = <<>> <=> d = 9
  <1>1. PICK b : b = Plan["bootstrap"]
    OBVIOUS
  <1>2. /\ Len(b) = 10
        /\ b[1] = "governance" /\ b[2] = "entity" /\ b[3] = "policy" /\ b[4] = "load"
        /\ b[5] = "health" /\ b[6] = "install" /\ b[7] = "doctor"
        /\ b[8] = "governance" /\ b[9] = "entity" /\ b[10] = "verify"
    BY <1>1, BootstrapPlan
  <1>3. /\ d \in 0 .. (Len(b) - 1) /\ h = b[d + 1]
        /\ Tail(r.stages) = <<>> <=> d = Len(b) - 1
    BY <1>1, StageIs
  <1>4. d \in 0 .. 9 /\ (Tail(r.stages) = <<>> <=> d = 9)
    BY <1>2, <1>3
  <1>5. CASE d = 0
    <2>1. h = "governance"
      BY <1>2, <1>3, <1>5
    <2> QED
      BY <1>4, <1>5, <2>1
  <1>6. CASE d = 1
    <2>1. h = "entity"
      BY <1>2, <1>3, <1>6
    <2> QED
      BY <1>4, <1>6, <2>1
  <1>7. CASE d = 2
    <2>1. h = "policy"
      BY <1>2, <1>3, <1>7
    <2> QED
      BY <1>4, <1>7, <2>1
  <1>8. CASE d = 3
    <2>1. h = "load"
      BY <1>2, <1>3, <1>8
    <2> QED
      BY <1>4, <1>8, <2>1
  <1>9. CASE d = 4
    <2>1. h = "health"
      BY <1>2, <1>3, <1>9
    <2> QED
      BY <1>4, <1>9, <2>1
  <1>10. CASE d = 5
    <2>1. h = "install"
      BY <1>2, <1>3, <1>10
    <2> QED
      BY <1>4, <1>10, <2>1
  <1>11. CASE d = 6
    <2>1. h = "doctor"
      BY <1>2, <1>3, <1>11
    <2> QED
      BY <1>4, <1>11, <2>1
  <1>12. CASE d = 7
    <2>1. h = "governance"
      BY <1>2, <1>3, <1>12
    <2> QED
      BY <1>4, <1>12, <2>1
  <1>13. CASE d = 8
    <2>1. h = "entity"
      BY <1>2, <1>3, <1>13
    <2> QED
      BY <1>4, <1>13, <2>1
  <1>14. CASE d = 9
    <2>1. h = "verify"
      BY <1>2, <1>3, <1>14
    <2> QED
      BY <1>4, <1>14, <2>1
  <1>15. \/ d = 0 \/ d = 1 \/ d = 2 \/ d = 3 \/ d = 4
         \/ d = 5 \/ d = 6 \/ d = 7 \/ d = 8 \/ d = 9
    BY <1>4
  <1> QED
    BY <1>5, <1>6, <1>7, <1>8, <1>9, <1>10, <1>11, <1>12, <1>13, <1>14, <1>15

LEMMA FirstRunStages ==
  ASSUME NEW r \in RunState, OnPlan(r), r.stages # <<>>, r.command = "first_run",
         NEW d, d = Done(r), NEW h, h = Head(r.stages)
  PROVE  /\ d \in 0 .. 4
         /\ h = "policy" => d = 0
         /\ h = "load" => d = 1
         /\ h = "governance" => d = 2
         /\ h = "entity" => d = 3
         /\ h = "health" => d = 4
         /\ h \in {"policy", "load", "governance", "entity", "health"}
  <1>1. PICK b : b = Plan["first_run"]
    OBVIOUS
  <1>2. b = <<"policy", "load", "governance", "entity", "health">>
    BY <1>1, ToolPlans
  <1>3. /\ Len(b) = 5
        /\ b[1] = "policy" /\ b[2] = "load" /\ b[3] = "governance" /\ b[4] = "entity"
        /\ b[5] = "health"
    BY <1>2
  <1>4. d \in 0 .. (Len(b) - 1) /\ h = b[d + 1]
    BY <1>1, StageIs
  <1>5. d \in {0, 1, 2, 3, 4}
    BY <1>3, <1>4
  <1> QED
    BY <1>3, <1>4, <1>5

LEMMA ToolStages ==
  ASSUME NEW r \in RunState, OnPlan(r), r.stages # <<>>,
         r.command \notin {"bootstrap", "first_run"}
  PROVE  Head(r.stages) \in {"governance", "entity", "integrations", "transcript"}
  <1>1. PICK d : d = Done(r)
    OBVIOUS
  <1>2. PICK h : h = Head(r.stages)
    OBVIOUS
  <1>3. PICK c : c = r.command
    OBVIOUS
  <1>4. PICK b : b = Plan[c]
    OBVIOUS
  <1>5. c \in DOMAIN Plan /\ d \in 0 .. (Len(b) - 1) /\ h = b[d + 1]
    BY <1>1, <1>2, <1>3, <1>4, StageIs
  <1>6. CASE c = "force_setup"
    <2>1. b = <<"governance">>
      BY <1>4, <1>6, ToolPlans
    <2> QED
      BY <1>2, <1>5, <2>1
  <1>7. CASE c = "attest"
    <2>1. b = <<"governance", "entity">>
      BY <1>4, <1>7, ToolPlans
    <2>2. Len(b) = 2 /\ b[1] = "governance" /\ b[2] = "entity"
      BY <2>1
    <2>3. d \in {0, 1}
      BY <1>5, <2>2
    <2> QED
      BY <1>2, <1>5, <2>2, <2>3
  <1>8. CASE c = "integrations"
    <2>1. b = <<"integrations">>
      BY <1>4, <1>8, ToolPlans
    <2> QED
      BY <1>2, <1>5, <2>1
  <1>9. CASE c = "ceremony"
    <2>1. b = <<"transcript">>
      BY <1>4, <1>9, ToolPlans
    <2> QED
      BY <1>2, <1>5, <2>1
  <1> QED
    BY <1>3, <1>5, <1>6, <1>7, <1>8, <1>9, ToolPlans

-----------------------------------------------------------------------------
(* A command that runs alone is the only one: whatever else begins, or goes *)
(* wrong, ends that.                                                        *)
Solo(p) == run[p].command # "none" /\ run[p].alone

Single == \A p, q \in Procs : Solo(p) /\ q # p => ~Active(q)

Carries(p) ==
  \/ \E s \in Suites : ZkBegin(p, s)
  \/ ZkStep(p) /\ run' = run /\ faults' = faults
  \/ ZkReturn(p) \/ PolicyStep(p) \/ LoadRuntime(p)
  \/ CheckHealth(p) \/ InstallCollect(p) \/ IntegrationsRead(p)
  \/ InstallTruncate(p) \/ InstallWrite(p) \/ WriteTranscript(p)
  \/ SmokeDoctor(p) \/ SmokeVerify(p)

LEMMA CarriesOwn ==
  ASSUME House, NEW q \in Procs, Carries(q)
  PROVE  /\ Active(q)
         /\ \A p \in Procs \ {q} : run'[p] = run[p]
         /\ run'[q].alone = run[q].alone /\ run'[q].command = run[q].command
  <1>0. run \in [Procs -> RunState] /\ run[q] \in RunState
    BY DEF House
  <1>1. Active(q)
    BY DEF Carries, ZkBegin, ZkStep, ZkReturn, PolicyStep, LoadRuntime, CheckHealth,
       InstallCollect, IntegrationsRead, InstallTruncate, InstallWrite,
       WriteTranscript, SmokeDoctor, SmokeVerify, At
  <1>4. CASE Advance(q)
    BY <1>1, <1>4, AdvanceDoes
  <1>5. CASE Fail(q)
    BY <1>1, <1>5, FailDoes
  <1>6. CASE LoadRuntime(q)
    BY <1>1, <1>6, LoadDoes
  <1>7. CASE run' = run
    BY <1>1, <1>7
  <1>8. CASE \E s \in Suites : ZkBegin(q, s)
    <2>1. run' = [run EXCEPT ![q].step = "setup"]
      BY <1>8 DEF ZkBegin
    <2> QED
      BY <1>0, <1>1, <2>1 DEF RunState
  <1>9. CASE InstallTruncate(q)
    BY <1>0, <1>1, <1>9 DEF InstallTruncate, RunState
  <1>10. CASE IntegrationsRead(q)
    <2>1. CASE Advance(q) \/ Fail(q)
      BY <1>4, <1>5, <2>1
    <2>2. CASE ~(Advance(q) \/ Fail(q))
      <3>1. run' = [run EXCEPT ![q].step = "truncate", ![q].doc = install]
        BY <1>10, <2>2 DEF IntegrationsRead
      <3> QED
        BY <1>0, <1>1, <3>1 DEF RunState
    <2> QED
      BY <2>1, <2>2
  <1>11. CASE InstallCollect(q)
    <2>1. CASE Fail(q)
      BY <1>5, <2>1
    <2>2. CASE ~Fail(q)
      <3>1. PICK d : d = [state |-> "written", sovereign |-> TRUE, vk |-> OnDisk]
        OBVIOUS
      <3>2. run' = [run EXCEPT ![q].step = "truncate", ![q].doc = d]
        BY <1>11, <2>2, <3>1 DEF InstallCollect
      <3> QED
        BY <1>0, <1>1, <3>2 DEF RunState
    <2> QED
      BY <2>1, <2>2
  <1>12. ASSUME \/ ZkReturn(q) \/ CheckHealth(q) \/ InstallWrite(q)
                \/ WriteTranscript(q) \/ SmokeDoctor(q) \/ SmokeVerify(q)
         PROVE  Advance(q) \/ Fail(q)
    BY <1>12 DEF ZkReturn, CheckHealth, InstallWrite, WriteTranscript, SmokeDoctor,
       SmokeVerify
  <1>13. PolicyStep(q) => Advance(q) \/ run' = run
    BY DEF PolicyStep
  <1> QED
    BY <1>4, <1>5, <1>6, <1>7, <1>8, <1>9, <1>10, <1>11, <1>12, <1>13 DEF Carries

LEMMA SoloStep ==
  ASSUME House, Single, [Next]_vars, NEW p \in Procs, Solo(p)'
  PROVE  \/ UNCHANGED vars
         \/ \E c \in DOMAIN Plan : /\ Start(p, c)
                                   /\ \A q \in Procs \ {p} : run'[q] = NoRun
         \/ Solo(p) /\ Carries(p)
  <1>0. run \in [Procs -> RunState] /\ \A q \in Procs : run[q] \in RunState
    BY DEF House
  <1>1. PICK n : n = run'[p]
    OBVIOUS
  <1>2. n.command # "none" /\ n.alone
    BY <1>1 DEF Solo
  <1>3. ASSUME run' = Disturbed
        PROVE  FALSE
    BY <1>0, <1>1, <1>2, <1>3 DEF Disturbed, RunState
  <1>4. ASSUME NEW q \in Procs, Carries(q)
        PROVE  q = p /\ Solo(p)
    <2>1. CASE q = p
      BY <1>1, <1>2, <1>4, <2>1, CarriesOwn DEF Solo
    <2>2. CASE q # p
      BY <1>1, <1>2, <1>4, <2>2, CarriesOwn DEF Solo, Single
    <2> QED
      BY <2>1, <2>2
  <1>5. ASSUME NEW q \in Procs, Die(q)
        PROVE  FALSE
    <2>1. Active(q) /\ run' = [run EXCEPT ![q] = NoRun]
      BY <1>5 DEF Die
    <2>2. q # p
      BY <1>0, <1>1, <1>2, <2>1, NoRunFields
    <2>3. Solo(p)
      BY <1>0, <1>1, <1>2, <2>1, <2>2 DEF Solo
    <2> QED
      BY <2>1, <2>2, <2>3 DEF Single
  <1>6. ASSUME NEW q \in Procs, ZkStep(q)
        PROVE  Carries(q)
    BY <1>3, <1>6 DEF ZkStep, Carries
  <1>7. ASSUME NEW q \in Procs, NEW c \in DOMAIN Plan, Start(q, c)
        PROVE  q = p /\ \A o \in Procs \ {p} : run'[o] = NoRun
    <2>1. PICK m : m = run'[q]
      OBVIOUS
    <2>2. \/ (\A o \in Procs : ~Active(o)) /\ \A o \in Procs \ {q} : run'[o] = NoRun
          \/ /\ m.alone = FALSE
             /\ \A o \in Procs \ {q} : run'[o] = [run[o] EXCEPT !.alone = FALSE]
      BY <1>7, <2>1, StartDoes
    <2>3. CASE \A o \in Procs \ {q} : run'[o] = NoRun
      BY <1>1, <1>2, <2>3, NoRunFields
    <2>4. CASE /\ m.alone = FALSE
               /\ \A o \in Procs \ {q} : run'[o] = [run[o] EXCEPT !.alone = FALSE]
      <3>1. q # p
        BY <1>1, <1>2, <2>1, <2>4
      <3> QED
        BY <1>0, <1>1, <1>2, <2>4, <3>1 DEF RunState
    <2> QED
      BY <2>2, <2>3, <2>4
  <1>8. ASSUME NEW c \in Circuits, Lose(c)
        PROVE  FALSE
    BY <1>3, <1>8 DEF Lose
  <1>9. CASE UNCHANGED vars
    BY <1>9
  <1>10. ASSUME NEW q \in Procs,
                \/ \E s \in Suites : ZkBegin(q, s)
                \/ ZkReturn(q) \/ PolicyStep(q) \/ LoadRuntime(q)
                \/ CheckHealth(q) \/ InstallCollect(q) \/ IntegrationsRead(q)
                \/ InstallTruncate(q) \/ InstallWrite(q) \/ WriteTranscript(q)
                \/ SmokeDoctor(q) \/ SmokeVerify(q)
         PROVE  Carries(q)
    BY <1>10 DEF Carries
  <1> QED
    BY <1>4, <1>5, <1>6, <1>7, <1>8, <1>9, <1>10 DEF Next

LEMMA SingleStays ==
  ASSUME House, Single, [Next]_vars
  PROVE  Single'
  <1> SUFFICES ASSUME NEW p \in Procs, NEW q \in Procs, Solo(p)', q # p
               PROVE  ~Active(q)'
    BY DEF Single
  <1>1. CASE UNCHANGED vars
    BY <1>1 DEF vars, Solo, Single, Active
  <1>2. CASE \A o \in Procs \ {p} : run'[o] = NoRun
    BY <1>2, NoRunFields DEF Active
  <1>3. CASE Solo(p) /\ Carries(p)
    BY <1>3, CarriesOwn DEF Single, Active
  <1> QED
    BY <1>1, <1>2, <1>3, SoloStep

-----------------------------------------------------------------------------
(* A key setup that nothing disturbs: what its loop has dealt with is       *)
(* there, and it raises at a torn manifest only.                            *)
Handled(p) == {c \in Range(CircuitsOf(setup[p].suite)) :
                 setup[p].rebuild \/ c \notin Range(setup[p].left)}

KeysLoop(p) ==
  LET l == setup[p] IN
  /\ l.pc = "vk" => keys[Current(p)].pk # 0
  /\ l.pc \in {"record", "truncate", "write"} /\ ~l.rebuild =>
       l.left # <<>> /\ Complete(Current(p))
  /\ l.pc # "idle" => \A c \in Handled(p) : Complete(c)
  /\ l.pc = "raised" => \E s \in Suites : manifest[s].torn
  /\ l.rebuild => ~l.ran /\ l.pc \notin {"check", "pk", "vk"}

(* Against a transcript, a key that was made shows in the manifest; what    *)
(* was rebuilt records the keys on disk.                                    *)
Differs(s) == \E c \in Range(CircuitsOf(s)) : Filed(c) # Entry(c)
Recent(s) == \A c \in Range(CircuitsOf(s)) : Entry(c) = keys[c]
Settled(s) == transcript.exists => Differs(s) \/ Recent(s)

FiledLoop(p) ==
  LET l == setup[p]
      c == Current(p) IN
  /\ l.pc \in {"truncate", "write"} =>
       l.doc.entry = [manifest[l.suite].entry EXCEPT ![c] = keys[c]]
  /\ l.rebuild => \A d \in Range(CircuitsOf(l.suite)) \ Range(l.left) : Entry(d) = keys[d]
  /\ transcript.exists =>
       /\ l.pc \in {"pk", "vk"} => Filed(c).vk < l.key
       /\ l.pc \in {"record", "truncate", "write"} /\ ~l.rebuild => Filed(c) # keys[c]
       /\ l.pc \in {"check", "pk", "vk"} /\ l.ran => Differs(l.suite)

(* The pair of signing keys that is being made.                             *)
Mismatch == HasPair /\ signing.key # signing.config

SignHand(p) ==
  /\ sign[p].pc = "key" => sign[p].key # 0
  /\ sign[p].pc = "config" => sign[p].key # 0 /\ signing.key = sign[p].key
  /\ sign[p].pc = "sign" => HasPair

(* What the stages a command has behind it have left.                       *)
Past(r, x) == \E i \in 1 .. Done(r) : Plan[r.command][i] = x

DoctorPassed(p) ==
  /\ Doctor
  /\ setup[p].pc \notin {"pk", "vk"}
  /\ transcript.exists => /\ \A s \in Suites : Recent(s)
                          /\ setup[p].pc \notin {"truncate", "write"}

Leaves(p, x) ==
  /\ x \in Suites => Ready(x) /\ (Settled(x) \/ run[p].command # "bootstrap")
  /\ x = "policy" => PolicyTrusted \/ Mismatch
  /\ x = "load" => /\ run[p].trusted => PolicyTrusted
                   /\ run[p].trusted \/ Mismatch
  /\ x = "health" => PolicyTrusted
  /\ x = "install" => install.state = "written"
  /\ x = "doctor" => DoctorPassed(p)

Way(p) == \A x \in Names : Past(run[p], x) => Leaves(p, x)

Outcome(p) ==
  /\ run[p].end = "failed" => Stuck
  /\ run[p].end = "ok" /\ run[p].command = "bootstrap" =>
       Doctor /\ \A c \in Circuits : Provable(c)

Explained(p) ==
  IF Active(p) THEN KeysLoop(p) /\ FiledLoop(p) /\ SignHand(p) /\ Way(p)
  ELSE Outcome(p)

SoloInv == \A p \in Procs : Solo(p) => Explained(p)

(* A process between two setups holds nothing of the last one, and only a   *)
(* command ends.                                                            *)
Rested == \A p \in Procs : setup[p].pc = "idle" => setup[p] = Idle
Named == \A p \in Procs : run[p].end # "none" => run[p].command # "none"

LEMMA PastAdvances ==
  ASSUME NEW r \in RunState, OnPlan(r), r.stages # <<>>,
         NEW n, n.command = r.command, Done(n) = Done(r) + 1
  PROVE  \A x : Past(n, x) <=> Past(r, x) \/ x = Head(r.stages)
  <1>1. PICK k \in Nat : k = Done(r)
    BY StageIs
  <1>2. Head(r.stages) = Plan[r.command][k + 1]
    BY <1>1, StageIs
  <1>3. 1 .. (k + 1) = (1 .. k) \cup {k + 1}
    OBVIOUS
  <1> QED
    BY <1>1, <1>2, <1>3 DEF Past

LEMMA BootstrapPast ==
  ASSUME NEW r \in RunState, OnPlan(r), r.stages # <<>>, r.command = "bootstrap",
         NEW h, h = Head(r.stages)
  PROVE  /\ h = "load" => Past(r, "policy")
         /\ h \in {"health", "install", "doctor"} =>
              Past(r, "governance") /\ Past(r, "entity")
         /\ h = "health" => Past(r, "load")
         /\ h \in {"install", "doctor"} => Past(r, "health")
         /\ h = "doctor" => Past(r, "install")
         /\ h = "verify" => Past(r, "doctor")
         /\ h = "install" => ~Past(r, "install") /\ ~Past(r, "doctor")
         /\ h = "policy" => /\ ~Past(r, "policy") /\ ~Past(r, "load")
                            /\ ~Past(r, "health") /\ ~Past(r, "doctor")
         /\ h \in Suites /\ Past(r, h) => Past(r, "doctor")
         /\ h \notin {"integrations", "transcript"}
         /\ Tail(r.stages) = <<>> => h = "verify"
  <1>1. PICK d : d = Done(r)
    OBVIOUS
  <1>2. PICK b : b = Plan["bootstrap"]
    OBVIOUS
  <1>3. /\ b[1] = "governance" /\ b[2] = "entity" /\ b[3] = "policy" /\ b[4] = "load"
        /\ b[5] = "health" /\ b[6] = "install" /\ b[7] = "doctor"
        /\ b[8] = "governance" /\ b[9] = "entity" /\ b[10] = "verify"
    BY <1>2, BootstrapPlan
  <1>4. /\ d \in 0 .. 9
        /\ h = "governance" => d \in {0, 7}
        /\ h = "entity" => d \in {1, 8}
        /\ h = "policy" => d = 2
        /\ h = "load" => d = 3
        /\ h = "health" => d = 4
        /\ h = "install" => d = 5
        /\ h = "doctor" => d = 6
        /\ h = "verify" => d = 9
        /\ h \notin {"integrations", "transcript"}
        /\ Tail(r.stages) = <<>> <=> d = 9
    BY <1>1, BootstrapStages
  <1>5. \A x : Past(r, x) <=> \E i \in 1 .. d : b[i] = x
    BY <1>1, <1>2 DEF Past
  <1>6. /\ Past(r, "governance") <=> d > 0
        /\ Past(r, "entity") <=> d > 1
        /\ Past(r, "policy") <=> d > 2
        /\ Past(r, "load") <=> d > 3
        /\ Past(r, "health") <=> d > 4
        /\ Past(r, "install") <=> d > 5
        /\ Past(r, "doctor") <=> d > 6
    <2>1. \A i \in 1 .. d : i \in {1, 2, 3, 4, 5, 6, 7, 8, 9}
      BY <1>4
    <2>2. d \in Nat
      BY <1>4
    <2>3. Past(r, "governance") <=> d > 0
      BY <1>3, <1>5, <2>1, <2>2
    <2>4. Past(r, "entity") <=> d > 1
      BY <1>3, <1>5, <2>1, <2>2
    <2>5. Past(r, "policy") <=> d > 2
      BY <1>3, <1>5, <2>1, <2>2
    <2>6. Past(r, "load") <=> d > 3
      BY <1>3, <1>5, <2>1, <2>2
    <2>7. Past(r, "health") <=> d > 4
      BY <1>3, <1>5, <2>1, <2>2
    <2>8. Past(r, "install") <=> d > 5
      BY <1>3, <1>5, <2>1, <2>2
    <2>9. Past(r, "doctor") <=> d > 6
      BY <1>3, <1>5, <2>1, <2>2
    <2> QED
      BY <2>3, <2>4, <2>5, <2>6, <2>7, <2>8, <2>9
  <1>7. Head(r.stages) = b[d + 1]
    BY <1>1, <1>2, StageIs
  <1>8. d = 9 => h = "verify"
    BY <1>3, <1>7
  <1> QED
    BY <1>4, <1>6, <1>8 DEF Suites

LEMMA FirstRunPast ==
  ASSUME NEW r \in RunState, OnPlan(r), r.stages # <<>>, r.command = "first_run",
         NEW h, h = Head(r.stages)
  PROVE  /\ h = "load" => Past(r, "policy")
         /\ h = "health" => /\ Past(r, "governance") /\ Past(r, "entity")
                            /\ Past(r, "load")
         /\ h = "policy" => /\ ~Past(r, "policy") /\ ~Past(r, "load")
                            /\ ~Past(r, "health") /\ ~Past(r, "doctor")
         /\ ~Past(r, "install") /\ ~Past(r, "doctor")
         /\ h \notin {"install", "doctor", "verify", "integrations", "transcript"}
  <1>1. PICK d : d = Done(r)
    OBVIOUS
  <1>2. PICK b : b = Plan["first_run"]
    OBVIOUS
  <1>3. b = <<"policy", "load", "governance", "entity", "health">>
    BY <1>2, ToolPlans
  <1>4. /\ b[1] = "policy" /\ b[2] = "load" /\ b[3] = "governance"
        /\ b[4] = "entity" /\ b[5] = "health"
    BY <1>3
  <1>5. /\ d \in 0 .. 4
        /\ h = "policy" => d = 0
        /\ h = "load" => d = 1
        /\ h = "health" => d = 4
        /\ h \in {"policy", "load", "governance", "entity", "health"}
    BY <1>1, FirstRunStages
  <1>6. \A x : Past(r, x) <=> \E i \in 1 .. d : b[i] = x
    BY <1>1, <1>2 DEF Past
  <1>7. /\ Past(r, "policy") <=> d > 0
        /\ Past(r, "load") <=> d > 1
        /\ Past(r, "governance") <=> d > 2
        /\ Past(r, "entity") <=> d > 3
        /\ ~Past(r, "health") /\ ~Past(r, "install") /\ ~Past(r, "doctor")
    <2>1. \A i \in 1 .. d : i \in {1, 2, 3, 4}
      BY <1>5
    <2> QED
      BY <1>4, <1>5, <1>6, <2>1
  <1> QED
    BY <1>5, <1>7

(* A tool has at most its key setups behind it.                             *)
LEMMA ToolPast ==
  ASSUME NEW r \in RunState, OnPlan(r), r.stages # <<>>,
         r.command \notin {"bootstrap", "first_run"}, NEW x, Past(r, x)
  PROVE  x \in {"governance", "entity", "integrations", "transcript"}
  <1>1. PICK c : c = r.command
    OBVIOUS
  <1>2. PICK b : b = Plan[c]
    OBVIOUS
  <1>3. c \in DOMAIN Plan /\ b \in Seq(Names) /\ Done(r) \in 0 .. (Len(b) - 1)
    BY <1>1, <1>2, StageIs
  <1>4. PICK i \in 1 .. Len(b) : b[i] = x
    BY <1>1, <1>2, <1>3 DEF Past
  <1>5. CASE c = "force_setup" \/ c = "integrations" \/ c = "ceremony"
    <2>1. b = <<"governance">> \/ b = <<"integrations">> \/ b = <<"transcript">>
      BY <1>2, <1>5, ToolPlans
    <2> QED
      BY <1>4, <2>1
  <1>6. CASE c = "attest"
    <2>1. b = <<"governance", "entity">>
      BY <1>2, <1>6, ToolPlans
    <2> QED
      BY <1>4, <2>1
  <1> QED
    BY <1>1, <1>3, <1>5, <1>6, ToolPlans

(* What a command has behind it at each stage.                              *)
LEMMA PastHere ==
  ASSUME NEW r \in RunState, OnPlan(r), r.stages # <<>>,
         NEW h, h = Head(r.stages)
  PROVE  /\ h = "load" => Past(r, "policy")
         /\ h \in {"health", "install", "doctor"} =>
              Past(r, "governance") /\ Past(r, "entity")
         /\ h = "health" => Past(r, "load")
         /\ h \in {"install", "doctor"} => Past(r, "health")
         /\ h = "doctor" => Past(r, "install")
         /\ h = "verify" => Past(r, "doctor")
         /\ h \in {"install", "integrations", "transcript"} =>
              ~Past(r, "install") /\ ~Past(r, "doctor")
         /\ h = "policy" => /\ ~Past(r, "policy") /\ ~Past(r, "load")
                            /\ ~Past(r, "health") /\ ~Past(r, "doctor")
         /\ h \in Suites /\ r.command = "bootstrap" /\ Past(r, h) => Past(r, "doctor")
         /\ h \in {"integrations", "transcript"} => r.command # "bootstrap"
         /\ r.command = "bootstrap" /\ Tail(r.stages) = <<>> => h = "verify"
  <1>1. CASE r.command = "bootstrap"
    BY <1>1, BootstrapPast
  <1>2. CASE r.command = "first_run"
    BY <1>2, FirstRunPast
  <1>3. CASE r.command \notin {"bootstrap", "first_run"}
    BY <1>3, ToolPast, ToolStages
  <1> QED
    BY <1>1, <1>2, <1>3

-----------------------------------------------------------------------------
LEMMA RangeOfLoop ==
  ASSUME NEW S, NEW q \in Seq(S), q # <<>>
  PROVE  Range(q) = {Head(q)} \cup Range(Tail(q))
  <1>1. Len(q) \in Nat /\ Len(q) > 0 /\ DOMAIN q = 1 .. Len(q)
    OBVIOUS
  <1>2. /\ Head(q) = q[1] /\ DOMAIN Tail(q) = 1 .. (Len(q) - 1)
        /\ \A i \in 1 .. (Len(q) - 1) : Tail(q)[i] = q[i + 1]
    OBVIOUS
  <1>3. ASSUME NEW x \in Range(q)
        PROVE  x = Head(q) \/ x \in Range(Tail(q))
    <2>1. PICK i \in 1 .. Len(q) : q[i] = x
      BY <1>1 DEF Range
    <2>2. CASE i = 1
      BY <1>2, <2>1, <2>2
    <2>3. CASE i # 1
      <3>1. i - 1 \in 1 .. (Len(q) - 1) /\ (i - 1) + 1 = i
        BY <1>1, <2>1, <2>3
      <3>2. Tail(q)[i - 1] = x
        BY <1>2, <2>1, <3>1
      <3> QED
        BY <1>2, <3>1, <3>2 DEF Range
    <2> QED
      BY <2>2, <2>3
  <1>4. ASSUME NEW x \in Range(Tail(q))
        PROVE  x \in Range(q)
    <2>1. PICK i \in 1 .. (Len(q) - 1) : Tail(q)[i] = x
      BY <1>2 DEF Range
    <2>2. i + 1 \in 1 .. Len(q) /\ q[i + 1] = x
      BY <1>1, <1>2, <2>1
    <2> QED
      BY <1>1, <2>2 DEF Range
  <1>5. Head(q) \in Range(q)
    BY <1>1, <1>2 DEF Range
  <1> QED
    BY <1>3, <1>4, <1>5

LEMMA LoopPops ==
  ASSUME NEW l, LocalOK(l), l.left # <<>>
  PROVE  Range(l.left) = {Head(l.left)} \cup Range(Tail(l.left))
  <1>1. l.left \in Seq(Circuits)
    BY DEF LocalOK, LocalState
  <1> QED
    BY <1>1, RangeOfLoop

LEMMA HandledIn ==
  ASSUME Typed, NEW p \in Procs
  PROVE  /\ Handled(p) \subseteq Range(CircuitsOf(setup[p].suite))
         /\ Range(CircuitsOf(setup[p].suite)) \subseteq Circuits
  <1>1. setup[p].suite \in Suites
    BY DEF Typed, LocalState
  <1> QED
    BY <1>1, CircuitsOfSuites DEF Handled

LEMMA HandledKept ==
  ASSUME NEW p \in Procs, setup'[p].suite = setup[p].suite,
         setup'[p].left = setup[p].left, setup'[p].rebuild = setup[p].rebuild
  PROVE  Handled(p)' = Handled(p)
  BY DEF Handled

LEMMA HandledPops ==
  ASSUME Typed, NEW p \in Procs, setup[p].left # <<>>,
         setup'[p].suite = setup[p].suite,
         setup'[p].left = Tail(setup[p].left), setup'[p].rebuild = setup[p].rebuild
  PROVE  Handled(p)' \subseteq Handled(p) \cup {Current(p)}
  <1>1. LocalOK(setup[p])
    BY DEF Typed
  <1>2. Range(setup[p].left) = {Current(p)} \cup Range(Tail(setup[p].left))
    BY <1>1, LoopPops DEF Current
  <1> QED
    BY <1>2 DEF Handled

(* Once complete, a pair of keys is never less in a setup.                  *)
LEMMA CompleteStays ==
  ASSUME Typed, InHand, NEW p \in Procs, SetupStep(p)
  PROVE  \A d \in Circuits : Complete(d) => Complete(d)'
  <1>1. PICK l : l = setup[p]
    OBVIOUS
  <1>2. PICK n : n = setup'[p]
    OBVIOUS
  <1>3. PICK c : c = Current(p)
    OBVIOUS
  <1>4. l.pc \in {"pk", "vk"} => l.key # 0
    BY <1>1 DEF InHand
  <1>5. CASE SetupPk(p)
    BY <1>1, <1>2, <1>3, <1>4, <1>5, PkDoes DEF Complete
  <1>6. CASE SetupVk(p)
    BY <1>1, <1>2, <1>3, <1>4, <1>6, VkDoes DEF Complete
  <1>7. CASE SetupProve(p)
    BY <1>7 DEF SetupProve, Complete
  <1>8. CASE keys' = keys
    BY <1>8 DEF Complete
  <1> QED
    BY <1>5, <1>6, <1>7, <1>8, OtherSteps DEF SetupStep

LEMMA KeysLoopStep ==
  ASSUME Typed, InHand, NEW p \in Procs, KeysLoop(p), SetupStep(p), faults' = faults
  PROVE  KeysLoop(p)'
  <1>1. PICK l : l = setup[p]
    OBVIOUS
  <1>2. PICK n : n = setup'[p]
    OBVIOUS
  <1>3. PICK c : c = Current(p)
    OBVIOUS
  <1>4. \A d \in Circuits : Complete(d) => Complete(d)'
    BY CompleteStays
  <1>5. /\ l.pc = "vk" => keys[c].pk # 0
        /\ l.pc \in {"record", "truncate", "write"} /\ ~l.rebuild =>
             l.left # <<>> /\ Complete(c)
        /\ l.pc # "idle" => \A d \in Handled(p) : Complete(d)
        /\ l.pc = "raised" => \E s \in Suites : manifest[s].torn
        /\ l.rebuild => ~l.ran /\ l.pc \notin {"check", "pk", "vk"}
    BY <1>1, <1>3 DEF KeysLoop
  <1>6. /\ Handled(p) \subseteq Range(CircuitsOf(l.suite))
        /\ Range(CircuitsOf(l.suite)) \subseteq Circuits
    BY <1>1, HandledIn
  <1>7. l.pc \in {"pk", "vk"} => l.key # 0
    BY <1>1 DEF InHand
  <1>8. ASSUME l.pc # "idle", n.left = l.left, n.suite = l.suite, n.rebuild = l.rebuild
        PROVE  Current(p)' = c /\ \A d \in Handled(p)' : Complete(d)'
    <2>1. Handled(p)' = Handled(p)
      BY <1>1, <1>2, <1>8, HandledKept
    <2>2. Current(p)' = c
      BY <1>1, <1>2, <1>3, <1>8 DEF Current
    <2>3. \A d \in Handled(p) : d \in Circuits /\ Complete(d)
      BY <1>5, <1>6, <1>8
    <2> QED
      BY <1>4, <2>1, <2>2, <2>3
  <1>9. ASSUME l.pc # "idle", l.left # <<>>, n.left = Tail(l.left), n.suite = l.suite,
               n.rebuild = l.rebuild, Complete(c), c \in Circuits
        PROVE  \A d \in Handled(p)' : Complete(d)'
    <2>1. Handled(p)' \subseteq Handled(p) \cup {c}
      BY <1>1, <1>2, <1>3, <1>9, HandledPops
    <2>2. \A d \in Handled(p) : d \in Circuits /\ Complete(d)
      BY <1>5, <1>6, <1>9
    <2> QED
      BY <1>4, <1>9, <2>1, <2>2
  <1>10. CASE SetupPresent(p)
    <2>1. /\ l.pc = "check" /\ l.left # <<>> /\ Complete(c)
          /\ n.pc = "check" /\ n.left = Tail(l.left) /\ n.suite = l.suite
          /\ n.rebuild = l.rebuild
      BY <1>1, <1>2, <1>3, <1>10, PresentDoes
    <2>2. c \in Circuits
      BY <1>1, <1>3, <2>1, LoopFacts DEF Typed, Current
    <2>3. \A d \in Handled(p)' : Complete(d)'
      BY <1>9, <2>1, <2>2
    <2> QED
      BY <1>2, <1>5, <2>1, <2>3 DEF KeysLoop
  <1>11. CASE SetupProve(p)
    <2>1. /\ l.pc = "check" /\ n.pc = "pk" /\ n.left = l.left /\ n.suite = l.suite
          /\ n.rebuild = l.rebuild
      BY <1>1, <1>2, <1>3, <1>11, ProveDoes
    <2>2. \A d \in Handled(p)' : Complete(d)'
      BY <1>8, <2>1
    <2> QED
      BY <1>2, <1>5, <2>1, <2>2 DEF KeysLoop
  <1>12. CASE SetupPk(p)
    <2>1. /\ l.pc = "pk" /\ n.pc = "vk" /\ n.left = l.left /\ n.suite = l.suite
          /\ n.rebuild = l.rebuild /\ keys'[c].pk = l.key
      BY <1>1, <1>2, <1>3, <1>12, PkDoes
    <2>2. Current(p)' = c /\ \A d \in Handled(p)' : Complete(d)'
      BY <1>8, <2>1
    <2>3. keys'[c].pk # 0
      BY <1>7, <2>1
    <2> QED
      BY <1>2, <1>5, <2>1, <2>2, <2>3 DEF KeysLoop
  <1>13. CASE SetupVk(p)
    <2>1. /\ l.pc = "vk" /\ n.pc = "record" /\ n.left = l.left /\ n.suite = l.suite
          /\ n.rebuild = l.rebuild /\ keys'[c].vk = l.key /\ keys'[c].pk = keys[c].pk
          /\ l.left # <<>>
      BY <1>1, <1>2, <1>3, <1>13, VkDoes
    <2>2. Current(p)' = c /\ \A d \in Handled(p)' : Complete(d)'
      BY <1>8, <2>1
    <2>3. Complete(Current(p))'
      BY <1>5, <1>7, <2>1, <2>2 DEF Complete
    <2> QED
      BY <1>2, <1>5, <2>1, <2>2, <2>3 DEF KeysLoop
  <1>14. CASE SetupFails(p) \/ RecordFails(p) \/ RebuildFails(p)
    <2>1. ~SetupFails(p)
      BY DEF SetupFails, Typed
    <2>2. /\ n.pc = "raised" /\ n.left = l.left /\ n.suite = l.suite
          /\ n.rebuild = l.rebuild /\ n.ran = l.ran /\ l.suite \in Suites
          /\ l.pc # "idle" /\ manifest' = manifest
      BY <1>1, <1>2, <1>14 DEF SetupFails, RecordFails, RebuildFails, Recording,
         RebuildReads, Goto, Typed, LocalState
    <2>3. manifest[l.suite].torn
      <3>1. CASE RecordFails(p)
        BY <1>1, <1>3, <1>5, <3>1 DEF RecordFails, Recording, Readable
      <3>2. CASE RebuildFails(p)
        BY <1>1, <3>2 DEF RebuildFails, Readable
      <3> QED
        BY <1>14, <2>1, <3>1, <3>2
    <2>4. \A d \in Handled(p)' : Complete(d)'
      BY <1>8, <2>2
    <2> QED
      BY <1>2, <1>5, <2>2, <2>3, <2>4 DEF KeysLoop
  <1>15. CASE RecordSkips(p)
    <2>1. /\ l.pc = "record" /\ l.left # <<>> /\ c \in Circuits
          /\ c \in Range(CircuitsOf(l.suite)) /\ (~Complete(c) => l.rebuild)
          /\ n.pc = (IF l.rebuild THEN "record" ELSE "check")
          /\ n.left = Tail(l.left) /\ n.suite = l.suite
          /\ n.ran = l.ran /\ n.rebuild = l.rebuild
      BY <1>1, <1>2, <1>3, <1>15, SkipDoes
    <2>2. Complete(c)
      BY <1>1, <1>5, <2>1 DEF Handled
    <2>3. \A d \in Handled(p)' : Complete(d)'
      BY <1>9, <2>1, <2>2
    <2> QED
      BY <1>2, <1>5, <2>1, <2>3 DEF KeysLoop
  <1>16. CASE RecordReads(p)
    <2>1. /\ l.pc = "record" /\ l.left # <<>> /\ n.pc = "truncate" /\ n.left = l.left
          /\ n.suite = l.suite /\ n.ran = l.ran /\ n.rebuild = l.rebuild
          /\ keys' = keys
      <3>1. l.pc = "record" /\ l.left # <<>> /\ keys' = keys
        BY <1>1, <1>16 DEF RecordReads, Recording
      <3>2. n.pc = "truncate" /\ n.left = l.left
            /\ n.suite = l.suite /\ n.ran = l.ran /\ n.rebuild = l.rebuild
        BY <1>1, <1>2, <1>16 DEF RecordReads, Typed, LocalState
      <3> QED
        BY <3>1, <3>2
    <2>2. Current(p)' = c /\ \A d \in Handled(p)' : Complete(d)'
      BY <1>8, <2>1
    <2> QED
      BY <1>2, <1>5, <2>1, <2>2 DEF KeysLoop, Complete
  <1>17. CASE RecordTruncates(p)
    <2>1. /\ l.pc = "truncate" /\ l.left # <<>> /\ n.pc = "write" /\ n.left = l.left
          /\ n.suite = l.suite /\ n.ran = l.ran /\ n.rebuild = l.rebuild
          /\ keys' = keys
      BY <1>1, <1>2, <1>17, TruncateDoes
    <2>2. Current(p)' = c /\ \A d \in Handled(p)' : Complete(d)'
      BY <1>8, <2>1
    <2> QED
      BY <1>2, <1>5, <2>1, <2>2 DEF KeysLoop, Complete
  <1>18. CASE RecordWrites(p)
    <2>1. /\ l.pc = "write" /\ l.left # <<>> /\ c \in Circuits
          /\ c \in Range(CircuitsOf(l.suite))
          /\ n.pc = (IF l.rebuild THEN "record" ELSE "check")
          /\ n.left = Tail(l.left) /\ n.suite = l.suite
          /\ n.ran = l.ran /\ n.rebuild = l.rebuild
      BY <1>1, <1>2, <1>3, <1>18, WriteDoes
    <2>2. Complete(c)
      BY <1>1, <1>5, <2>1 DEF Handled
    <2>3. \A d \in Handled(p)' : Complete(d)'
      BY <1>9, <2>1, <2>2
    <2> QED
      BY <1>2, <1>5, <2>1, <2>3 DEF KeysLoop
  <1>19. CASE RebuildBegin(p)
    <2>1. /\ l.pc = "check" /\ l.left = <<>> /\ ~l.ran /\ ~l.rebuild
          /\ n.pc = "record" /\ n.suite = l.suite /\ n.ran = l.ran /\ n.rebuild
      BY <1>1, <1>2, <1>19, RebuildDoes
    <2>2. \A d \in Range(CircuitsOf(l.suite)) : d \in Circuits /\ Complete(d)
      <3>1. Range(<<>>) = {}
        BY DEF Range
      <3>2. Handled(p) = Range(CircuitsOf(l.suite))
        BY <1>1, <2>1, <3>1 DEF Handled
      <3> QED
        BY <1>5, <1>6, <2>1, <3>2
    <2>3. \A d \in Handled(p)' : Complete(d)'
      BY <1>2, <1>4, <2>1, <2>2 DEF Handled
    <2> QED
      BY <1>2, <2>1, <2>3 DEF KeysLoop
  <1> QED
    BY <1>10, <1>11, <1>12, <1>13, <1>14, <1>15, <1>16, <1>17, <1>18, <1>19
       DEF SetupStep

LEMMA FiledLoopStep ==
  ASSUME Typed, FiledTyped, Dated, NEW p \in Procs, KeysLoop(p), FiledLoop(p),
         SetupStep(p), transcript' = transcript
  PROVE  FiledLoop(p)'
  <1>1. PICK l : l = setup[p]
    OBVIOUS
  <1>2. PICK n : n = setup'[p]
    OBVIOUS
  <1>3. PICK c : c = Current(p)
    OBVIOUS
  <1>4. PICK f : f = Filed(c)
    OBVIOUS
  <1>5. /\ l.pc \in {"truncate", "write"} =>
             l.doc.entry = [manifest[l.suite].entry EXCEPT ![c] = keys[c]]
        /\ l.rebuild => \A d \in Range(CircuitsOf(l.suite)) \ Range(l.left) : Entry(d) = keys[d]
        /\ transcript.exists =>
             /\ l.pc \in {"pk", "vk"} => f.vk < l.key
             /\ l.pc \in {"record", "truncate", "write"} /\ ~l.rebuild => f # keys[c]
             /\ l.pc \in {"check", "pk", "vk"} /\ l.ran => Differs(l.suite)
    BY <1>1, <1>3, <1>4 DEF FiledLoop
  <1>6. /\ l.rebuild => l.pc \notin {"check", "pk", "vk"}
        /\ l.pc # "idle" => \A d \in Handled(p) : Complete(d)
    BY <1>1 DEF KeysLoop
  <1>7. \A d : Filed(d)' = Filed(d)
    BY DEF Filed
  <1>8. ASSUME n.left = l.left
        PROVE  Current(p)' = c /\ Filed(Current(p))' = f
    <2>1. Current(p)' = c
      BY <1>1, <1>2, <1>3, <1>8 DEF Current
    <2> QED
      BY <1>4, <1>7, <2>1 DEF Filed
  <1>9. ASSUME manifest' = manifest
        PROVE  /\ \A d : Entry(d)' = Entry(d)
               /\ \A s : Differs(s)' = Differs(s)
    <2>1. \A d : Entry(d)' = Entry(d)
      BY <1>9 DEF Entry
    <2> QED
      BY <1>9, <2>1 DEF Differs, Entry, Filed
  <1>10. LocalOK(l) /\ l \in LocalState
    BY <1>1 DEF Typed, LocalOK
  <1>11. ASSUME n.pc \notin {"truncate", "write"}, n.suite = l.suite,
                n.rebuild =>
                  \A d \in Range(CircuitsOf(l.suite)) \ Range(n.left) : Entry(d)' = keys'[d],
                transcript.exists =>
                  /\ n.pc \in {"pk", "vk"} => Filed(Current(p))'.vk < n.key
                  /\ n.pc = "record" /\ ~n.rebuild =>
                       Filed(Current(p))' # keys'[Current(p)']
                  /\ n.pc \in {"check", "pk", "vk"} /\ n.ran => Differs(l.suite)'
         PROVE  FiledLoop(p)'
    BY <1>2, <1>11 DEF FiledLoop
  <1>12. CASE SetupPresent(p)
    <2>1. /\ l.pc = "check" /\ n.pc = "check" /\ n.suite = l.suite
          /\ n.rebuild = l.rebuild /\ n.ran = l.ran /\ manifest' = manifest
      BY <1>1, <1>2, <1>12, PresentDoes
    <2> QED
      BY <1>5, <1>6, <1>9, <1>11, <2>1
  <1>13. CASE SetupProve(p)
    <2>1. /\ l.pc = "check" /\ n.pc = "pk" /\ n.left = l.left /\ n.suite = l.suite
          /\ n.rebuild = l.rebuild /\ n.ran = l.ran /\ manifest' = manifest
          /\ n.key = setups[c] + 1 /\ l.left # <<>>
      BY <1>1, <1>2, <1>3, <1>13, ProveDoes
    <2>2. transcript.exists => f.vk < n.key
      <3> SUFFICES ASSUME transcript.exists  PROVE  f.vk < n.key
        OBVIOUS
      <3>1. c \in Circuits
        BY <1>1, <1>3, <1>10, <2>1, LoopFacts DEF Current
      <3>2. OnRecord(f, c)
        BY <1>4 DEF OnRecord
      <3>3. f \in Pair
        BY <3>1, <3>2, RecordTyped
      <3>4. f.vk <= setups[c]
        BY <3>1, <3>2, <3>3 DEF Dated
      <3>5. f.vk \in Nat /\ setups[c] \in Nat
        BY <3>1, <3>3 DEF Pair, Typed
      <3> QED
        BY <2>1, <3>4, <3>5
    <2> QED
      BY <1>5, <1>6, <1>8, <1>9, <1>11, <2>1, <2>2
  <1>14. CASE SetupPk(p)
    <2>1. /\ l.pc = "pk" /\ n.pc = "vk" /\ n.left = l.left /\ n.suite = l.suite
          /\ n.rebuild = l.rebuild /\ n.ran = l.ran /\ manifest' = manifest
          /\ n.key = l.key
      BY <1>1, <1>2, <1>3, <1>14, PkDoes
    <2> QED
      BY <1>5, <1>6, <1>8, <1>9, <1>11, <2>1
  <1>15. CASE SetupVk(p)
    <2>1. /\ l.pc = "vk" /\ n.pc = "record" /\ n.left = l.left /\ n.suite = l.suite
          /\ n.rebuild = l.rebuild /\ keys'[c].vk = l.key /\ l.left # <<>>
      BY <1>1, <1>2, <1>3, <1>15, VkDoes
    <2>2. transcript.exists => f # keys'[c]
      <3> SUFFICES ASSUME transcript.exists  PROVE  f # keys'[c]
        OBVIOUS
      <3>1. c \in Circuits
        BY <1>1, <1>3, <1>10, <2>1, LoopFacts DEF Current
      <3>2. OnRecord(f, c)
        BY <1>4 DEF OnRecord
      <3>3. f \in Pair
        BY <3>1, <3>2, RecordTyped
      <3>4. f.vk < l.key /\ f.vk \in Nat /\ l.key \in Nat
        BY <1>5, <1>10, <2>1, <3>3 DEF Pair, LocalState
      <3> QED
        BY <2>1, <3>4
    <2> QED
      BY <1>6, <1>8, <1>11, <2>1, <2>2
  <1>16. CASE SetupFails(p) \/ RecordFails(p) \/ RebuildFails(p)
    <2>1. /\ n.pc = "raised" /\ n.suite = l.suite /\ UNCHANGED <<keys, manifest>>
      BY <1>1, <1>2, <1>16, FailureDoes
    <2>2. n.left = l.left /\ n.rebuild = l.rebuild
      BY <1>1, <1>2, <1>16 DEF SetupFails, RecordFails, RebuildFails, Goto, Typed, LocalState
    <2> QED
      BY <1>5, <1>9, <1>11, <2>1, <2>2
  <1>17. CASE RecordSkips(p)
    <2>1. /\ l.pc = "record" /\ l.left # <<>> /\ c \in Range(CircuitsOf(l.suite))
          /\ \/ ~Complete(c) /\ l.rebuild
             \/ Complete(c) /\ Entry(c) = keys[c]
          /\ n.pc = (IF l.rebuild THEN "record" ELSE "check")
          /\ n.left = Tail(l.left) /\ n.suite = l.suite /\ n.rebuild = l.rebuild
          /\ UNCHANGED <<keys, manifest>>
      BY <1>1, <1>2, <1>3, <1>17, SkipDoes
    <2>2. Entry(c) = keys[c]
      BY <1>1, <1>6, <2>1 DEF Handled
    <2>3. Range(l.left) = {c} \cup Range(n.left)
      BY <1>1, <1>3, <1>10, <2>1, LoopPops DEF Current
    <2>4. transcript.exists /\ ~l.rebuild => Differs(l.suite)
      BY <1>4, <1>5, <2>1, <2>2 DEF Differs
    <2> QED
      BY <1>5, <1>9, <1>11, <2>1, <2>2, <2>3, <2>4
  <1>18. CASE RecordReads(p)
    <2>1. l.pc = "record" /\ UNCHANGED <<keys, manifest>>
      BY <1>1, <1>18 DEF RecordReads, Recording
    <2>2. /\ n.pc = "truncate" /\ n.left = l.left
          /\ n.suite = l.suite /\ n.rebuild = l.rebuild
      BY <1>1, <1>2, <1>18 DEF RecordReads, Typed, LocalState
    <2>3. n.doc.entry = [manifest[l.suite].entry EXCEPT ![c] = keys[c]]
      BY <1>1, <1>2, <1>3, <1>18, ReadDoes
    <2>4. n.doc.entry = [manifest'[n.suite].entry EXCEPT ![Current(p)'] = keys'[Current(p)']]
      BY <1>8, <2>1, <2>2, <2>3
    <2> QED
      BY <1>2, <1>5, <1>8, <1>9, <2>1, <2>2, <2>4 DEF FiledLoop
  <1>19. CASE RecordTruncates(p)
    <2>1. /\ l.pc = "truncate" /\ l.suite \in Suites /\ n.pc = "write" /\ n.left = l.left
          /\ n.suite = l.suite /\ n.rebuild = l.rebuild /\ n.doc = l.doc
          /\ \A s \in Suites : manifest'[s].entry = manifest[s].entry
          /\ keys' = keys
      BY <1>1, <1>2, <1>19, TruncateDoes
    <2>2. n.doc.entry = [manifest'[n.suite].entry EXCEPT ![Current(p)'] = keys'[Current(p)']]
      BY <1>5, <1>8, <2>1
    <2>3. \A d \in Circuits : Entry(d)' = Entry(d)
      BY <2>1, EntriesAreStill
    <2>4. Range(CircuitsOf(l.suite)) \subseteq Circuits
      BY <2>1, CircuitsOfSuites
    <2> QED
      BY <1>2, <1>5, <1>8, <2>1, <2>2, <2>3, <2>4 DEF FiledLoop
  <1>20. CASE RecordWrites(p)
    <2>1. /\ l.pc = "write" /\ l.left # <<>> /\ l.suite \in Suites
          /\ c \in Range(CircuitsOf(l.suite)) /\ SuiteOf(c) = l.suite
          /\ n.pc = (IF l.rebuild THEN "record" ELSE "check")
          /\ n.left = Tail(l.left) /\ n.suite = l.suite /\ n.rebuild = l.rebuild
          /\ manifest'[l.suite] = l.doc /\ keys' = keys
      BY <1>1, <1>2, <1>3, <1>20, WriteDoes
    <2>2. manifest[l.suite].entry \in [Range(CircuitsOf(l.suite)) -> Pair]
      BY <2>1 DEF Typed, ManifestOf
    <2>3. ASSUME NEW d \in Range(CircuitsOf(l.suite))
          PROVE  Entry(d)' = IF d = c THEN keys[c] ELSE Entry(d)
      <3>1. SuiteOf(d) = l.suite
        BY <2>1, CircuitsOfSuites
      <3>2. manifest'[l.suite].entry = [manifest[l.suite].entry EXCEPT ![c] = keys[c]]
        BY <1>5, <2>1
      <3>3. Entry(d)' = manifest'[l.suite].entry[d] /\ Entry(d) = manifest[l.suite].entry[d]
        BY <3>1 DEF Entry
      <3> QED
        BY <2>1, <2>2, <3>2, <3>3
    <2>4. Range(l.left) = {c} \cup Range(n.left)
      BY <1>1, <1>3, <1>10, <2>1, LoopPops DEF Current
    <2>5. transcript.exists /\ ~l.rebuild => Differs(l.suite)'
      BY <1>4, <1>5, <1>7, <2>1, <2>3 DEF Differs
    <2> QED
      BY <1>5, <1>11, <2>1, <2>3, <2>4, <2>5
  <1>21. CASE RebuildBegin(p)
    <2>1. /\ ~l.ran /\ n.pc = "record" /\ n.suite = l.suite /\ n.rebuild
          /\ n.left = CircuitsOf(l.suite)
      BY <1>1, <1>2, <1>21, RebuildDoes
    <2> QED
      BY <1>11, <2>1
  <1> QED
    BY <1>12, <1>13, <1>14, <1>15, <1>16, <1>17, <1>18, <1>19, <1>20, <1>21
       DEF SetupStep

(* A setup leaves the other suite alone.                                    *)
LEMMA OtherSuite ==
  ASSUME Typed, NEW p \in Procs, SetupStep(p), NEW s \in Suites, s # setup[p].suite
  PROVE  /\ manifest'[s] = manifest[s]
         /\ \A d \in Range(CircuitsOf(s)) : keys'[d] = keys[d] /\ Entry(d)' = Entry(d)
  <1>1. PICK l : l = setup[p]
    OBVIOUS
  <1>2. PICK n : n = setup'[p]
    OBVIOUS
  <1>3. PICK c : c = Current(p)
    OBVIOUS
  <1>4. manifest'[s] = manifest[s]
    <2>1. CASE RecordReads(p)
      BY <2>1 DEF RecordReads
    <2>2. CASE RecordTruncates(p)
      BY <1>1, <1>2, <2>2, TruncateDoes
    <2>3. CASE RecordWrites(p)
      BY <1>1, <1>2, <1>3, <2>3, WriteDoes
    <2> QED
      BY <2>1, <2>2, <2>3, ManifestSteps
  <1>5. ASSUME NEW d \in Range(CircuitsOf(s))
        PROVE  d \in Circuits /\ SuiteOf(d) = s
    BY CircuitsOfSuites
  <1>6. \A d \in Range(CircuitsOf(s)) : Entry(d)' = Entry(d)
    BY <1>4, <1>5 DEF Entry
  <1>7. l.left # <<>> => SuiteOf(c) = l.suite
    BY <1>1, <1>3, LoopFacts DEF Typed, Current
  <1>8. CASE SetupPk(p)
    <2>1. l.left # <<>> /\ \A d \in Circuits \ {c} : keys'[d] = keys[d]
      BY <1>1, <1>2, <1>3, <1>8, PkDoes
    <2> QED
      BY <1>1, <1>4, <1>5, <1>6, <1>7, <2>1
  <1>9. CASE SetupVk(p)
    <2>1. l.left # <<>> /\ \A d \in Circuits \ {c} : keys'[d] = keys[d]
      BY <1>1, <1>2, <1>3, <1>9, VkDoes
    <2> QED
      BY <1>1, <1>4, <1>5, <1>6, <1>7, <2>1
  <1>10. CASE ~SetupPk(p) /\ ~SetupVk(p)
    <2>1. keys' = keys
      BY <1>10, OtherSteps DEF SetupStep, SetupProve
    <2> QED
      BY <1>4, <1>6, <2>1
  <1> QED
    BY <1>8, <1>9, <1>10

-----------------------------------------------------------------------------
LEMMA RestedStays ==
  ASSUME Typed, Rested, [Next]_vars
  PROVE  Rested'
  <1>0. setup \in [Procs -> LocalState]
    BY DEF Typed
  <1>1. CASE setup' = setup
    BY <1>1 DEF Rested
  <1>2. ASSUME NEW p \in Procs, \A q \in Procs \ {p} : setup'[q] = setup[q],
               setup'[p].pc # "idle" \/ setup'[p] = Idle
        PROVE  Rested'
    BY <1>2 DEF Rested
  <1>3. ASSUME NEW p \in Procs, NEW s \in Suites, NEW force \in BOOLEAN,
               SetupBegin(p, s, force)
        PROVE  Rested'
    BY <1>0, <1>2, <1>3 DEF SetupBegin, Idle
  <1>4. ASSUME NEW p \in Procs, SetupStep(p)
        PROVE  Rested'
    BY <1>2, <1>4, OthersStay, SetupMoves
  <1>5. ASSUME NEW p \in Procs, Drops(p)
        PROVE  Rested'
    BY <1>0, <1>2, <1>5 DEF Drops
  <1>6. ZkNext
    BY StepsOfKeys
  <1> QED
    BY <1>1, <1>3, <1>4, <1>5, <1>6 DEF ZkNext, zkVars, LoseKey

LEMMA NamedStays ==
  ASSUME House, Named, [Next]_vars
  PROVE  Named'
  <1>0. run \in [Procs -> RunState] /\ \A q \in Procs : Mine(q)
    BY DEF House
  <1> SUFFICES ASSUME NEW p \in Procs, run'[p].end # "none"
               PROVE  run'[p].command # "none"
    BY DEF Named
  <1>1. CASE run' = run
    BY <1>1 DEF Named
  <1>2. CASE run' = Disturbed
    BY <1>2, DisturbedDoes DEF Named
  <1>3. ASSUME NEW q \in Procs, Carries(q)
        PROVE  run'[p].command # "none"
    <2>1. run[q].command # "none"
      BY <1>0, <1>3, CarriesOwn DEF Mine, OnPlan
    <2> QED
      BY <1>3, <2>1, CarriesOwn DEF Named
  <1>4. ASSUME NEW q \in Procs, NEW c \in DOMAIN Plan, Start(q, c)
        PROVE  run'[p].command # "none"
    <2>1. /\ run'[q].end = "none"
          /\ \/ \A o \in Procs \ {q} : run'[o] = NoRun
             \/ \A o \in Procs \ {q} : run'[o] = [run[o] EXCEPT !.alone = FALSE]
      BY <1>4, StartDoes
    <2>2. p # q
      BY <2>1
    <2>3. CASE run'[p] = NoRun
      BY <2>3, NoRunFields
    <2>4. CASE run'[p] = [run[p] EXCEPT !.alone = FALSE]
      <3>1. PICK r \in RunState : r = run[p]
        BY <1>0
      <3>2. run'[p].end = r.end /\ run'[p].command = r.command
        BY <2>4, <3>1 DEF RunState
      <3> QED
        BY <3>1, <3>2 DEF Named
    <2> QED
      BY <2>1, <2>2, <2>3, <2>4
  <1>5. ASSUME NEW q \in Procs, Die(q)
        PROVE  run'[p].command # "none"
    <2>1. run' = [run EXCEPT ![q] = NoRun]
      BY <1>5 DEF Die
    <2> QED
      BY <1>0, <2>1, NoRunFields DEF Named
  <1>6. ASSUME NEW q \in Procs,
                \/ \E s \in Suites : ZkBegin(q, s)
                \/ ZkStep(q)
                \/ ZkReturn(q) \/ PolicyStep(q) \/ LoadRuntime(q)
                \/ CheckHealth(q) \/ InstallCollect(q) \/ IntegrationsRead(q)
                \/ InstallTruncate(q) \/ InstallWrite(q) \/ WriteTranscript(q)
                \/ SmokeDoctor(q) \/ SmokeVerify(q)
         PROVE  Carries(q) \/ run' = run \/ run' = Disturbed
    BY <1>6 DEF Carries, ZkStep
  <1>7. ASSUME NEW c \in Circuits, Lose(c)
        PROVE  run' = Disturbed
    BY <1>7 DEF Lose
  <1> QED
    BY <1>1, <1>2, <1>3, <1>4, <1>5, <1>6, <1>7 DEF Next, vars

-----------------------------------------------------------------------------
(* A passed doctor stays passed while keys are set up that no force demands.*)
LEMMA DoctorStays ==
  ASSUME Typed, NEW p \in Procs, KeysLoop(p), SetupStep(p), ~setup[p].force,
         DoctorPassed(p), UNCHANGED <<install, policy, signing, transcript>>
  PROVE  DoctorPassed(p)'
  <1>1. PICK l : l = setup[p]
    OBVIOUS
  <1>2. PICK n : n = setup'[p]
    OBVIOUS
  <1>3. PICK c : c = Current(p)
    OBVIOUS
  <1>4. /\ Doctor /\ l.pc \notin {"pk", "vk"}
        /\ transcript.exists => /\ \A s \in Suites : Recent(s)
                                /\ l.pc \notin {"truncate", "write"}
    BY <1>1 DEF DoctorPassed
  <1>5. \A d \in Circuits : Complete(d)
    BY <1>4, CircuitsOfSuites DEF Doctor, KeysReady, Ready
  <1>6. ~SetupProve(p)
    <2> SUFFICES ASSUME SetupProve(p)  PROVE  FALSE
      OBVIOUS
    <2>1. l.left # <<>> /\ (l.force \/ ~Complete(c))
      BY <1>1, <1>3 DEF SetupProve, NeedsSetup
    <2>2. c \in Circuits
      BY <1>1, <1>3, <2>1, LoopFacts DEF Typed, Current
    <2> QED
      BY <1>1, <1>5, <2>1, <2>2
  <1>7. ~SetupPk(p) /\ ~SetupVk(p)
    BY <1>1, <1>4 DEF SetupPk, SetupVk
  <1>8. n.pc \notin {"pk", "vk"} /\ keys' = keys
    BY <1>2, <1>6, <1>7, OtherSteps DEF SetupStep
  <1>9. transcript.exists => manifest' = manifest /\ n.pc \notin {"truncate", "write"}
    <2> SUFFICES ASSUME transcript.exists
                 PROVE  manifest' = manifest /\ n.pc \notin {"truncate", "write"}
      OBVIOUS
    <2>1. ~RecordReads(p)
      <3> SUFFICES ASSUME RecordReads(p)  PROVE  FALSE
        OBVIOUS
      <3>1. l.left # <<>>
        BY <1>1 DEF RecordReads, Recording
      <3>2. /\ c \in Range(CircuitsOf(l.suite)) /\ SuiteOf(c) = l.suite
            /\ l.suite \in Suites
        BY <1>1, <1>3, <3>1, LoopFacts DEF Typed, Current, LocalOK, LocalState
      <3>3. Entry(c) # keys[c]
        BY <1>1, <1>3, <3>2 DEF RecordReads, Unchanged, Recorded, Entry
      <3> QED
        BY <1>4, <3>2, <3>3 DEF Recent
    <2>2. ~RecordTruncates(p) /\ ~RecordWrites(p)
      BY <1>1, <1>4 DEF RecordTruncates, RecordWrites
    <2> QED
      BY <1>2, <2>1, <2>2, ManifestSteps
  <1>10. transcript.exists => \A s \in Suites : Recent(s)'
    <2> SUFFICES ASSUME transcript.exists, NEW s \in Suites  PROVE  Recent(s)'
      OBVIOUS
    <2> QED
      BY <1>4, <1>8, <1>9 DEF Recent, Entry
  <1>11. Doctor'
    <2>1. KeysReady' /\ SovereignOk(TRUE)' /\ PolicyTrusted' /\ install'.state # "torn"
      BY <1>4, <1>8 DEF Doctor, KeysReady, Ready, Complete, SovereignOk, AnyKey, OnDisk,
         VendorKeys, PolicyTrusted
    <2>2. TranscriptValid'
      BY <1>4, <1>9 DEF Doctor, TranscriptValid, TranscriptMatches
    <2> QED
      BY <2>1, <2>2 DEF Doctor
  <1> QED
    BY <1>2, <1>8, <1>9, <1>10, <1>11 DEF DoctorPassed

(* What a setup leaves when it returns.                                     *)
LEMMA ReturnLeaves ==
  ASSUME Typed, NEW p \in Procs, KeysLoop(p), FiledLoop(p), Returns(p)
  PROVE  Ready(setup[p].suite) /\ Settled(setup[p].suite)
  <1>1. PICK l : l = setup[p]
    OBVIOUS
  <1>2. /\ l.left = <<>> /\ l.pc # "idle"
        /\ \/ l.pc = "check" /\ l.ran
           \/ l.rebuild
    BY <1>1 DEF Returns, RebuildReads
  <1>3. Range(<<>>) = {}
    BY DEF Range
  <1>4. Handled(p) = Range(CircuitsOf(l.suite))
    BY <1>1, <1>2, <1>3 DEF Handled
  <1>5. Ready(l.suite)
    BY <1>1, <1>2, <1>4 DEF KeysLoop, Ready
  <1>6. Settled(l.suite)
    BY <1>1, <1>2, <1>3 DEF FiledLoop, Settled, Recent
  <1> QED
    BY <1>1, <1>5, <1>6

LEMMA RestIsInOrder ==
  ASSUME NEW p \in Procs, setup'[p] = Idle
  PROVE  KeysLoop(p)' /\ FiledLoop(p)'
  BY DEF KeysLoop, FiledLoop, Idle

-----------------------------------------------------------------------------
(* What stages behind a command left stays as long as nothing touches it.   *)
LEMMA FilesStay ==
  ASSUME UNCHANGED <<keys, manifest, transcript>>
  PROVE  /\ \A s : Ready(s)' = Ready(s) /\ Recent(s)' = Recent(s)
                   /\ Settled(s)' = Settled(s)
         /\ \A c : Provable(c)' = Provable(c)
  <1>1. \A s : Ready(s)' = Ready(s)
    BY DEF Ready, Complete
  <1>2. \A d : Entry(d)' = Entry(d)
    BY DEF Entry
  <1>3. \A s : Recent(s)' = Recent(s)
    BY <1>2 DEF Recent
  <1>4. \A s : Differs(s)' = Differs(s)
    BY <1>2 DEF Differs, Filed
  <1>5. \A c : Provable(c)' = Provable(c)
    BY DEF Provable, Complete, Readable
  <1> QED
    BY <1>1, <1>3, <1>4, <1>5 DEF Settled

LEMMA TrustStays ==
  ASSUME UNCHANGED <<policy, signing>>
  PROVE  PolicyTrusted' = PolicyTrusted /\ Mismatch' = Mismatch
  BY DEF PolicyTrusted, Mismatch, HasPair

LEMMA SovereignStays ==
  ASSUME UNCHANGED <<keys, install>>
  PROVE  \A b : SovereignOk(b)' = SovereignOk(b)
  BY DEF SovereignOk, AnyKey, OnDisk, VendorKeys, KeysReady, Ready, Complete

LEMMA DoctorIsSame ==
  ASSUME UNCHANGED <<keys, manifest, transcript, policy, signing, install>>
  PROVE  (Doctor' <=> Doctor) /\ KeysReady' = KeysReady
  <1>1. KeysReady' = KeysReady
    BY FilesStay DEF KeysReady
  <1>2. TranscriptValid' = TranscriptValid
    BY DEF TranscriptValid, TranscriptMatches
  <1>3. SovereignOk(TRUE)' = SovereignOk(TRUE)
    BY SovereignStays
  <1>4. PolicyTrusted' = PolicyTrusted
    BY TrustStays
  <1>5. Doctor' <=> Doctor
    <2>1. /\ KeysReady' <=> KeysReady
          /\ TranscriptValid' <=> TranscriptValid
          /\ SovereignOk(TRUE)' <=> SovereignOk(TRUE)
          /\ PolicyTrusted' <=> PolicyTrusted
      BY <1>1, <1>2, <1>3, <1>4
    <2>2. install' = install
      OBVIOUS
    <2> QED
      BY <2>1, <2>2 DEF Doctor
  <1> QED
    BY <1>1, <1>5

LEMMA LeavesStay ==
  ASSUME NEW p \in Procs, NEW x, Leaves(p, x),
         UNCHANGED <<keys, manifest, transcript, policy, signing, install>>,
         run'[p].command = run[p].command, run'[p].trusted = run[p].trusted,
         setup'[p].pc \in {setup[p].pc, "idle", "check"}
  PROVE  Leaves(p, x)'
  <1>1. x = "doctor" => DoctorPassed(p)'
    BY DoctorIsSame, FilesStay DEF DoctorPassed, Leaves
  <1>2. x \in Suites => Ready(x)' /\ (Settled(x)' \/ run'[p].command # "bootstrap")
    BY FilesStay DEF Leaves
  <1>3. /\ x = "policy" => PolicyTrusted' \/ Mismatch'
        /\ x = "load" => /\ run'[p].trusted => PolicyTrusted'
                         /\ run'[p].trusted \/ Mismatch'
        /\ x = "health" => PolicyTrusted'
    BY TrustStays DEF Leaves
  <1>4. x = "install" => install'.state = "written"
    BY DEF Leaves
  <1> QED
    BY <1>1, <1>2, <1>3, <1>4 DEF Leaves

(* A step within a stage, the last one of a stage, and a failure.           *)
LEMMA WayStays ==
  ASSUME NEW p \in Procs, Way(p),
         run'[p].command = run[p].command, run'[p].stages = run[p].stages,
         \A x \in Names : Past(run[p], x) /\ Leaves(p, x) => Leaves(p, x)'
  PROVE  Way(p)'
  <1>1. \A x : Past(run[p], x)' <=> Past(run[p], x)
    BY DEF Past, Done
  <1> QED
    BY <1>1 DEF Way

LEMMA WayGrows ==
  ASSUME House, NEW p \in Procs, Active(p), Way(p), NEW h, h = Stage(p),
         run'[p].command = run[p].command, Done(run'[p]) = Done(run[p]) + 1,
         \A x \in Names : x = h \/ (Past(run[p], x) /\ Leaves(p, x)) => Leaves(p, x)'
  PROVE  Way(p)'
  <1>1. PICK r \in RunState : r = run[p]
    BY DEF House
  <1>2. OnPlan(r) /\ r.stages # <<>> /\ h = Head(r.stages)
    BY <1>1 DEF House, Mine, Active, Stage
  <1>3. PICK n : n = run'[p]
    OBVIOUS
  <1>4. n.command = r.command /\ Done(n) = Done(r) + 1
    BY <1>1, <1>3
  <1>5. \A x : Past(n, x) <=> Past(r, x) \/ x = h
    BY <1>2, <1>4, PastAdvances
  <1>6. \A x : Past(run[p], x)' <=> Past(n, x)
    BY <1>3 DEF Past, Done
  <1> QED
    BY <1>1, <1>5, <1>6 DEF Way

LEMMA Onward ==
  ASSUME House, NEW p \in Procs, Active(p), Advance(p), Way(p), setup'[p] = Idle,
         SignHand(p)', NEW h, h = Stage(p),
         run'[p].trusted = run[p].trusted =>
           \A x \in Names : x = h \/ (Past(run[p], x) /\ Leaves(p, x)) => Leaves(p, x)',
         run[p].command = "bootstrap" /\ h = "verify" =>
           Doctor' /\ \A c \in Circuits : Provable(c)'
  PROVE  Explained(p)'
  <1>1. PICK r \in RunState : r = run[p]
    BY DEF House
  <1>2. OnPlan(r) /\ r.stages # <<>> /\ h = Head(r.stages)
    BY <1>1 DEF House, Mine, Active, Stage
  <1>3. PICK n : n = run'[p]
    OBVIOUS
  <1>4. /\ n.command = r.command /\ n.stages = Tail(r.stages)
        /\ n.stages # <<>> => Done(n) = Done(r) + 1 /\ n.trusted = r.trusted
        /\ n.stages = <<>> => n.end = "ok"
    BY <1>1, <1>3, AdvanceDoes
  <1>5. CASE n.stages = <<>>
    <2>1. r.command = "bootstrap" => h = "verify"
      BY <1>2, <1>4, <1>5, PastHere
    <2>2. Outcome(p)'
      BY <1>1, <1>3, <1>4, <1>5, <2>1 DEF Outcome
    <2> QED
      BY <1>3, <1>5, <2>2 DEF Explained, Active
  <1>6. CASE n.stages # <<>>
    <2>1. Way(p)'
      BY <1>1, <1>3, <1>4, <1>6, WayGrows
    <2>2. KeysLoop(p)' /\ FiledLoop(p)'
      BY RestIsInOrder
    <2> QED
      BY <1>3, <1>6, <2>1, <2>2 DEF Explained, Active
  <1> QED
    BY <1>5, <1>6

LEMMA Halts ==
  ASSUME House, NEW p \in Procs, Fail(p), Stuck'
  PROVE  Explained(p)'
  <1>1. run'[p].stages = <<>> /\ run'[p].end = "failed"
    BY FailDoes
  <1> QED
    BY <1>1 DEF Explained, Active, Outcome

LEMMA StuckStays ==
  ASSUME Stuck, UNCHANGED <<zkVars, signVars, install, transcript>>
  PROVE  Stuck'
  BY DEF zkVars, signVars, Stuck, VendorKeys, OnDisk, HasPair, TranscriptValid,
     TranscriptMatches, Complete

-----------------------------------------------------------------------------
LEMMA DoctorOfBootstrap ==
  ASSUME NEW r \in RunState, OnPlan(r), r.stages # <<>>, Past(r, "doctor")
  PROVE  r.command = "bootstrap"
  <1>1. CASE r.command = "first_run"
    <2>1. PICK h : h = Head(r.stages)
      OBVIOUS
    <2> QED
      BY <1>1, <2>1, FirstRunPast
  <1>2. CASE r.command \notin {"bootstrap", "first_run"}
    BY <1>2, ToolPast
  <1> QED
    BY <1>1, <1>2

LEMMA Rests ==
  ASSUME House, Rested, NEW p \in Procs, NEW h, At(p, h), h \notin Suites
  PROVE  setup[p] = Idle /\ run[p].step # "setup"
  <1>1. run[p].step # "setup"
    BY DEF House, Mine, InStep, At
  <1> QED
    BY <1>1, HandsEmpty DEF Rested

LEMMA BeginExplains ==
  ASSUME Typed, House, NEW p \in Procs, Explained(p), NEW s \in Suites, ZkBegin(p, s)
  PROVE  Explained(p)'
  <1>1. /\ setup \in [Procs -> LocalState] /\ run \in [Procs -> RunState]
        /\ UNCHANGED <<keys, manifest, transcript, policy, signing, install, sign>>
        /\ Active(p) /\ run' = [run EXCEPT ![p].step = "setup"]
    BY DEF Typed, House, ZkBegin, SetupBegin, signVars, instVars, At
  <1>2. PICK l : l = setup'[p]
    OBVIOUS
  <1>3. l.pc = "check" /\ l.suite = s /\ l.left = CircuitsOf(s) /\ ~l.ran /\ ~l.rebuild
    BY <1>1, <1>2 DEF ZkBegin, SetupBegin, Idle
  <1>4. KeysLoop(p)'
    <2>1. Handled(p)' = {}
      BY <1>2, <1>3 DEF Handled
    <2> QED
      BY <1>2, <1>3, <2>1 DEF KeysLoop
  <1>5. FiledLoop(p)'
    BY <1>2, <1>3 DEF FiledLoop
  <1>6. SignHand(p)'
    BY <1>1 DEF Explained, SignHand, HasPair
  <1>7. /\ run'[p].command = run[p].command /\ run'[p].stages = run[p].stages
        /\ run'[p].trusted = run[p].trusted
    BY <1>1 DEF RunState
  <1>8. Way(p) /\ Active(p)'
    BY <1>1, <1>7 DEF Explained, Active
  <1>9. Way(p)'
    <2>1. \A x \in Names : Leaves(p, x) => Leaves(p, x)'
      BY <1>1, <1>2, <1>3, <1>7, LeavesStay
    <2> QED
      BY <1>7, <1>8, <2>1, WayStays
  <1> QED
    BY <1>4, <1>5, <1>6, <1>8, <1>9 DEF Explained

LEMMA StepExplains ==
  ASSUME Typed, FiledTyped, InHand, Dated, House, NEW p \in Procs, Explained(p),
         ZkStep(p), run' = run, faults' = faults
  PROVE  Explained(p)'
  <1>1. /\ Active(p) /\ SetupStep(p) /\ run[p].step = "setup"
        /\ UNCHANGED <<transcript, policy, signing, install, sign>>
    BY DEF ZkStep, signVars, instVars
  <1>2. PICK h : h = Stage(p)
    OBVIOUS
  <1>3. h \in Suites /\ setup[p].suite = h /\ setup[p].force = Forces(run[p].command)
    BY <1>1, <1>2 DEF House, Mine, InStep
  <1>4. PICK r \in RunState : r = run[p]
    BY DEF House
  <1>5. OnPlan(r) /\ r.stages # <<>> /\ h = Head(r.stages)
    BY <1>1, <1>2, <1>4 DEF House, Mine, Active, Stage
  <1>6. KeysLoop(p) /\ FiledLoop(p) /\ SignHand(p) /\ Way(p)
    BY <1>1 DEF Explained
  <1>7. KeysLoop(p)'
    BY <1>1, <1>6, KeysLoopStep
  <1>8. FiledLoop(p)'
    BY <1>1, <1>6, FiledLoopStep
  <1>9. SignHand(p)'
    BY <1>1, <1>6 DEF SignHand, HasPair
  <1>10. Past(r, "doctor") => DoctorPassed(p)'
    <2> SUFFICES ASSUME Past(r, "doctor")  PROVE  DoctorPassed(p)'
      OBVIOUS
    <2>1. r.command = "bootstrap"
      BY <1>5, DoctorOfBootstrap
    <2>2. ~setup[p].force
      BY <1>3, <1>4, <2>1 DEF Forces
    <2>3. DoctorPassed(p)
      BY <1>4, <1>6 DEF Way, Leaves, Names
    <2> QED
      BY <1>1, <1>6, <2>2, <2>3, DoctorStays
  <1>11. \A s \in Suites : Ready(s) => Ready(s)'
    BY <1>1, CompleteStays, CircuitsOfSuites DEF Ready
  <1>12. ASSUME NEW s \in Suites, Past(r, s), Settled(s), r.command = "bootstrap"
         PROVE  Settled(s)'
    <2>1. CASE s # h
      <3>1. \A d \in Range(CircuitsOf(s)) : keys'[d] = keys[d] /\ Entry(d)' = Entry(d)
        BY <1>1, <1>3, <2>1, OtherSuite
      <3>2. \A d : Filed(d)' = Filed(d)
        BY <1>1 DEF Filed
      <3>3. Recent(s) => Recent(s)'
        BY <3>1 DEF Recent
      <3>4. Differs(s) => Differs(s)'
        BY <3>1, <3>2 DEF Differs
      <3> QED
        BY <1>1, <1>12, <3>3, <3>4 DEF Settled
    <2>2. CASE s = h
      <3>1. Past(r, "doctor")
        BY <1>3, <1>5, <1>12, <2>2, PastHere
      <3> QED
        BY <1>10, <3>1 DEF DoctorPassed, Settled
    <2> QED
      BY <2>1, <2>2
  <1>13. ASSUME NEW x \in Names, Past(run[p], x), Leaves(p, x)
         PROVE  Leaves(p, x)'
    <2>1. x \in Suites => Ready(x)' /\ (Settled(x)' \/ run'[p].command # "bootstrap")
      BY <1>4, <1>11, <1>12, <1>13 DEF Leaves
    <2>2. x = "doctor" => DoctorPassed(p)'
      BY <1>4, <1>10, <1>13
    <2>3. /\ x = "policy" => PolicyTrusted' \/ Mismatch'
          /\ x = "load" => /\ run'[p].trusted => PolicyTrusted'
                           /\ run'[p].trusted \/ Mismatch'
          /\ x = "health" => PolicyTrusted'
          /\ x = "install" => install'.state = "written"
      BY <1>1, <1>13, TrustStays DEF Leaves
    <2> QED
      BY <2>1, <2>2, <2>3 DEF Leaves
  <1>14. Way(p)'
    BY <1>6, <1>13, WayStays
  <1> QED
    BY <1>1, <1>7, <1>8, <1>9, <1>14 DEF Explained, Active

LEMMA ReturnExplains ==
  ASSUME Typed, House, NEW p \in Procs, Explained(p), ZkReturn(p)
  PROVE  Explained(p)'
  <1>1. /\ Active(p) /\ run[p].step = "setup" /\ setup'[p] = Idle
        /\ UNCHANGED <<keys, manifest, transcript, policy, signing, install, sign>>
    BY DEF ZkReturn, signVars, instVars, Typed
  <1>2. PICK h : h = Stage(p)
    OBVIOUS
  <1>3. h \in Suites /\ setup[p].suite = h
    BY <1>1, <1>2 DEF House, Mine, InStep
  <1>4. KeysLoop(p) /\ FiledLoop(p) /\ SignHand(p) /\ Way(p)
    BY <1>1 DEF Explained
  <1>5. SignHand(p)'
    BY <1>1, <1>4 DEF SignHand, HasPair
  <1>6. CASE setup[p].pc = "raised"
    <2>1. Fail(p)
      BY <1>6 DEF ZkReturn
    <2>2. Stuck'
      BY <1>1, <1>4, <1>6 DEF KeysLoop, Stuck
    <2> QED
      BY <2>1, <2>2, Halts
  <1>7. CASE setup[p].pc # "raised"
    <2>1. Ready(h) /\ Settled(h)
      BY <1>3, <1>4, <1>7, ReturnLeaves DEF ZkReturn
    <2>2. Advance(p)
      BY <1>3, <1>7, <2>1 DEF ZkReturn
    <2>3. run'[p].command = run[p].command
      BY <1>1, <2>2, AdvanceDoes
    <2>4. Leaves(p, h)'
      <3>1. Ready(h)' /\ Settled(h)'
        BY <1>1, <2>1, FilesStay
      <3> QED
        BY <1>3, <3>1 DEF Leaves, Suites
    <2>5. ASSUME run'[p].trusted = run[p].trusted, NEW x \in Names, Leaves(p, x)
          PROVE  Leaves(p, x)'
      <3>1. setup'[p].pc = "idle"
        BY <1>1 DEF Idle
      <3> QED
        BY <1>1, <2>3, <2>5, <3>1, LeavesStay
    <2> QED
      BY <1>1, <1>2, <1>3, <1>4, <1>5, <2>2, <2>4, <2>5, Onward DEF Suites
  <1> QED
    BY <1>6, <1>7

LEMMA PolicyExplains ==
  ASSUME House, Rested, NEW p \in Procs, Explained(p), PolicyStep(p)
  PROVE  Explained(p)'
  <1>1. /\ Active(p) /\ At(p, "policy") /\ SignStep(p)
        /\ UNCHANGED <<keys, manifest, transcript, install, setup>>
    BY DEF PolicyStep, zkVars, instVars, At
  <1>2. /\ sign \in [Procs -> SignState] /\ signing \in [key : Nat, config : Nat]
        /\ pairs \in Nat /\ run[p] \in RunState
    BY DEF House
  <1>3. setup[p] = Idle
    BY <1>1, Rests DEF Suites
  <1>4. PICK r \in RunState : r = run[p]
    BY <1>2
  <1>5. OnPlan(r) /\ r.stages # <<>> /\ Head(r.stages) = "policy"
    BY <1>1, <1>4 DEF House, Mine, Active, At, Stage
  <1>6. PICK h : h = "policy"
    OBVIOUS
  <1>7. ~Past(r, "policy") /\ ~Past(r, "load") /\ ~Past(r, "health") /\ ~Past(r, "doctor")
    BY <1>5, <1>6, PastHere
  <1>8. SignHand(p) /\ Way(p)
    BY <1>1 DEF Explained
  <1>9. SignHand(p)'
    <2>1. PICK g : g = sign[p]
      OBVIOUS
    <2>2. /\ g.pc = "key" => g.key # 0
          /\ g.pc = "config" => g.key # 0 /\ signing.key = g.key
          /\ g.pc = "sign" => HasPair
      BY <1>8, <2>1 DEF SignHand
    <2>3. CASE PolicyVerified(p)
      BY <1>8, <2>3 DEF PolicyVerified, signVars, SignHand, HasPair
    <2>4. CASE PairPresent(p)
      <3>1. sign'[p].pc = "sign" /\ HasPair'
        BY <1>2, <2>4 DEF PairPresent, SignPc, SignState, HasPair
      <3> QED
        BY <3>1 DEF SignHand
    <2>5. CASE PairGenerate(p)
      <3>1. PICK k : k = pairs'
        OBVIOUS
      <3>2. k = pairs + 1 /\ sign' = [sign EXCEPT ![p] = [pc |-> "key", key |-> k]]
        BY <2>5, <3>1 DEF PairGenerate
      <3>3. sign'[p].pc = "key" /\ sign'[p].key # 0
        BY <1>2, <3>2
      <3> QED
        BY <3>3 DEF SignHand
    <2>6. CASE KeyWrite(p)
      <3>1. g.pc = "key" /\ signing' = [signing EXCEPT !.key = g.key]
            /\ sign' = [sign EXCEPT ![p].pc = "config"]
        BY <2>1, <2>6 DEF KeyWrite, SignPc
      <3>2. sign'[p].pc = "config" /\ sign'[p].key = g.key
        BY <1>2, <2>1, <3>1 DEF SignState
      <3>3. signing'.key = g.key
        BY <1>2, <3>1
      <3> QED
        BY <2>2, <3>1, <3>2, <3>3 DEF SignHand
    <2>7. CASE ConfigWrite(p)
      <3>1. g.pc = "config" /\ signing' = [signing EXCEPT !.config = g.key]
            /\ sign' = [sign EXCEPT ![p].pc = "sign"]
        BY <2>1, <2>7 DEF ConfigWrite, SignPc
      <3>2. sign'[p].pc = "sign"
        BY <1>2, <3>1 DEF SignState
      <3>3. signing'.key = g.key /\ signing'.config = g.key
        BY <1>2, <2>2, <3>1
      <3> QED
        BY <2>2, <3>1, <3>2, <3>3 DEF SignHand, HasPair
    <2>8. CASE PolicySign(p)
      BY <1>2, <2>8 DEF PolicySign, SignHand, NotSigning
    <2> QED
      BY <1>1, <2>3, <2>4, <2>5, <2>6, <2>7, <2>8 DEF SignStep
  <1>10. ASSUME NEW x \in Names, Past(run[p], x), Leaves(p, x),
                run'[p].command = run[p].command
         PROVE  Leaves(p, x)'
    <2>1. x \notin {"policy", "load", "health", "doctor"}
      BY <1>4, <1>7, <1>10
    <2> QED
      BY <1>1, <1>10, <2>1, FilesStay DEF Leaves
  <1>11. CASE SignEnds(p)
    <2>1. Advance(p)
      BY <1>11 DEF PolicyStep
    <2>2. run'[p].command = run[p].command
      BY <1>1, <2>1, AdvanceDoes
    <2>3. PolicyTrusted' \/ Mismatch'
      <3>1. CASE sign[p].pc = "policy" /\ PolicyTrusted
        <4>1. UNCHANGED <<policy, signing>>
          BY <1>1, <3>1 DEF SignStep, PolicyVerified, PairPresent, PairGenerate,
             KeyWrite, ConfigWrite, PolicySign, signVars
        <4> QED
          BY <3>1, <4>1, TrustStays
      <3>2. CASE sign[p].pc = "sign"
        <4>1. policy' = signing.key /\ signing' = signing
          BY <1>1, <3>2 DEF SignStep, PolicyVerified, PairPresent, PairGenerate,
             KeyWrite, ConfigWrite, PolicySign
        <4>2. HasPair
          BY <1>8, <3>2 DEF SignHand
        <4> QED
          BY <4>1, <4>2 DEF PolicyTrusted, Mismatch, HasPair
      <3> QED
        BY <1>11, <3>1, <3>2 DEF SignEnds
    <2>4. Leaves(p, h)'
      BY <1>6, <2>3 DEF Leaves, Suites
    <2>5. setup'[p] = Idle /\ h = Stage(p) /\ h # "verify"
      BY <1>1, <1>3, <1>6 DEF At
    <2> QED
      BY <1>1, <1>8, <1>9, <1>10, <2>1, <2>2, <2>4, <2>5, Onward
  <1>12. CASE ~SignEnds(p)
    <2>1. run' = run
      BY <1>12 DEF PolicyStep
    <2>2. Way(p)'
      BY <1>8, <1>10, <2>1, WayStays
    <2>3. KeysLoop(p)' /\ FiledLoop(p)'
      BY <1>1, <1>3, RestIsInOrder
    <2> QED
      BY <1>1, <1>9, <2>1, <2>2, <2>3 DEF Explained, Active
  <1> QED
    BY <1>11, <1>12

LEMMA LoadExplains ==
  ASSUME House, Rested, NEW p \in Procs, Explained(p), LoadRuntime(p)
  PROVE  Explained(p)'
  <1>1. /\ Active(p) /\ At(p, "load")
        /\ UNCHANGED <<keys, manifest, transcript, install, setup, signing, policy, sign>>
    BY DEF LoadRuntime, zkVars, signVars, instVars, At
  <1>2. setup[p] = Idle
    BY <1>1, Rests DEF Suites
  <1>3. PICK r \in RunState : r = run[p]
    BY DEF House
  <1>4. PICK h : h = "load"
    OBVIOUS
  <1>5. OnPlan(r) /\ r.stages # <<>> /\ Head(r.stages) = h
    BY <1>1, <1>3, <1>4 DEF House, Mine, Active, At, Stage
  <1>6. Past(r, "policy")
    BY <1>4, <1>5, PastHere
  <1>7. SignHand(p) /\ Way(p)
    BY <1>1 DEF Explained
  <1>8. /\ run'[p].command = run[p].command /\ run'[p].end = "none"
        /\ run'[p].trusted = PolicyTrusted /\ Done(run'[p]) = Done(run[p]) + 1
    BY LoadDoes
  <1>9. SignHand(p)'
    BY <1>1, <1>7 DEF SignHand, HasPair
  <1>10. KeysLoop(p)' /\ FiledLoop(p)'
    BY <1>1, <1>2, RestIsInOrder
  <1>11. PolicyTrusted \/ Mismatch
    BY <1>3, <1>6, <1>7 DEF Way, Leaves, Names
  <1>12. ASSUME NEW x \in Names, x # "load", Leaves(p, x)
         PROVE  Leaves(p, x)'
    <2>1. x = "doctor" => DoctorPassed(p)'
      BY <1>1, <1>12, DoctorIsSame, FilesStay DEF DoctorPassed, Leaves
    <2> QED
      BY <1>1, <1>8, <1>12, <2>1, FilesStay, TrustStays DEF Leaves
  <1>13. Leaves(p, "load")'
    BY <1>1, <1>8, <1>11, TrustStays DEF Leaves, Suites
  <1>14. Way(p)'
    <2>1. h = Stage(p)
      BY <1>1, <1>4 DEF At
    <2> QED
      BY <1>1, <1>4, <1>7, <1>8, <1>12, <1>13, <2>1, WayGrows
  <1>15. Outcome(p)'
    BY <1>8 DEF Outcome
  <1> QED
    BY <1>9, <1>10, <1>14, <1>15 DEF Explained

LEMMA HealthExplains ==
  ASSUME House, Rested, NEW p \in Procs, Explained(p), CheckHealth(p)
  PROVE  Explained(p)'
  <1>1. /\ Active(p) /\ At(p, "health")
        /\ UNCHANGED <<zkVars, signVars, install, transcript>>
    BY DEF CheckHealth, instVars, At
  <1>2. UNCHANGED <<keys, manifest, transcript, install, setup, signing, policy, sign>>
    BY <1>1 DEF zkVars, signVars
  <1>3. setup[p] = Idle
    BY <1>1, Rests DEF Suites
  <1>4. PICK r \in RunState : r = run[p]
    BY DEF House
  <1>5. PICK h : h = "health"
    OBVIOUS
  <1>6. OnPlan(r) /\ r.stages # <<>> /\ Head(r.stages) = h
    BY <1>1, <1>4, <1>5 DEF House, Mine, Active, At, Stage
  <1>7. Past(r, "load") /\ Past(r, "governance") /\ Past(r, "entity")
    BY <1>5, <1>6, PastHere
  <1>8. SignHand(p) /\ Way(p)
    BY <1>1 DEF Explained
  <1>9. Leaves(p, "load") /\ Leaves(p, "governance") /\ Leaves(p, "entity")
    BY <1>4, <1>7, <1>8 DEF Way, Names
  <1>10. KeysReady
    BY <1>9 DEF Leaves, KeysReady, Suites
  <1>11. (run[p].trusted => PolicyTrusted) /\ (run[p].trusted \/ Mismatch)
    BY <1>9 DEF Leaves
  <1>12. CASE Healthy(p)
    <2>1. Advance(p)
      BY <1>10, <1>12 DEF CheckHealth
    <2>2. run'[p].command = run[p].command
      BY <1>1, <2>1, AdvanceDoes
    <2>3. Leaves(p, h)'
      BY <1>2, <1>5, <1>11, <1>12, TrustStays DEF Leaves, Suites, Healthy
    <2>4. setup'[p] = Idle /\ h = Stage(p) /\ h # "verify"
      BY <1>1, <1>2, <1>3, <1>5 DEF At
    <2>5. SignHand(p)'
      BY <1>2, <1>8 DEF SignHand, HasPair
    <2>6. ASSUME run'[p].trusted = run[p].trusted, NEW x \in Names, Leaves(p, x)
          PROVE  Leaves(p, x)'
      BY <1>2, <2>2, <2>6, LeavesStay
    <2> QED
      BY <1>1, <1>8, <2>1, <2>3, <2>4, <2>5, <2>6, Onward
  <1>13. CASE ~Healthy(p)
    <2>1. Fail(p)
      BY <1>13 DEF CheckHealth
    <2>2. Stuck
      <3>1. CASE ~run[p].trusted
        BY <1>11, <3>1 DEF Mismatch, Stuck
      <3>2. CASE ~SovereignOk(FALSE) /\ install.state # "torn"
        <4>1. /\ install.state \in {"absent", "written"}
              /\ install.state = "written" => install.sovereign
          BY <3>2 DEF House, Docs, Written
        <4> QED
          BY <1>10, <3>2, <4>1 DEF SovereignOk, Stuck
      <3>3. CASE install.state = "torn"
        BY <3>3 DEF Stuck
      <3> QED
        BY <1>13, <3>1, <3>2, <3>3 DEF Healthy
    <2> QED
      BY <1>1, <2>1, <2>2, StuckStays, Halts
  <1> QED
    BY <1>12, <1>13

(* A step inside a stage of the installation record.                        *)
LEMMA DraftExplains ==
  ASSUME House, Rested, NEW p \in Procs, Explained(p), Active(p),
         run[p].step # "setup",
         UNCHANGED <<keys, manifest, transcript, policy, signing, sign, setup>>,
         run'[p].command = run[p].command, run'[p].stages = run[p].stages,
         run'[p].trusted = run[p].trusted,
         \/ install' = install
         \/ ~Past(run[p], "install") /\ ~Past(run[p], "doctor")
  PROVE  Explained(p)'
  <1>1. setup[p] = Idle
    BY HandsEmpty DEF Rested
  <1>2. KeysLoop(p)' /\ FiledLoop(p)'
    BY <1>1, RestIsInOrder
  <1>3. SignHand(p) /\ Way(p)
    BY DEF Explained
  <1>4. SignHand(p)'
    BY <1>3 DEF SignHand, HasPair
  <1>5. ASSUME NEW x \in Names, Past(run[p], x), Leaves(p, x)
        PROVE  Leaves(p, x)'
    <2>1. CASE install' = install
      BY <1>5, <2>1, LeavesStay
    <2>2. CASE x \notin {"install", "doctor"}
      BY <1>5, <2>2, FilesStay, TrustStays DEF Leaves
    <2> QED
      BY <1>5, <2>1, <2>2
  <1>6. Way(p)'
    BY <1>3, <1>5, WayStays
  <1> QED
    BY <1>2, <1>4, <1>6 DEF Explained, Active

LEMMA CollectExplains ==
  ASSUME House, Rested, NEW p \in Procs, Explained(p), InstallCollect(p)
  PROVE  Explained(p)'
  <1>1. /\ Active(p) /\ At(p, "install") /\ run[p].step = ""
        /\ UNCHANGED <<keys, manifest, transcript, policy, signing, sign, setup, install>>
    BY DEF InstallCollect, zkVars, signVars, instVars, At
  <1>2. PICK r \in RunState : r = run[p]
    BY DEF House
  <1>3. PICK h : h = "install"
    OBVIOUS
  <1>4. OnPlan(r) /\ r.stages # <<>> /\ Head(r.stages) = h
    BY <1>1, <1>2, <1>3 DEF House, Mine, Active, At, Stage
  <1>5. Past(r, "governance") /\ Past(r, "entity")
    BY <1>3, <1>4, PastHere
  <1>6. Leaves(p, "governance") /\ Leaves(p, "entity")
    BY <1>1, <1>2, <1>5 DEF Explained, Way, Names
  <1>7. KeysReady
    BY <1>6 DEF Leaves, KeysReady, Suites
  <1>8. PICK d : d = [state |-> "written", sovereign |-> TRUE, vk |-> OnDisk]
    OBVIOUS
  <1>9. run' = [run EXCEPT ![p].step = "truncate", ![p].doc = d]
    BY <1>7, <1>8 DEF InstallCollect
  <1>10. /\ run'[p].command = run[p].command /\ run'[p].stages = run[p].stages
         /\ run'[p].trusted = run[p].trusted
    BY <1>9 DEF House, RunState
  <1> QED
    BY <1>1, <1>10, DraftExplains

LEMMA TruncateExplains ==
  ASSUME House, Rested, NEW p \in Procs, Explained(p), InstallTruncate(p)
  PROVE  Explained(p)'
  <1>1. /\ Active(p) /\ run[p].step = "truncate" /\ run' = [run EXCEPT ![p].step = "write"]
        /\ UNCHANGED <<keys, manifest, transcript, policy, signing, sign, setup>>
    BY DEF InstallTruncate, zkVars, signVars
  <1>2. PICK r \in RunState : r = run[p]
    BY DEF House
  <1>3. PICK h : h = Stage(p)
    OBVIOUS
  <1>4. h \in {"install", "integrations"}
    BY <1>1, <1>3 DEF House, Mine, InStep
  <1>5. OnPlan(r) /\ r.stages # <<>> /\ Head(r.stages) = h
    BY <1>1, <1>2, <1>3 DEF House, Mine, Active, Stage
  <1>6. ~Past(r, "install") /\ ~Past(r, "doctor")
    BY <1>4, <1>5, PastHere
  <1>7. /\ run'[p].command = run[p].command /\ run'[p].stages = run[p].stages
        /\ run'[p].trusted = run[p].trusted
    BY <1>1 DEF House, RunState
  <1> QED
    BY <1>1, <1>2, <1>6, <1>7, DraftExplains

LEMMA WriteExplains ==
  ASSUME House, Rested, NEW p \in Procs, Explained(p), InstallWrite(p)
  PROVE  Explained(p)'
  <1>1. /\ Active(p) /\ run[p].step = "write" /\ install' = run[p].doc /\ Advance(p)
        /\ UNCHANGED <<keys, manifest, transcript, policy, signing, sign, setup>>
    BY DEF InstallWrite, zkVars, signVars
  <1>2. PICK r \in RunState : r = run[p]
    BY DEF House
  <1>3. PICK h : h = Stage(p)
    OBVIOUS
  <1>4. h \in {"install", "integrations"} /\ install'.state = "written"
    BY <1>1, <1>3 DEF House, Mine, InStep
  <1>5. OnPlan(r) /\ r.stages # <<>> /\ Head(r.stages) = h
    BY <1>1, <1>2, <1>3 DEF House, Mine, Active, Stage
  <1>6. ~Past(r, "install") /\ ~Past(r, "doctor")
    BY <1>4, <1>5, PastHere
  <1>7. setup'[p] = Idle
    BY <1>1, HandsEmpty DEF Rested
  <1>8. SignHand(p)' /\ Way(p)
    BY <1>1 DEF Explained, SignHand, HasPair
  <1>9. run'[p].command = run[p].command
    BY <1>1, AdvanceDoes
  <1>10. ASSUME NEW x \in Names, Past(run[p], x), Leaves(p, x),
                run'[p].trusted = run[p].trusted
         PROVE  Leaves(p, x)'
    <2>1. x \notin {"install", "doctor"}
      BY <1>2, <1>6, <1>10
    <2> QED
      BY <1>1, <1>9, <1>10, <2>1, FilesStay, TrustStays DEF Leaves
  <1>11. Leaves(p, h)'
    BY <1>4 DEF Leaves, Suites
  <1> QED
    BY <1>1, <1>3, <1>4, <1>7, <1>8, <1>10, <1>11, Onward

LEMMA IntegrationsExplains ==
  ASSUME House, Rested, NEW p \in Procs, Explained(p), IntegrationsRead(p)
  PROVE  Explained(p)'
  <1>1. /\ Active(p) /\ At(p, "integrations") /\ run[p].step = ""
        /\ UNCHANGED <<zkVars, signVars, install, transcript>>
    BY DEF IntegrationsRead, instVars, At
  <1>2. UNCHANGED <<keys, manifest, transcript, policy, signing, sign, setup, install>>
    BY <1>1 DEF zkVars, signVars
  <1>3. CASE install.state = "absent"
    <2>1. Advance(p)
      BY <1>3 DEF IntegrationsRead
    <2>2. PICK h : h = "integrations"
      OBVIOUS
    <2>3. h = Stage(p)
      BY <1>1, <2>2 DEF At
    <2>4. setup'[p] = Idle
      BY <1>1, <1>2, HandsEmpty DEF Rested
    <2>5. SignHand(p)' /\ Way(p)
      BY <1>1, <1>2 DEF Explained, SignHand, HasPair
    <2>6. run'[p].command = run[p].command
      BY <1>1, <2>1, AdvanceDoes
    <2>7. ASSUME NEW x \in Names, Leaves(p, x), run'[p].trusted = run[p].trusted
          PROVE  Leaves(p, x)'
      BY <1>2, <2>6, <2>7, LeavesStay
    <2>8. Leaves(p, h)'
      BY <2>2 DEF Leaves, Suites
    <2> QED
      BY <1>1, <2>1, <2>2, <2>3, <2>4, <2>5, <2>7, <2>8, Onward
  <1>4. CASE install.state = "torn"
    <2>1. Fail(p)
      BY <1>4 DEF IntegrationsRead
    <2>2. Stuck
      BY <1>4 DEF Stuck
    <2> QED
      BY <1>1, <2>1, <2>2, StuckStays, Halts
  <1>5. CASE install.state \notin {"absent", "torn"}
    <2>1. run' = [run EXCEPT ![p].step = "truncate", ![p].doc = install]
      BY <1>5 DEF IntegrationsRead
    <2>2. /\ run'[p].command = run[p].command /\ run'[p].stages = run[p].stages
          /\ run'[p].trusted = run[p].trusted
      BY <2>1 DEF House, RunState
    <2> QED
      BY <1>1, <1>2, <2>2, DraftExplains
  <1> QED
    BY <1>3, <1>4, <1>5

LEMMA TranscriptExplains ==
  ASSUME House, Rested, NEW p \in Procs, Explained(p), WriteTranscript(p)
  PROVE  Explained(p)'
  <1>1. /\ Active(p) /\ At(p, "transcript")
        /\ UNCHANGED <<keys, manifest, install, policy, signing, sign, setup>>
    BY DEF WriteTranscript, zkVars, signVars, At
  <1>2. CASE \E s \in Suites : ~Readable(s)
    <2>1. Fail(p) /\ transcript' = transcript
      BY <1>2 DEF WriteTranscript
    <2>2. Stuck'
      BY <1>1, <1>2 DEF Stuck, Readable
    <2> QED
      BY <2>1, <2>2, Halts
  <1>3. CASE ~\E s \in Suites : ~Readable(s)
    <2>1. Advance(p)
      BY <1>3 DEF WriteTranscript
    <2>2. PICK r \in RunState : r = run[p]
      BY DEF House
    <2>3. PICK h : h = "transcript"
      OBVIOUS
    <2>4. OnPlan(r) /\ r.stages # <<>> /\ Head(r.stages) = h /\ h = Stage(p)
      BY <1>1, <2>2, <2>3 DEF House, Mine, Active, At, Stage
    <2>5. ~Past(r, "doctor") /\ r.command # "bootstrap"
      BY <2>3, <2>4, PastHere
    <2>6. run'[p].command # "bootstrap"
      BY <1>1, <2>1, <2>2, <2>5, AdvanceDoes
    <2>7. setup'[p] = Idle
      BY <1>1, Rests DEF Suites
    <2>8. SignHand(p)' /\ Way(p)
      BY <1>1 DEF Explained, SignHand, HasPair
    <2>9. ASSUME NEW x \in Names, Past(run[p], x), Leaves(p, x),
                 run'[p].trusted = run[p].trusted
          PROVE  Leaves(p, x)'
      <3>1. x # "doctor"
        BY <2>2, <2>5, <2>9
      <3>2. \A s \in Suites : Ready(s)' = Ready(s)
        BY <1>1 DEF Ready, Complete
      <3> QED
        BY <1>1, <2>6, <2>9, <3>1, <3>2, TrustStays DEF Leaves
    <2>10. Leaves(p, h)'
      BY <2>3 DEF Leaves, Suites
    <2> QED
      BY <1>1, <2>1, <2>3, <2>4, <2>7, <2>8, <2>9, <2>10, Onward
  <1> QED
    BY <1>2, <1>3

LEMMA SmokeExplains ==
  ASSUME House, Rested, NEW p \in Procs, Explained(p), SmokeDoctor(p)
  PROVE  Explained(p)'
  <1>1. /\ Active(p) /\ At(p, "doctor")
        /\ UNCHANGED <<zkVars, signVars, install, transcript>>
    BY DEF SmokeDoctor, instVars, At
  <1>2. UNCHANGED <<keys, manifest, transcript, policy, signing, sign, setup, install>>
    BY <1>1 DEF zkVars, signVars
  <1>3. PICK r \in RunState : r = run[p]
    BY DEF House
  <1>4. PICK h : h = "doctor"
    OBVIOUS
  <1>5. OnPlan(r) /\ r.stages # <<>> /\ Head(r.stages) = h /\ h = Stage(p)
    BY <1>1, <1>3, <1>4 DEF House, Mine, Active, At, Stage
  <1>6. r.command = "bootstrap"
    <2>1. CASE r.command = "first_run"
      BY <1>4, <1>5, <2>1, FirstRunPast
    <2>2. CASE r.command \notin {"bootstrap", "first_run"}
      BY <1>4, <1>5, <2>2, ToolStages
    <2> QED
      BY <2>1, <2>2
  <1>7. /\ Past(r, "governance") /\ Past(r, "entity") /\ Past(r, "health")
        /\ Past(r, "install")
    BY <1>4, <1>5, PastHere
  <1>8. SignHand(p) /\ Way(p)
    BY <1>1 DEF Explained
  <1>9. /\ Leaves(p, "governance") /\ Leaves(p, "entity") /\ Leaves(p, "health")
        /\ Leaves(p, "install")
    BY <1>3, <1>7, <1>8 DEF Way, Names
  <1>10. KeysReady /\ PolicyTrusted /\ install.state = "written"
    BY <1>9 DEF Leaves, KeysReady, Suites
  <1>11. \A s \in Suites : Settled(s)
    BY <1>3, <1>6, <1>9 DEF Leaves, Suites
  <1>12. setup[p] = Idle
    BY <1>1, Rests DEF Suites
  <1>13. CASE Doctor
    <2>1. Advance(p)
      BY <1>13 DEF SmokeDoctor
    <2>2. run'[p].command = run[p].command
      BY <1>1, <2>1, AdvanceDoes
    <2>3. transcript.exists => \A s \in Suites : Recent(s)
      <3> SUFFICES ASSUME transcript.exists, NEW s \in Suites  PROVE  Recent(s)
        OBVIOUS
      <3>1. transcript.doc = manifest
        BY <1>13 DEF Doctor, TranscriptValid, TranscriptMatches
      <3>2. ~Differs(s)
        BY <3>1 DEF Differs, Filed, Entry
      <3> QED
        BY <1>11, <3>2 DEF Settled
    <2>4. DoctorPassed(p)'
      <3>1. Doctor' /\ (transcript.exists => \A s \in Suites : Recent(s)')
        BY <1>2, <1>13, <2>3, DoctorIsSame, FilesStay
      <3>2. setup'[p].pc = "idle"
        BY <1>2, <1>12 DEF Idle
      <3> QED
        BY <1>2, <3>1, <3>2 DEF DoctorPassed
    <2>5. Leaves(p, h)'
      BY <1>4, <2>4 DEF Leaves, Suites
    <2>6. SignHand(p)' /\ setup'[p] = Idle
      BY <1>2, <1>8, <1>12 DEF SignHand, HasPair
    <2>7. ASSUME NEW x \in Names, Leaves(p, x), run'[p].trusted = run[p].trusted
          PROVE  Leaves(p, x)'
      BY <1>2, <2>2, <2>7, LeavesStay
    <2> QED
      BY <1>1, <1>4, <1>5, <1>8, <2>1, <2>5, <2>6, <2>7, Onward
  <1>14. CASE ~Doctor
    <2>1. Fail(p)
      BY <1>14 DEF SmokeDoctor
    <2>2. Stuck
      <3>1. CASE ~TranscriptValid
        BY <3>1 DEF Stuck
      <3>2. CASE ~SovereignOk(TRUE)
        <4>1. install.sovereign
          BY <1>10 DEF House, Written
        <4> QED
          BY <1>10, <3>2, <4>1 DEF SovereignOk, Stuck
      <3> QED
        BY <1>10, <1>14, <3>1, <3>2 DEF Doctor
    <2> QED
      BY <1>1, <2>1, <2>2, StuckStays, Halts
  <1> QED
    BY <1>13, <1>14

LEMMA VerifyExplains ==
  ASSUME House, Rested, NEW p \in Procs, Explained(p), SmokeVerify(p)
  PROVE  Explained(p)'
  <1>1. /\ Active(p) /\ At(p, "verify")
        /\ UNCHANGED <<zkVars, signVars, install, transcript>>
    BY DEF SmokeVerify, instVars, At
  <1>2. UNCHANGED <<keys, manifest, transcript, policy, signing, sign, setup, install>>
    BY <1>1 DEF zkVars, signVars
  <1>3. PICK r \in RunState : r = run[p]
    BY DEF House
  <1>4. PICK h : h = "verify"
    OBVIOUS
  <1>5. OnPlan(r) /\ r.stages # <<>> /\ Head(r.stages) = h /\ h = Stage(p)
    BY <1>1, <1>3, <1>4 DEF House, Mine, Active, At, Stage
  <1>6. Past(r, "doctor")
    BY <1>4, <1>5, PastHere
  <1>7. SignHand(p) /\ Way(p)
    BY <1>1 DEF Explained
  <1>8. Doctor
    BY <1>3, <1>6, <1>7 DEF Way, Names, Leaves, DoctorPassed
  <1>9. CASE \A c \in Circuits : Provable(c)
    <2>1. Advance(p)
      BY <1>9 DEF SmokeVerify
    <2>2. run'[p].command = run[p].command
      BY <1>1, <2>1, AdvanceDoes
    <2>3. Doctor' /\ \A c \in Circuits : Provable(c)'
      BY <1>2, <1>8, <1>9, DoctorIsSame, FilesStay
    <2>4. Leaves(p, h)'
      BY <1>4 DEF Leaves, Suites
    <2>5. setup'[p] = Idle
      BY <1>1, <1>2, Rests DEF Suites
    <2>6. SignHand(p)'
      BY <1>2, <1>7 DEF SignHand, HasPair
    <2>7. ASSUME NEW x \in Names, Leaves(p, x), run'[p].trusted = run[p].trusted
          PROVE  Leaves(p, x)'
      BY <1>2, <2>2, <2>7, LeavesStay
    <2> QED
      BY <1>1, <1>5, <1>7, <2>1, <2>3, <2>4, <2>5, <2>6, <2>7, Onward
  <1>10. ASSUME NEW c \in Circuits, ~Provable(c)
         PROVE  Explained(p)'
    <2>1. Fail(p)
      BY <1>10 DEF SmokeVerify
    <2>2. Complete(c) /\ SuiteOf(c) \in Suites
      BY <1>8, CircuitsOfSuites DEF Doctor, KeysReady, Ready
    <2>3. Stuck
      BY <1>10, <2>2 DEF Provable, Readable, Stuck
    <2> QED
      BY <1>1, <2>1, <2>3, StuckStays, Halts
  <1> QED
    BY <1>9, <1>10

LEMMA StartExplains ==
  ASSUME House, Rested, NEW p \in Procs, NEW c \in DOMAIN Plan, Start(p, c)
  PROVE  Explained(p)'
  <1>1. ~Active(p) /\ UNCHANGED <<setup, sign, signing>>
    BY DEF Start, zkVars, signVars
  <1>2. run[p].step = ""
    BY <1>1 DEF House, Mine, InStep
  <1>3. setup[p] = Idle /\ sign[p] = NotSigning
    BY <1>1, <1>2, HandsEmpty DEF Rested, At
  <1>4. KeysLoop(p)' /\ FiledLoop(p)'
    BY <1>1, <1>3, RestIsInOrder
  <1>5. SignHand(p)'
    BY <1>1, <1>3 DEF SignHand, NotSigning
  <1>6. run'[p].stages # <<>> /\ Done(run'[p]) = 0
    BY StartDoes
  <1>7. Way(p)'
    <2>1. \A x : ~Past(run[p], x)'
      BY <1>6 DEF Past, Done
    <2> QED
      BY <2>1 DEF Way
  <1> QED
    BY <1>4, <1>5, <1>6, <1>7 DEF Explained, Active

LEMMA StillExplains ==
  ASSUME NEW p \in Procs, Explained(p), UNCHANGED vars
  PROVE  Explained(p)'
  <1>1. UNCHANGED <<keys, manifest, transcript, policy, signing, sign, setup, install,
                    run, zkVars, signVars>>
    BY DEF vars, zkVars, signVars
  <1>2. Active(p)' <=> Active(p)
    BY <1>1 DEF Active
  <1>3. CASE Active(p)
    <2>1. KeysLoop(p)'
      <3>1. KeysLoop(p) /\ Handled(p)' = Handled(p)
        BY <1>3, HandledKept, <1>1 DEF Explained
      <3> QED
        BY <1>1, <3>1 DEF KeysLoop, Complete, Current
    <2>2. FiledLoop(p)'
      <3>1. FiledLoop(p)
        BY <1>3 DEF Explained
      <3> QED
        BY <1>1, <3>1 DEF FiledLoop, Differs, Entry, Filed, Current
    <2>3. SignHand(p)'
      BY <1>1, <1>3 DEF Explained, SignHand, HasPair
    <2>4. Way(p)'
      <3>1. \A x \in Names : Leaves(p, x) => Leaves(p, x)'
        BY <1>1, LeavesStay
      <3> QED
        BY <1>1, <1>3, <3>1, WayStays DEF Explained
    <2> QED
      BY <1>2, <1>3, <2>1, <2>2, <2>3, <2>4 DEF Explained
  <1>4. CASE ~Active(p)
    <2>1. Outcome(p)
      BY <1>4 DEF Explained
    <2>2. Stuck => Stuck'
      BY <1>1, StuckStays
    <2>3. (Doctor => Doctor') /\ \A c \in Circuits : Provable(c) => Provable(c)'
      BY <1>1, DoctorIsSame, FilesStay
    <2>4. Outcome(p)'
      BY <1>1, <2>1, <2>2, <2>3 DEF Outcome
    <2> QED
      BY <1>2, <1>4, <2>4 DEF Explained
  <1> QED
    BY <1>3, <1>4

-----------------------------------------------------------------------------
LEMMA SoloStays ==
  ASSUME Typed, FiledTyped, InHand, Dated, House, Rested, Single, SoloInv, [Next]_vars
  PROVE  SoloInv'
  <1> SUFFICES ASSUME NEW p \in Procs, Solo(p)'
               PROVE  Explained(p)'
    BY DEF SoloInv
  <1>1. CASE UNCHANGED vars
    <2>1. Solo(p)
      BY <1>1 DEF vars, Solo
    <2> QED
      BY <1>1, <2>1, StillExplains DEF SoloInv
  <1>2. ASSUME NEW c \in DOMAIN Plan, Start(p, c)
        PROVE  Explained(p)'
    BY <1>2, StartExplains
  <1>3. CASE Solo(p) /\ Carries(p)
    <2>1. Explained(p)
      BY <1>3 DEF SoloInv
    <2>2. ASSUME NEW s \in Suites, ZkBegin(p, s)
          PROVE  Explained(p)'
      BY <2>1, <2>2, BeginExplains
    <2>3. CASE ZkStep(p) /\ run' = run /\ faults' = faults
      BY <2>1, <2>3, StepExplains
    <2>4. CASE ZkReturn(p)
      BY <2>1, <2>4, ReturnExplains
    <2>5. CASE PolicyStep(p)
      BY <2>1, <2>5, PolicyExplains
    <2>6. CASE LoadRuntime(p)
      BY <2>1, <2>6, LoadExplains
    <2>7. CASE CheckHealth(p)
      BY <2>1, <2>7, HealthExplains
    <2>8. CASE InstallCollect(p)
      BY <2>1, <2>8, CollectExplains
    <2>9. CASE IntegrationsRead(p)
      BY <2>1, <2>9, IntegrationsExplains
    <2>10. CASE InstallTruncate(p)
      BY <2>1, <2>10, TruncateExplains
    <2>11. CASE InstallWrite(p)
      BY <2>1, <2>11, WriteExplains
    <2>12. CASE WriteTranscript(p)
      BY <2>1, <2>12, TranscriptExplains
    <2>13. CASE SmokeDoctor(p)
      BY <2>1, <2>13, SmokeExplains
    <2>14. CASE SmokeVerify(p)
      BY <2>1, <2>14, VerifyExplains
    <2> QED
      BY <1>3, <2>2, <2>3, <2>4, <2>5, <2>6, <2>7, <2>8, <2>9, <2>10, <2>11, <2>12,
         <2>13, <2>14 DEF Carries
  <1> QED
    BY <1>1, <1>2, <1>3, SoloStep

CommandInv == House /\ Rested /\ Named /\ Single /\ SoloInv

LEMMA InitCommand == Init => CommandInv
  <1> SUFFICES ASSUME Init  PROVE  CommandInv
    OBVIOUS
  <1>1. \A p \in Procs : run[p] = NoRun
    BY DEF Init
  <1>2. Named /\ Single /\ SoloInv
    BY <1>1, NoRunFields DEF Named, Single, SoloInv, Solo
  <1>3. Rested
    BY DEF Init, ZkInit, Rested
  <1> QED
    BY <1>2, <1>3, InitHouse DEF CommandInv

LEMMA CommandInvariant == Spec => [](Typed /\ CommandInv)
  <1>1. Typed /\ FiledInv /\ CommandInv /\ [Next]_vars => CommandInv'
    BY HouseStays, RestedStays, NamedStays, SingleStays, SoloStays
       DEF CommandInv, FiledInv
  <1> QED
    BY <1>1, InitCommand, FiledInvariant, PTL DEF Spec

(* A bootstrap that runs alone and reports success leaves an instance the   *)
(* doctor finds healthy, every circuit of which proves, whatever crashes    *)
(* and losses came before it: SuccessIsHealthy.                             *)
THEOREM SuccessHolds == Spec => []SuccessIsHealthy
  <1>1. CommandInv => SuccessIsHealthy
    <2> SUFFICES ASSUME CommandInv, NEW p \in Procs,
                        run[p].end = "ok", run[p].alone, run[p].command = "bootstrap"
                 PROVE  Doctor /\ \A c \in Circuits : Provable(c)
      BY DEF SuccessIsHealthy
    <2>1. ~Active(p)
      BY DEF CommandInv, House, Mine, OnPlan
    <2> QED
      BY <2>1 DEF CommandInv, SoloInv, Solo, Explained, Outcome
  <1> QED
    BY <1>1, CommandInvariant, PTL

(* A command that runs alone and fails met a residue that no later run      *)
(* removes: FailureExplained.                                               *)
THEOREM FailuresAreExplained == Spec => []FailureExplained
  <1>1. CommandInv => FailureExplained
    <2> SUFFICES ASSUME CommandInv, NEW p \in Procs,
                        run[p].end = "failed", run[p].alone
                 PROVE  Stuck
      BY DEF FailureExplained
    <2>1. ~Active(p)
      BY DEF CommandInv, House, Mine, OnPlan
    <2>2. run[p].command # "none"
      BY DEF CommandInv, Named
    <2> QED
      BY <2>1, <2>2 DEF CommandInv, SoloInv, Solo, Explained, Outcome
  <1> QED
    BY <1>1, CommandInvariant, PTL
=============================================================================
