------------------------------- MODULE ZkKeys -------------------------------
(* The proving and verifying keys of the circuits and the manifest of each  *)
(* suite (scripts/setup_zk.py, setup_entity_zk.py, zk_manifest.py and       *)
(* entity_zk_manifest.py, which differ in names only). A key is the number  *)
(* of the trusted setup that made it, its hash the same number.             *)
EXTENDS Integers, Sequences, SequencesExt

CONSTANTS Procs,       \* processes: command-line tools, the server
          Governance,  \* the circuits of apxv-circuits, in the order of CIRCUITS
          Entity,      \* the circuits of apxv-zk, in the order of ENTITY_CIRCUITS
          MaxFaults    \* bound: provers that fail, lost key files and deaths

Suites == {"governance", "entity"}
CircuitsOf(s) == IF s = "governance" THEN Governance ELSE Entity
Circuits == Range(Governance) \cup Range(Entity)
SuiteOf(c) == IF c \in Range(Governance) THEN "governance" ELSE "entity"

ASSUME ZkKeysAssumption == /\ Governance \in Seq(Range(Governance))
                           /\ Entity \in Seq(Range(Entity))
                           /\ Range(Governance) \cap Range(Entity) = {}
                           /\ MaxFaults \in Nat

VARIABLES keys,      \* the two key files of each circuit
          manifest,  \* manifest.json and entity-manifest.json
          setups,    \* history: trusted setups begun for each circuit
          setup,     \* the local variables of ensure_zk_setup in each process
          faults,    \* history: faults so far
          crossed    \* history: two processes were inside a key setup at once

zkVars == <<keys, manifest, setups, setup, faults, crossed>>

(* Absent files are 0; setup 1 made the keys of the old repository image,   *)
(* whose verifying keys vendor_vk_blocklist.json lists.                     *)
Absent == [pk |-> 0, vk |-> 0]
Vendor == [pk |-> 1, vk |-> 1]
IsVendor(k) == k.vk = 1

Complete(c) == keys[c].pk # 0 /\ keys[c].vk # 0
Ready(s) == \A c \in Range(CircuitsOf(s)) : Complete(c)

(* A write truncates the file first: until the text is there, nobody can    *)
(* parse it. An entry Absent is no entry.                                   *)
NoManifest(s) == [torn |-> FALSE, writes |-> 0,
                  entry |-> [c \in Range(CircuitsOf(s)) |-> Absent]]
Readable(s) == ~manifest[s].torn

Idle == [pc |-> "idle", suite |-> "governance", left |-> <<>>, force |-> FALSE,
         ran |-> FALSE, rebuild |-> FALSE, key |-> 0, doc |-> NoManifest("governance")]

Busy(p) == setup[p].pc \notin {"idle", "raised"}
Current(p) == Head(setup[p].left)

ZkInit(old) ==
  /\ keys = [c \in Circuits |-> old]
  /\ manifest = [s \in Suites |->
       [NoManifest(s) EXCEPT !.entry = [c \in DOMAIN @ |-> old]]]
  /\ setups = [c \in Circuits |-> 1]
  /\ setup = [p \in Procs |-> Idle]
  /\ faults = 0
  /\ crossed = FALSE

-----------------------------------------------------------------------------
Goto(p, pc) == setup' = [setup EXCEPT ![p].pc = pc]

SetupBegin(p, s, force) ==
  /\ ~Busy(p)
  /\ setup' = [setup EXCEPT ![p] = [Idle EXCEPT !.pc = "check", !.suite = s,
                 !.left = CircuitsOf(s), !.force = force, !.doc = NoManifest(s)]]
  /\ crossed' = (crossed \/ \E q \in Procs \ {p} : Busy(q))
  /\ UNCHANGED <<keys, manifest, setups, faults>>

(* needs_setup is asked of each circuit as the loop comes to it.            *)
OrUnrecorded(p) ==
  \/ setup[p].force \/ ~Complete(Current(p))
  \/ manifest[setup[p].suite].entry[Current(p)] # keys[Current(p)]
OnlyPk(p) == setup[p].force \/ keys[Current(p)].pk = 0
NeedsSetup(p) == setup[p].force \/ ~Complete(Current(p))

SetupPresent(p) ==
  /\ setup[p].pc = "check" /\ setup[p].left # <<>> /\ ~NeedsSetup(p)
  /\ setup' = [setup EXCEPT ![p].left = Tail(@)]
  /\ UNCHANGED <<keys, manifest, setups, faults, crossed>>

SetupProve(p) ==
  /\ setup[p].pc = "check" /\ setup[p].left # <<>> /\ NeedsSetup(p)
  /\ setups' = [setups EXCEPT ![Current(p)] = @ + 1]
  /\ setup' = [setup EXCEPT ![p].pc = "pk", ![p].key = setups'[Current(p)]]
  /\ UNCHANGED <<keys, manifest, faults, crossed>>

SetupPk(p) ==
  /\ setup[p].pc = "pk"
  /\ keys' = [keys EXCEPT ![Current(p)].pk = setup[p].key]
  /\ Goto(p, "vk")
  /\ UNCHANGED <<manifest, setups, faults, crossed>>

KeepsVk(p) ==
  /\ setup[p].pc = "vk"
  /\ keys' = [keys EXCEPT ![Current(p)].vk = IF @ = 0 THEN setup[p].key ELSE @]
  /\ setup' = [setup EXCEPT ![p].pc = "record", ![p].ran = TRUE]
  /\ UNCHANGED <<manifest, setups, faults, crossed>>

SetupVk(p) ==
  /\ setup[p].pc = "vk"
  /\ keys' = [keys EXCEPT ![Current(p)].vk = setup[p].key]
  /\ setup' = [setup EXCEPT ![p].pc = "record", ![p].ran = TRUE]
  /\ UNCHANGED <<manifest, setups, faults, crossed>>

(* The prover fails, or runs out of its time between the two files.         *)
SetupFails(p) ==
  /\ setup[p].pc \in {"pk", "vk"}
  /\ faults < MaxFaults
  /\ faults' = faults + 1
  /\ Goto(p, "raised")
  /\ UNCHANGED <<keys, manifest, setups, crossed>>

-----------------------------------------------------------------------------
(* update_manifest_for_circuit, called after a setup and by rebuild.        *)
Recorded(p) == manifest[setup[p].suite].entry[Current(p)]

Recording(p) == setup[p].pc = "record" /\ setup[p].left # <<>>

(* The next circuit of the loop this one was recorded for.                  *)
NextCircuit(p, l) ==
  [l EXCEPT !.left = Tail(@), !.pc = IF l.rebuild THEN "record" ELSE "check",
            !.key = 0, !.doc = NoManifest(l.suite)]

(* load_manifest of a torn file raises; so do missing keys, which           *)
(* rebuild_manifest passes over.                                            *)
RecordFails(p) ==
  /\ Recording(p)
  /\ IF Complete(Current(p)) THEN ~Readable(setup[p].suite) ELSE ~setup[p].rebuild
  /\ Goto(p, "raised")
  /\ UNCHANGED <<keys, manifest, setups, faults, crossed>>

HasEntry(p) == Recorded(p) # Absent
NeverUnchanged(p) == FALSE
Unchanged(p) == Recorded(p) = keys[Current(p)]

RecordSkips(p) ==
  /\ Recording(p)
  /\ \/ ~Complete(Current(p)) /\ setup[p].rebuild
     \/ Complete(Current(p)) /\ Readable(setup[p].suite) /\ Unchanged(p)
  /\ setup' = [setup EXCEPT ![p] = NextCircuit(p, @)]
  /\ UNCHANGED <<keys, manifest, setups, faults, crossed>>

RecordReads(p) ==
  /\ Recording(p) /\ Complete(Current(p)) /\ Readable(setup[p].suite) /\ ~Unchanged(p)
  /\ setup' = [setup EXCEPT ![p].pc = "truncate",
       ![p].doc = [manifest[setup[p].suite] EXCEPT !.writes = @ + 1,
                     !.entry[Current(p)] = keys[Current(p)]]]
  /\ UNCHANGED <<keys, manifest, setups, faults, crossed>>

RecordTruncates(p) ==
  /\ setup[p].pc = "truncate"
  /\ manifest' = [manifest EXCEPT ![setup[p].suite].torn = TRUE]
  /\ Goto(p, "write")
  /\ UNCHANGED <<keys, setups, faults, crossed>>

RecordWrites(p) ==
  /\ setup[p].pc = "write"
  /\ manifest' = [manifest EXCEPT ![setup[p].suite] = setup[p].doc]
  /\ setup' = [setup EXCEPT ![p] = NextCircuit(p, @)]
  /\ UNCHANGED <<keys, setups, faults, crossed>>

(* Only a call that made no key rebuilds the manifest, which it reads       *)
(* before the first circuit and after the last one.                         *)
RebuildReads(p) ==
  /\ setup[p].left = <<>> /\ ~setup[p].ran
  /\ setup[p].pc = IF setup[p].rebuild THEN "record" ELSE "check"

RebuildFails(p) ==
  /\ RebuildReads(p) /\ ~Readable(setup[p].suite)
  /\ Goto(p, "raised")
  /\ UNCHANGED <<keys, manifest, setups, faults, crossed>>

RebuildAll(p) ==
  /\ RebuildReads(p) /\ ~setup[p].rebuild /\ Readable(setup[p].suite)
  /\ setup' = [setup EXCEPT ![p].pc = "record", ![p].rebuild = TRUE,
                            ![p].left = Governance \o Entity]
  /\ UNCHANGED <<keys, manifest, setups, faults, crossed>>

RebuildBegin(p) ==
  /\ RebuildReads(p) /\ ~setup[p].rebuild /\ Readable(setup[p].suite)
  /\ setup' = [setup EXCEPT ![p].pc = "record", ![p].rebuild = TRUE,
                            ![p].left = CircuitsOf(setup[p].suite)]
  /\ UNCHANGED <<keys, manifest, setups, faults, crossed>>

(* The call returns to its caller.                                          *)
Returns(p) ==
  /\ setup[p].left = <<>>
  /\ \/ setup[p].pc = "check" /\ setup[p].ran
     \/ RebuildReads(p) /\ setup[p].rebuild /\ Readable(setup[p].suite)

SetupStep(p) ==
  \/ SetupPresent(p) \/ SetupProve(p) \/ SetupPk(p) \/ SetupVk(p) \/ SetupFails(p)
  \/ RecordFails(p) \/ RecordSkips(p) \/ RecordReads(p) \/ RecordTruncates(p)
  \/ RecordWrites(p) \/ RebuildFails(p) \/ RebuildBegin(p)

-----------------------------------------------------------------------------
(* A key file is deleted, or the instance moves without it.                 *)
LoseKey(c) ==
  /\ faults < MaxFaults
  /\ faults' = faults + 1
  /\ \E f \in {"pk", "vk"} : keys[c][f] # 0 /\ keys' = [keys EXCEPT ![c][f] = 0]
  /\ UNCHANGED <<manifest, setups, setup, crossed>>

(* A proof of c made now verifies: the pair is of one setup, and            *)
(* verify_vk_hash finds an entry and the verifying key on disk.             *)
Provable(c) ==
  /\ Complete(c) /\ keys[c].pk = keys[c].vk
  /\ Readable(SuiteOf(c)) /\ manifest[SuiteOf(c)].entry[c] # Absent

-----------------------------------------------------------------------------
ZkTypeOK ==
  LET Pair == [pk : Nat, vk : Nat]
  IN  /\ keys \in [Circuits -> Pair]
      /\ \A s \in Suites : /\ manifest[s].torn \in BOOLEAN
                           /\ manifest[s].entry \in [Range(CircuitsOf(s)) -> Pair]
      /\ \A p \in Procs : /\ setup[p].pc \in {"idle", "check", "pk", "vk", "record",
                                   "truncate", "write", "raised"}
                          /\ IsSuffix(setup[p].left, CircuitsOf(setup[p].suite))
      /\ faults \in 0 .. MaxFaults
      /\ crossed \in BOOLEAN

(* A pair is of two setups only after a fault or where two processes met:   *)
(* a circuit that lost one file gets both anew (setup_zk.py:36).            *)
PairsMatch ==
  faults = 0 /\ ~crossed =>
    \A c \in Circuits : (\A p \in Procs : setup[p].pc # "vk") /\ Complete(c)
                           => keys[c].pk = keys[c].vk
=============================================================================
