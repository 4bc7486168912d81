------------------------------- MODULE Install ------------------------------
(* Installing and repairing an instance: scripts/bootstrap (orchestrator,   *)
(* first_run, install_json, sovereign_check, smoke), setup_first_run,       *)
(* apxv_doctor and ceremony_transcript, run by several processes over the   *)
(* key files, the manifests, install.json, the policy and the transcript.   *)
EXTENDS Signing

CONSTANTS Server,      \* the process of the API server
          Commands,    \* the command-line tools this instance runs
          OldKeys,     \* the keys an instance may begin with
          MaxCommands  \* bound: commands started

ASSUME InstallAssumption == OldKeys \subseteq {Absent, Vendor}

VARIABLES install,     \* install.json
          transcript,  \* ceremony-transcript.json
          run,         \* the command each process executes
          commands     \* history: commands started

vars == <<keys, manifest, setups, setup, faults, crossed, signing, policy, pairs,
          sign, install, transcript, run, commands>>

NoInstall == [state |-> "absent", sovereign |-> FALSE, vk |-> [c \in Circuits |-> 0]]
NoTranscript == [exists |-> FALSE, signed |-> 0, doc |-> [s \in Suites |-> NoManifest(s)]]

(* The stages of each command, in the order of the code.                    *)
FirstRun == <<"policy", "load", "health">>
Keys == <<"governance", "entity">>
Smoke == <<"doctor">> \o Keys \o <<"verify">>
Plan == [
  bootstrap    |-> Keys \o FirstRun \o <<"install">> \o Smoke,
  first_run    |-> <<"policy", "load", "governance", "entity", "health">>,
  force_setup  |-> <<"governance">>,
  attest       |-> Keys,
  integrations |-> <<"integrations">>,
  ceremony     |-> <<"transcript">>]

(* Attested runs and POST /integrations/repair come from the server; the    *)
(* tools of one operator run one after the other.                           *)
Runs(p, c) == IF p = Server THEN c \in {"attest", "integrations"} ELSE c \in Commands

Forces(c) == c = "force_setup"

NoRun == [command |-> "none", stages |-> <<>>, step |-> "", doc |-> NoInstall,
          trusted |-> FALSE, alone |-> TRUE, end |-> "none"]

Init ==
  /\ \E old \in OldKeys : ZkInit(old)
  /\ SignInit
  /\ install = NoInstall
  /\ transcript = NoTranscript
  /\ run = [p \in Procs |-> NoRun]
  /\ commands = 0

Active(p) == run[p].stages # <<>>
Stage(p) == Head(run[p].stages)
At(p, stage) == Active(p) /\ Stage(p) = stage

instVars == <<install, transcript, commands>>

(* Something else happened while a command ran: it did not run alone.      *)
Disturbed == [q \in Procs |-> [run[q] EXCEPT !.alone = FALSE]]

Ended(p, how) == [NoRun EXCEPT !.command = run[p].command, !.alone = run[p].alone,
                               !.end = how]
Advance(p) ==
  LET rest == Tail(run[p].stages)
  IN  run' = [run EXCEPT ![p] = IF rest = <<>> THEN Ended(p, "ok")
                                ELSE [run[p] EXCEPT !.stages = rest, !.step = ""]]
Fail(p) == run' = [run EXCEPT ![p] = Ended(p, "failed")]

-----------------------------------------------------------------------------
(* The result of the last command is forgotten when the next one starts.    *)
Start(p, c) ==
  /\ commands < MaxCommands /\ ~Active(p) /\ Runs(p, c)
  /\ commands' = commands + 1
  /\ LET alone == \A q \in Procs : ~Active(q)
         others == IF alone THEN [q \in Procs |-> NoRun] ELSE Disturbed
     IN  run' = [others EXCEPT ![p] = [NoRun EXCEPT !.command = c,
                                         !.stages = Plan[c], !.alone = alone]]
  /\ UNCHANGED <<zkVars, signVars, install, transcript>>

(* ensure_zk_setup and ensure_entity_zk_setup, as a stage.                  *)
ZkBegin(p, s) ==
  /\ At(p, s) /\ run[p].step = ""
  /\ SetupBegin(p, s, Forces(run[p].command))
  /\ run' = [run EXCEPT ![p].step = "setup"]
  /\ UNCHANGED <<signVars, instVars>>

ZkStep(p) ==
  /\ Active(p) /\ run[p].step = "setup"
  /\ SetupStep(p)
  /\ run' = IF faults' = faults THEN run ELSE Disturbed
  /\ UNCHANGED <<signVars, instVars>>

(* run_governance_zk and run_entity_zk look again for the files; a run with *)
(* attestation does not. Only the former come before the first-run setup.    *)
Rechecks(p) == run[p].command = "bootstrap" /\ "policy" \in Range(run[p].stages)

ZkReturn(p) ==
  /\ Active(p) /\ run[p].step = "setup"
  /\ Returns(p) \/ setup[p].pc = "raised"
  /\ IF setup[p].pc # "raised" /\ (Rechecks(p) => Ready(setup[p].suite))
     THEN Advance(p) ELSE Fail(p)
  /\ setup' = [setup EXCEPT ![p] = Idle]
  /\ UNCHANGED <<keys, manifest, setups, faults, crossed, signVars, instVars>>

(* ensure_capability_policy.                                                *)
PolicyStep(p) ==
  /\ At(p, "policy") /\ SignStep(p)
  /\ IF SignEnds(p) THEN Advance(p) ELSE UNCHANGED run
  /\ UNCHANGED <<zkVars, instVars>>

(* APXVRuntime loads and verifies the policy once, for its whole life.      *)
LoadRuntime(p) ==
  /\ At(p, "load")
  /\ run' = [run EXCEPT ![p].stages = Tail(@), ![p].trusted = PolicyTrusted]
  /\ UNCHANGED <<zkVars, signVars, instVars>>

-----------------------------------------------------------------------------
(* sovereign_check.verify_sovereign_setup.                                  *)
OnDisk == [c \in Circuits |-> keys[c].vk]
AnyKey == \E c \in Circuits : OnDisk[c] # 0
KeysReady == \A s \in Suites : Ready(s)
VendorKeys == \E c \in Circuits : IsVendor(keys[c])

SovereignOk(provenance) ==
  \/ ~AnyKey
  \/ /\ ~VendorKeys /\ KeysReady
     /\ IF install.state = "absent"
        THEN ~provenance
        ELSE install.sovereign /\ install.vk = OnDisk

(* verify_integrity of the runtime the command loaded; the audit logs, the  *)
(* store and the approvals are the subject of Records and Governance.       *)
Healthy(p) == install.state # "torn" /\ run[p].trusted /\ SovereignOk(FALSE)

CheckHealth(p) ==
  /\ At(p, "health")
  /\ IF Healthy(p) /\ KeysReady THEN Advance(p) ELSE Fail(p)
  /\ UNCHANGED <<zkVars, signVars, instVars>>

(* build_install_json and write_install_json, in three steps.               *)
InstallCollect(p) ==
  /\ At(p, "install") /\ run[p].step = ""
  /\ IF KeysReady
     THEN run' = [run EXCEPT ![p].step = "truncate",
                    ![p].doc = [state |-> "written", sovereign |-> TRUE, vk |-> OnDisk]]
     ELSE Fail(p)
  /\ UNCHANGED <<zkVars, signVars, instVars>>

(* _update_install_json_integrations reads the record and writes it back    *)
(* with other entries for the integrations.                                 *)
IntegrationsRead(p) ==
  /\ At(p, "integrations") /\ run[p].step = ""
  /\ CASE install.state = "absent" -> Advance(p)
       [] install.state = "torn" -> Fail(p)
       [] OTHER -> run' = [run EXCEPT ![p].step = "truncate", ![p].doc = install]
  /\ UNCHANGED <<zkVars, signVars, instVars>>

InstallTruncate(p) ==
  /\ Active(p) /\ run[p].step = "truncate"
  /\ install' = [NoInstall EXCEPT !.state = "torn"]
  /\ run' = [run EXCEPT ![p].step = "write"]
  /\ UNCHANGED <<zkVars, signVars, transcript, commands>>

InstallWrite(p) ==
  /\ Active(p) /\ run[p].step = "write"
  /\ install' = run[p].doc
  /\ Advance(p)
  /\ UNCHANGED <<zkVars, signVars, transcript, commands>>

-----------------------------------------------------------------------------
(* ceremony_transcript --write: both manifests, signed if a key is there.   *)
WriteTranscript(p) ==
  /\ At(p, "transcript")
  /\ IF \E s \in Suites : ~Readable(s)
     THEN Fail(p) /\ UNCHANGED transcript
     ELSE /\ transcript' = [exists |-> TRUE, signed |-> IF HasPair THEN signing.key ELSE 0,
                            doc |-> manifest]
          /\ Advance(p)
  /\ UNCHANGED <<zkVars, signVars, install, commands>>

TranscriptMatches == transcript.doc = manifest
TranscriptValid ==
  transcript.exists => /\ TranscriptMatches
                       /\ transcript.signed # 0 => transcript.signed = signing.config

(* apxv_doctor.run_doctor.                                                  *)
Doctor == /\ KeysReady
          /\ install.state # "torn" /\ SovereignOk(TRUE)
          /\ PolicyTrusted
          /\ TranscriptValid

(* run_smoke: the doctor, a run with attestation, which sets up or rebuilds  *)
(* both suites, and its verification against the manifests.                 *)
DoctorIgnored(p) ==
  /\ At(p, "doctor") /\ Advance(p)
  /\ UNCHANGED <<zkVars, signVars, instVars>>

SmokeDoctor(p) ==
  /\ At(p, "doctor")
  /\ IF Doctor THEN Advance(p) ELSE Fail(p)
  /\ UNCHANGED <<zkVars, signVars, instVars>>

SmokeVerify(p) ==
  /\ At(p, "verify")
  /\ IF \A c \in Circuits : Provable(c) THEN Advance(p) ELSE Fail(p)
  /\ UNCHANGED <<zkVars, signVars, instVars>>

-----------------------------------------------------------------------------
Die(p) ==
  /\ Active(p) /\ faults < MaxFaults
  /\ faults' = faults + 1
  /\ run' = [run EXCEPT ![p] = NoRun]
  /\ setup' = [setup EXCEPT ![p] = Idle]
  /\ sign' = [sign EXCEPT ![p] = NotSigning]
  /\ UNCHANGED <<keys, manifest, setups, crossed, signing, policy, pairs,
                 install, transcript, commands>>

Lose(c) ==
  /\ LoseKey(c)
  /\ run' = Disturbed
  /\ UNCHANGED <<signVars, instVars>>

Next ==
  \/ \E p \in Procs :
       \/ \E c \in DOMAIN Plan : Start(p, c)
       \/ \E s \in Suites : ZkBegin(p, s)
       \/ ZkStep(p) \/ ZkReturn(p)
       \/ PolicyStep(p) \/ LoadRuntime(p)
       \/ CheckHealth(p) \/ InstallCollect(p) \/ IntegrationsRead(p)
       \/ InstallTruncate(p) \/ InstallWrite(p) \/ WriteTranscript(p)
       \/ SmokeDoctor(p) \/ SmokeVerify(p) \/ Die(p)
  \/ \E c \in Circuits : Lose(c)

Spec == Init /\ [][Next]_vars

-----------------------------------------------------------------------------
TypeOK ==
  /\ ZkTypeOK
  /\ signing \in [key : Nat, config : Nat] /\ policy \in Nat
  /\ \A p \in Procs : sign[p].pc \in {"policy", "key", "config", "sign"}
  /\ install.state \in {"absent", "torn", "written"}
  /\ install.vk \in [Circuits -> Nat]
  /\ \A p \in Procs :
       /\ run[p].command = "none" \/ Runs(p, run[p].command)
       /\ Active(p) => IsSuffix(run[p].stages, Plan[run[p].command])
       /\ run[p].end \in {"none", "ok", "failed"}

(* A complete key pair is replaced only where an operator forced it, or     *)
(* where two processes found it missing together: proofs made before stay   *)
(* verifiable (setup_zk.py:5, "reused for every subsequent proof").         *)
KeysKept ==
  [][\A c \in Circuits :
       Complete(c) /\ keys[c].pk = keys[c].vk /\ keys'[c] # keys[c] =>
         \/ faults' # faults \/ crossed
         \/ \E p \in Procs : setup[p].force /\ run'[p] = run[p] /\ setup'[p] # setup[p]
    ]_vars

(* After whatever crashes and losses, a bootstrap that runs alone and       *)
(* reports success leaves an instance the doctor finds healthy and every    *)
(* circuit of which proves (orchestrator.py:175).                           *)
SuccessIsHealthy ==
  \A p \in Procs :
    run[p].end = "ok" /\ run[p].alone /\ run[p].command = "bootstrap" =>
      Doctor /\ \A c \in Circuits : Provable(c)

(* A command that ran alone and failed met one of the residues that no      *)
(* later run removes; every other state a crash leaves is repaired.         *)
Stuck ==
  \/ install.state = "torn" \/ \E s \in Suites : manifest[s].torn
  \/ VendorKeys
  \/ install.state = "written" /\ install.vk # OnDisk
  \/ HasPair /\ signing.key # signing.config
  \/ ~TranscriptValid
  \/ \E c \in Circuits : \/ Complete(c) /\ keys[c].pk # keys[c].vk
                        \/ manifest[SuiteOf(c)].entry[c] = Absent

FailureExplained ==
  \A p \in Procs : run[p].end = "failed" /\ run[p].alone => Stuck

(* Between key setups the manifests record the keys that are on disk, as    *)
(* long as no fault interrupted one and no two met (zk_manifest.py:54).     *)
ManifestsCurrent ==
  faults = 0 /\ ~crossed =>
    \A c \in Circuits :
      Complete(c) /\ (\A p \in Procs : ~Busy(p) \/ setup[p].suite # SuiteOf(c)) =>
        manifest[SuiteOf(c)].entry[c] = keys[c]

(* A ceremony transcript that records the keys on disk stays valid whatever *)
(* runs: only new keys make it drift (ceremony_transcript.py:107).          *)
TranscriptStands ==
  transcript.exists /\ ~crossed
    /\ (\A c \in Circuits : Complete(c) /\ transcript.doc[SuiteOf(c)].entry[c] = keys[c])
    /\ (\A s \in Suites : ~manifest[s].torn)
    => TranscriptMatches
=============================================================================
