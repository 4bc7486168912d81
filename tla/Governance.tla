----------------------------- MODULE Governance -----------------------------
(***************************************************************************)
(* Controlled change of the specifications that agents obey: the propose,   *)
(* approve, apply workflow of src/agents/governance_approval.py, the pack   *)
(* profile that a pipeline step swaps in (src/agents/pipeline_profile.py)   *)
(* and the agents' gated reads (src/agents/artifact_provider.py).           *)
(*                                                                          *)
(* Request threads, pipeline steps and agents share the spec files under    *)
(* managed/ and two tables, and no lock covers more than one of them: a     *)
(* file is truncated and then written, and each SQL statement is a          *)
(* transaction of its own.  The audit events and the list of registered     *)
(* versions, written after the fact and read by none of this, are left out. *)
(*                                                                          *)
(* A content is compared by its hash only, so it is an opaque value.  The   *)
(* signature of an approval is the fact that an approver's key signed the   *)
(* proposal's content; the key pair is taken to exist.                      *)
(***************************************************************************)
EXTENDS Naturals

CONSTANTS Types,       \* spec types (rule, workflow, knowledge), in that order
          Contents,    \* contents a spec file can hold
          Original,    \* the content shipped for every type
          Pack,        \* the content a pack ships for its types
          PackTypes,   \* the types the pack has a governance file for
          Proposals,   \* proposal ids
          Operators,   \* requests that propose, approve, reject or apply
          Profiles,    \* pipeline steps that run under a pack profile
          Agents,      \* agents that load the specs
          Torn,        \* what a file holds between its truncation and its write
          MaxCrashes   \* bound: crashes of the process

ASSUME GovernanceAssumption ==
  /\ Types \subseteq 1 .. 3 /\ Types # {}
  /\ PackTypes \subseteq Types /\ PackTypes # {}
  /\ Proposals # {}
  /\ Proposals \cap {"none", "bootstrap", "profile"} = {}
  /\ {Original, Pack} \subseteq Contents
  /\ Torn \notin Contents
  /\ MaxCrashes \in Nat

VARIABLES file,      \* the managed spec files
          baseline,  \* governance_active_approval
          proposal,  \* governance_proposals
          operator, profile, agent,   \* local variables of the threads
          crashes,
          (* History variables, read by the properties only.              *)
          approved,   \* proposals an approval was stored for
          rejected,   \* proposals a rejection was stored for
          overlapped, \* a thread began while another was at work
          cut         \* a crash ended a profile

stores == <<file, baseline, proposal>>
history == <<approved, rejected, overlapped, cut>>
vars == <<stores, operator, profile, agent, crashes, history>>

Data == Contents \cup {Torn}

Origin == Proposals \cup {"none", "bootstrap", "profile"}

Baseline == [content: Data, by: Origin]

NoBaseline == [content |-> Torn, by |-> "none"]

ProposalRow == [status: {"absent", "proposed", "approved", "rejected", "applied"},
                type: Types, content: Contents, signed: BOOLEAN]

OperatorState ==
  [pc: {"idle", "approving", "rejecting", "opening", "writing", "baselining",
        "marking"},
   id: Proposals]

IdleOperator == [pc |-> "idle", id |-> CHOOSE p \in Proposals : TRUE]

ProfileState ==
  [pc: {"idle", "files", "baselines", "copying", "copied", "aligning",
        "inside", "restoring", "restored", "rebasing"},
   todo: SUBSET Types, files: [Types -> Data], baselines: [Types -> Baseline]]

IdleProfile == [pc |-> "idle", todo |-> {}, files |-> [t \in Types |-> Torn],
                baselines |-> [t \in Types |-> NoBaseline]]

AgentState ==
  [pc: {"idle", "baseline", "verify", "read", "loaded"},
   want: SUBSET Types, todo: SUBSET Types, seen: Data, got: [Types -> Data]]

IdleAgent == [pc |-> "idle", want |-> {}, todo |-> {}, seen |-> Torn,
              got |-> [t \in Types |-> Torn]]

(* The loops visit the types in order.                                      *)
First(todo) == CHOOSE t \in todo : \A u \in todo : t <= u

Rest(todo) == todo \ {First(todo)}

-----------------------------------------------------------------------------
(* Mutant: the bootstrap record gets a name of its own.                      *)
BootstrappedAsBoot(base, files) ==
  [t \in Types |-> IF base[t] = NoBaseline
                   THEN [content |-> files[t], by |-> "boot"]
                   ELSE base[t]]

(* bootstrap_active_specs_if_needed: a type without a baseline gets the one *)
(* of its file.                                                             *)
Bootstrapped(base, files) ==
  [t \in Types |-> IF base[t] = NoBaseline
                   THEN [content |-> files[t], by |-> "bootstrap"]
                   ELSE base[t]]

Init == /\ file = [t \in Types |-> Original]
        /\ baseline = Bootstrapped([t \in Types |-> NoBaseline], file)
        /\ proposal = [p \in Proposals |->
                         [status |-> "absent", type |-> CHOOSE t \in Types : TRUE,
                          content |-> Original, signed |-> FALSE]]
        /\ operator = [o \in Operators |-> IdleOperator]
        /\ profile = [f \in Profiles |-> IdleProfile]
        /\ agent = [a \in Agents |-> IdleAgent]
        /\ crashes = 0
        /\ approved = {}
        /\ rejected = {}
        /\ overlapped = FALSE
        /\ cut = FALSE

(* A step inside its profile is at rest: it holds no half-done write, and   *)
(* the agents it runs load their specs then.                                *)
Writing == \/ \E o \in Operators : operator[o].pc # "idle"
           \/ \E f \in Profiles : profile[f].pc \notin {"idle", "inside"}

Loading == \E a \in Agents : agent[a].pc # "idle"

Swapped == \E f \in Profiles : profile[f].pc = "inside"

(* An operator or a profile begins: anything under way overlaps with it.    *)
Begin == overlapped' = (overlapped \/ Writing \/ Loading \/ Swapped)

-----------------------------------------------------------------------------
(* Requests.  propose_change: the content must differ from the file's; the  *)
(* content file and the row appear under an id nobody else has.             *)
Propose(o, p, t, c) ==
  /\ operator[o].pc = "idle"
  /\ proposal[p].status = "absent"
  /\ file[t] # c
  /\ proposal' = [proposal EXCEPT ![p] = [status |-> "proposed", type |-> t,
                                          content |-> c, signed |-> FALSE]]
  /\ Begin
  /\ UNCHANGED <<file, baseline, operator, profile, agent, crashes,
                 approved, rejected, cut>>

(* Each action of an operator first reads the row and checks its status.    *)
MayDecideAgain(p) == proposal[p].status \in {"proposed", "rejected"}      \* mutant

MayDecide(p) == proposal[p].status = "proposed"

MayApplyUnapproved(p) == proposal[p].status \in {"proposed", "approved"}  \* mutant

(* apply_proposal: the status, the signature and the signed content.        *)
MayApply(p) == proposal[p].status = "approved" /\ proposal[p].signed

Read(o, p, pc, guard) ==
  /\ operator[o].pc = "idle"
  /\ guard
  /\ operator' = [operator EXCEPT ![o] = [IdleOperator EXCEPT !.pc = pc, !.id = p]]
  /\ Begin
  /\ UNCHANGED <<stores, profile, agent, crashes, approved, rejected, cut>>

ReadToApprove(o, p) == Read(o, p, "approving", MayDecide(p))
ReadToReject(o, p) == Read(o, p, "rejecting", MayDecide(p))
ReadToApply(o, p) == Read(o, p, "opening", MayApply(p))

(* The UPDATEs look at no status.                                           *)
Approve(o) ==
  LET p == operator[o].id IN
  /\ operator[o].pc = "approving"
  /\ proposal' = [proposal EXCEPT ![p].status = "approved", ![p].signed = TRUE]
  /\ operator' = [operator EXCEPT ![o] = IdleOperator]
  /\ approved' = approved \cup {p}
  /\ UNCHANGED <<file, baseline, profile, agent, crashes,
                 rejected, overlapped, cut>>

Reject(o) ==
  LET p == operator[o].id IN
  /\ operator[o].pc = "rejecting"
  /\ proposal' = [proposal EXCEPT ![p].status = "rejected"]
  /\ operator' = [operator EXCEPT ![o] = IdleOperator]
  /\ rejected' = rejected \cup {p}
  /\ UNCHANGED <<file, baseline, profile, agent, crashes,
                 approved, overlapped, cut>>

(* write_text truncates the file, then writes it.                           *)
ApplyOpen(o) ==
  /\ operator[o].pc = "opening"
  /\ file' = [file EXCEPT ![proposal[operator[o].id].type] = Torn]
  /\ operator' = [operator EXCEPT ![o].pc = "writing"]
  /\ UNCHANGED <<baseline, proposal, profile, agent, crashes,
                 history>>

ApplyWrite(o) ==
  LET row == proposal[operator[o].id] IN
  /\ operator[o].pc = "writing"
  /\ file' = [file EXCEPT ![row.type] = row.content]
  /\ operator' = [operator EXCEPT ![o].pc = "baselining"]
  /\ UNCHANGED <<baseline, proposal, profile, agent, crashes,
                 history>>

ApplyBaseline(o) ==
  LET row == proposal[operator[o].id] IN
  /\ operator[o].pc = "baselining"
  /\ baseline' = [baseline EXCEPT ![row.type] =
                    [content |-> row.content, by |-> operator[o].id]]
  /\ operator' = [operator EXCEPT ![o].pc = "marking"]
  /\ UNCHANGED <<file, proposal, profile, agent, crashes, history>>

ApplyMark(o) ==
  /\ operator[o].pc = "marking"
  /\ proposal' = [proposal EXCEPT ![operator[o].id].status = "applied"]
  /\ operator' = [operator EXCEPT ![o] = IdleOperator]
  /\ UNCHANGED <<file, baseline, profile, agent, crashes, history>>

-----------------------------------------------------------------------------
(* pack_profile_context, one type after the other in each of its loops.     *)
ProfileStart(f) ==
  /\ profile[f].pc = "idle"
  /\ profile' = [profile EXCEPT ![f] = [IdleProfile EXCEPT !.pc = "files",
                                                           !.todo = Types]]
  /\ Begin
  /\ UNCHANGED <<stores, operator, agent, crashes, approved, rejected, cut>>

(* The next type of the loop, or the next loop when this was the last one.  *)
Advance(s, next, types) ==
  IF Rest(s.todo) = {} THEN [s EXCEPT !.pc = next, !.todo = types]
                       ELSE [s EXCEPT !.todo = Rest(@)]

SnapshotFile(f) ==
  LET s == profile[f]  t == First(s.todo) IN
  /\ s.pc = "files"
  /\ profile' = [profile EXCEPT ![f] =
       Advance([s EXCEPT !.files[t] = file[t]], "baselines", Types)]
  /\ UNCHANGED <<stores, operator, agent, crashes, history>>

SnapshotBaseline(f) ==
  LET s == profile[f]  t == First(s.todo) IN
  /\ s.pc = "baselines"
  /\ profile' = [profile EXCEPT ![f] =
       Advance([s EXCEPT !.baselines[t] = baseline[t]], "copying", PackTypes)]
  /\ UNCHANGED <<stores, operator, agent, crashes, history>>

CopyOpen(f) ==
  LET s == profile[f] IN
  /\ s.pc = "copying"
  /\ file' = [file EXCEPT ![First(s.todo)] = Torn]
  /\ profile' = [profile EXCEPT ![f].pc = "copied"]
  /\ UNCHANGED <<baseline, proposal, operator, agent, crashes,
                 history>>

CopyWrite(f) ==
  LET s == profile[f] IN
  /\ s.pc = "copied"
  /\ file' = [file EXCEPT ![First(s.todo)] = Pack]
  /\ profile' = [profile EXCEPT ![f] =
       Advance([s EXCEPT !.pc = "copying"], "aligning", Types)]
  /\ UNCHANGED <<baseline, proposal, operator, agent, crashes,
                 history>>

(* A governance file of the pack is missing: the finally block runs.        *)
CopyFails(f) ==
  /\ profile[f].pc = "copying"
  /\ profile' = [profile EXCEPT ![f].pc = "restoring", ![f].todo = Types]
  /\ UNCHANGED <<stores, operator, agent, crashes, history>>

(* Every type is re-baselined to its file, whether the pack has it or not.  *)
Align(f) ==
  LET s == profile[f]  t == First(s.todo) IN
  /\ s.pc = "aligning"
  /\ baseline' = [baseline EXCEPT ![t] = [content |-> file[t], by |-> "profile"]]
  /\ profile' = [profile EXCEPT ![f] = Advance(s, "inside", Types)]
  /\ UNCHANGED <<file, proposal, operator, agent, crashes, history>>

(* The step ends, by returning or by raising.                               *)
Leave(f) ==
  /\ profile[f].pc = "inside"
  /\ profile' = [profile EXCEPT ![f].pc = "restoring", ![f].todo = Types]
  /\ overlapped' = (overlapped \/ Writing \/ Loading)
  /\ UNCHANGED <<stores, operator, agent, crashes, approved, rejected, cut>>

RestoreOpen(f) ==
  LET s == profile[f] IN
  /\ s.pc = "restoring"
  /\ file' = [file EXCEPT ![First(s.todo)] = Torn]
  /\ profile' = [profile EXCEPT ![f].pc = "restored"]
  /\ UNCHANGED <<baseline, proposal, operator, agent, crashes,
                 history>>

RestoreWrite(f) ==
  LET s == profile[f]  t == First(s.todo) IN
  /\ s.pc = "restored"
  /\ file' = [file EXCEPT ![t] = s.files[t]]
  /\ profile' = [profile EXCEPT ![f] =
       Advance([s EXCEPT !.pc = "restoring"], "rebasing", Types)]
  /\ UNCHANGED <<baseline, proposal, operator, agent, crashes,
                 history>>

(* Mutant: the baselines are left as the step set them.                     *)
KeptBaseline(old, base, t) == base

RestoredBaseline(old, base, t) == [base EXCEPT ![t] = old[t]]

RestoreBaseline(f) ==
  LET s == profile[f] IN
  /\ s.pc = "rebasing"
  /\ baseline' = RestoredBaseline(s.baselines, baseline, First(s.todo))
  /\ profile' = [profile EXCEPT ![f] =
       IF Rest(s.todo) = {} THEN IdleProfile ELSE Advance(s, "rebasing", {})]
  /\ UNCHANGED <<file, proposal, operator, agent, crashes, history>>

-----------------------------------------------------------------------------
(* load_specifications: every read first verifies every type (the baseline, *)
(* then the file), then reads its own file.                                 *)
LoadStart(a) ==
  /\ agent[a].pc = "idle"
  /\ agent' = [agent EXCEPT ![a] = [IdleAgent EXCEPT !.pc = "baseline",
                                       !.want = Types, !.todo = Types]]
  /\ overlapped' = (overlapped \/ Writing)
  /\ UNCHANGED <<stores, operator, profile, crashes, approved, rejected, cut>>

VerifyBaseline(a) ==
  LET s == agent[a] IN
  /\ s.pc = "baseline"
  /\ agent' = [agent EXCEPT ![a] = [s EXCEPT !.pc = "verify",
                                             !.seen = baseline[First(s.todo)].content]]
  /\ UNCHANGED <<stores, operator, profile, crashes, history>>

(* Mutant: the hashes are not compared.                                     *)
MatchesAnything(a) == TRUE

Matches(a) == file[First(agent[a].todo)] = agent[a].seen

(* A mismatch raises: the load ends and nothing is done with it.            *)
VerifyFile(a) ==
  LET s == agent[a] IN
  /\ s.pc = "verify"
  /\ agent' = [agent EXCEPT ![a] =
       IF ~Matches(a) THEN IdleAgent
       ELSE IF Rest(s.todo) = {} THEN [s EXCEPT !.pc = "read", !.todo = {}]
       ELSE [s EXCEPT !.pc = "baseline", !.todo = Rest(@)]]
  /\ UNCHANGED <<stores, operator, profile, crashes, history>>

ReadSpec(a) ==
  LET s == agent[a]
      t == First(s.want)
      r == [s EXCEPT !.got[t] = file[t], !.want = Rest(@), !.todo = Types] IN
  /\ s.pc = "read"
  /\ agent' = [agent EXCEPT ![a] =
       IF r.want = {} THEN [r EXCEPT !.pc = "loaded"]
                      ELSE [r EXCEPT !.pc = "baseline"]]
  /\ UNCHANGED <<stores, operator, profile, crashes, history>>

(* The agent has done its work with what it loaded.                         *)
LoadEnd(a) ==
  /\ agent[a].pc = "loaded"
  /\ agent' = [agent EXCEPT ![a] = IdleAgent]
  /\ UNCHANGED <<stores, operator, profile, crashes, history>>

-----------------------------------------------------------------------------
(* The process ends and starts again: files and tables are as they were.    *)
Crash ==
  /\ crashes < MaxCrashes
  /\ crashes' = crashes + 1
  /\ baseline' = Bootstrapped(baseline, file)
  /\ operator' = [o \in Operators |-> IdleOperator]
  /\ profile' = [f \in Profiles |-> IdleProfile]
  /\ agent' = [a \in Agents |-> IdleAgent]
  /\ cut' = (cut \/ \E f \in Profiles : profile[f].pc # "idle")
  /\ UNCHANGED <<file, proposal, approved, rejected, overlapped>>

OperatorStep(o) ==
  \/ \E p \in Proposals, t \in Types, c \in Contents : Propose(o, p, t, c)
  \/ \E p \in Proposals : ReadToApprove(o, p) \/ ReadToReject(o, p) \/ ReadToApply(o, p)
  \/ Approve(o) \/ Reject(o)
  \/ ApplyOpen(o) \/ ApplyWrite(o) \/ ApplyBaseline(o) \/ ApplyMark(o)

ProfileStep(f) ==
  \/ ProfileStart(f) \/ SnapshotFile(f) \/ SnapshotBaseline(f)
  \/ CopyOpen(f) \/ CopyWrite(f) \/ CopyFails(f) \/ Align(f) \/ Leave(f)
  \/ RestoreOpen(f) \/ RestoreWrite(f) \/ RestoreBaseline(f)

AgentStep(a) == \/ LoadStart(a) \/ VerifyBaseline(a) \/ VerifyFile(a)
                \/ ReadSpec(a) \/ LoadEnd(a)

Next == \/ \E o \in Operators : OperatorStep(o)
        \/ \E f \in Profiles : ProfileStep(f)
        \/ \E a \in Agents : AgentStep(a)
        \/ Crash

Spec == Init /\ [][Next]_vars

-----------------------------------------------------------------------------
TypeOK == /\ file \in [Types -> Data]
          /\ baseline \in [Types -> Baseline]
          /\ proposal \in [Proposals -> ProposalRow]
          /\ operator \in [Operators -> OperatorState]
          /\ profile \in [Profiles -> ProfileState]
          /\ agent \in [Agents -> AgentState]
          /\ crashes \in 0 .. MaxCrashes
          /\ approved \subseteq Proposals
          /\ rejected \subseteq Proposals
          /\ overlapped \in BOOLEAN
          /\ cut \in BOOLEAN

(* A baseline that names a proposal carries the content of that proposal,   *)
(* for its type, and an approval of it was stored: under any race of        *)
(* operators, profiles that save and restore baselines, and crashes.        *)
BaselineIsApproved ==
  \A t \in Types :
    LET p == baseline[t].by IN
    p \in Proposals => /\ p \in approved
                       /\ proposal[p].type = t
                       /\ proposal[p].content = baseline[t].content

Governed(t) == {Original, Torn} \cup (IF t \in PackTypes THEN {Pack} ELSE {})
                 \cup {proposal[p].content :
                         p \in {q \in approved : proposal[q].type = t}}

(* A whole spec file holds the shipped content, the pack's or an approved   *)
(* one, whatever restores it when (apply_proposal, pack_profile_context).   *)
FileIsGoverned == \A t \in Types : file[t] \in Governed(t)

AtRest == ~Writing /\ ~Swapped

(* Operations that never overlap are crash-safe: at rest the pack's         *)
(* governance is gone and each file is the one of its baseline, or else a   *)
(* crash cut an apply short and its proposal can be applied again.          *)
SequentialIsSafe ==
  AtRest /\ ~overlapped /\ ~cut =>
    \A t \in Types :
      /\ baseline[t].by # "profile"
      /\ \/ file[t] = baseline[t].content
         \/ \E p \in Proposals : /\ proposal[p].type = t
                                 /\ MayApply(p)
                                 /\ file[t] \in {Torn, proposal[p].content}

(* While operations do not overlap, what an agent loaded is what the        *)
(* baselines approve: a file a crash left half-written never reaches it     *)
(* (require_approved_specs in read_specification).                          *)
LoadsAreApproved ==
  ~overlapped => \A a \in Agents : agent[a].pc # "idle" =>
                   \A t \in Types \ agent[a].want :
                     agent[a].got[t] = baseline[t].content

(* A decision is final while operations do not overlap: a rejected proposal *)
(* is never approved and never in force.                                    *)
RejectionIsFinal ==
  ~overlapped => \A p \in rejected :
                   /\ p \notin approved
                   /\ \A t \in Types : baseline[t].by # p

-----------------------------------------------------------------------------
(* "must be approved" (tests/test_governance_approval.py:75-76): applying   *)
(* a rejected proposal is refused, so none is ever in force.                *)
RejectedNotInForce ==
  \A p \in rejected : \A t \in Types : baseline[t].by # p
=============================================================================
