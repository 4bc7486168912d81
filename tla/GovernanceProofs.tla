-------------------------- MODULE GovernanceProofs --------------------------
(***************************************************************************)
(* Proofs about Governance, for every set of spec types, contents,          *)
(* proposals, requests, pipeline steps and agents and any number of         *)
(* crashes.  The second part is about operations that do not overlap: a     *)
(* rejection is final, agents load what the baselines approve, and whatever *)
(* a crash cut short can be done again.                                     *)
(***************************************************************************)
EXTENDS Governance, TLAPS

USE GovernanceAssumption

-----------------------------------------------------------------------------
(* The loops over the types: the next type is one of those that are left.   *)
LEMMA FirstIsIn ==
  ASSUME NEW S \in SUBSET Types, S # {}
  PROVE  First(S) \in S
  <1>1. \E t \in S : \A u \in S : t <= u
    <2>1. S \subseteq 1 .. 3
      OBVIOUS
    <2>2. CASE 1 \in S
      BY <2>1, <2>2
    <2>3. CASE 1 \notin S /\ 2 \in S
      BY <2>1, <2>3
    <2>4. CASE 1 \notin S /\ 2 \notin S
      <3>1. \A u \in S : u = 3
        BY <2>1, <2>4
      <3>2. PICK t \in S : TRUE
        OBVIOUS
      <3>3. \A u \in S : t <= u
        BY <3>1
      <3> QED
        BY <3>3
    <2> QED
      BY <2>2, <2>3, <2>4
  <1> QED
    BY <1>1 DEF First

LEMMA AdvanceTyped ==
  ASSUME NEW s \in ProfileState, s.todo # {},
         NEW next \in {"baselines", "copying", "aligning", "inside", "rebasing"},
         NEW types \in SUBSET Types
  PROVE  LET r == Advance(s, next, types) IN
         /\ r \in ProfileState
         /\ r.files = s.files
         /\ r.baselines = s.baselines
         /\ \/ r.pc = next /\ r.todo = types
            \/ r.pc = s.pc /\ r.todo # {} /\ r.todo \subseteq s.todo
  BY DEF Advance, Rest, ProfileState

(* A thread in a loop has a type left to visit, and a profile copies only   *)
(* the types of its pack.                                                   *)
LoopsHaveWork ==
  /\ \A f \in Profiles :
       /\ profile[f].pc \notin {"idle", "inside"} => profile[f].todo # {}
       /\ profile[f].pc \in {"copying", "copied"} => profile[f].todo \subseteq PackTypes
  /\ \A a \in Agents :
       /\ agent[a].pc \in {"baseline", "verify"} => agent[a].todo # {}
       /\ agent[a].pc \in {"baseline", "verify", "read"} => agent[a].want # {}

Typed == TypeOK /\ LoopsHaveWork

LEMMA IdleStates ==
  /\ NoBaseline \in Baseline
  /\ IdleOperator \in OperatorState
  /\ IdleProfile \in ProfileState
  /\ IdleAgent \in AgentState
  <1>1. NoBaseline \in Baseline
    BY DEF NoBaseline, Baseline, Data, Origin
  <1>2. IdleOperator \in OperatorState
    BY DEF IdleOperator, OperatorState
  <1>3. IdleProfile \in ProfileState
    BY <1>1 DEF IdleProfile, ProfileState, Data
  <1>4. IdleAgent \in AgentState
    BY DEF IdleAgent, AgentState, Data
  <1> QED
    BY <1>1, <1>2, <1>3, <1>4

LEMMA BootstrappedTyped ==
  ASSUME NEW base \in [Types -> Baseline], NEW files \in [Types -> Data]
  PROVE  Bootstrapped(base, files) \in [Types -> Baseline]
  BY DEF Bootstrapped, Baseline, Origin

LEMMA InitTyped == Init => Typed
  <1> SUFFICES ASSUME Init PROVE Typed
    OBVIOUS
  <1>1. file \in [Types -> Data]
    BY DEF Init, Data
  <1>2. baseline \in [Types -> Baseline]
    BY <1>1, IdleStates, BootstrappedTyped DEF Init
  <1>3. proposal \in [Proposals -> ProposalRow]
    BY DEF Init, ProposalRow
  <1>4. TypeOK
    <2>1. /\ operator \in [Operators -> OperatorState]
          /\ profile \in [Profiles -> ProfileState]
          /\ agent \in [Agents -> AgentState]
      BY IdleStates DEF Init
    <2>2. /\ crashes \in 0 .. MaxCrashes
          /\ approved \subseteq Proposals /\ rejected \subseteq Proposals
      BY DEF Init
    <2>3. overlapped \in BOOLEAN /\ cut \in BOOLEAN
      BY Zenon DEF Init
    <2> QED
      BY <1>1, <1>2, <1>3, <2>1, <2>2, <2>3 DEF TypeOK
  <1>5. LoopsHaveWork
    BY DEF Init, LoopsHaveWork, IdleProfile, IdleAgent
  <1> QED
    BY <1>4, <1>5 DEF Typed

(* The parts that an operator's step leaves alone, and those a profile's    *)
(* or an agent's step does.                                                 *)
LEMMA OperatorTyped ==
  ASSUME Typed, NEW o \in Operators, OperatorStep(o)
  PROVE  Typed'
  <1> USE DEF Typed, TypeOK
  <1>1. operator[o] \in OperatorState /\ proposal[operator[o].id] \in ProposalRow
    BY DEF OperatorState
  <1>2. UNCHANGED <<profile, agent, crashes, cut>> /\ overlapped' \in BOOLEAN
    <2>1. UNCHANGED <<profile, agent, crashes, cut>>
      BY DEF OperatorStep, Propose, ReadToApprove, ReadToReject, ReadToApply,
             Read, Approve, Reject, ApplyOpen, ApplyWrite, ApplyBaseline,
             ApplyMark, history
    <2>2. Begin \/ overlapped' = overlapped
      BY DEF OperatorStep, Propose, ReadToApprove, ReadToReject, ReadToApply,
             Read, Approve, Reject, ApplyOpen, ApplyWrite, ApplyBaseline,
             ApplyMark, history
    <2>3. overlapped' \in BOOLEAN
      BY <2>2, Zenon DEF Begin
    <2> QED
      BY <2>1, <2>3
  <1>3. LoopsHaveWork'
    BY <1>2 DEF LoopsHaveWork
  <1>4. ASSUME NEW p \in Proposals, NEW t \in Types, NEW c \in Contents,
               Propose(o, p, t, c)
        PROVE  Typed'
    BY <1>2, <1>3, <1>4 DEF Propose, ProposalRow
  <1>5. ASSUME NEW p \in Proposals,
               ReadToApprove(o, p) \/ ReadToReject(o, p) \/ ReadToApply(o, p)
        PROVE  Typed'
    <2>1. operator' \in [Operators -> OperatorState]
      <3>1. \E pc \in {"approving", "rejecting", "opening"} :
              operator' = [operator EXCEPT ![o] =
                             [IdleOperator EXCEPT !.pc = pc, !.id = p]]
        BY <1>5, Zenon DEF ReadToApprove, ReadToReject, ReadToApply, Read
      <3>2. ASSUME NEW pc \in {"approving", "rejecting", "opening"}
            PROVE  [IdleOperator EXCEPT !.pc = pc, !.id = p] \in OperatorState
        BY IdleStates DEF OperatorState
      <3> QED
        BY <3>1, <3>2
    <2> QED
      BY <1>2, <1>3, <1>5, <2>1 DEF ReadToApprove, ReadToReject, ReadToApply, Read, stores
  <1>6. CASE Approve(o)
    <2>1. proposal' \in [Proposals -> ProposalRow]
      BY <1>1, <1>6 DEF Approve, OperatorState, ProposalRow
    <2>2. approved' \subseteq Proposals
      BY <1>1, <1>6 DEF Approve, OperatorState
    <2> QED
      BY <1>2, <1>3, <1>6, <2>1, <2>2, IdleStates DEF Approve
  <1>7. CASE Reject(o)
    <2>1. proposal' \in [Proposals -> ProposalRow]
      BY <1>1, <1>7 DEF Reject, OperatorState, ProposalRow
    <2>2. rejected' \subseteq Proposals
      BY <1>1, <1>7 DEF Reject, OperatorState
    <2> QED
      BY <1>2, <1>3, <1>7, <2>1, <2>2, IdleStates DEF Reject
  <1>8. CASE ApplyOpen(o)
    <2>1. file' \in [Types -> Data]
      BY <1>8 DEF ApplyOpen, Data
    <2>2. operator' \in [Operators -> OperatorState]
      BY <1>8 DEF ApplyOpen, OperatorState
    <2> QED
      BY <1>2, <1>3, <1>8, <2>1, <2>2 DEF ApplyOpen, history
  <1>9. CASE ApplyWrite(o)
    <2>1. file' \in [Types -> Data]
      BY <1>1, <1>9 DEF ApplyWrite, Data, ProposalRow
    <2>2. operator' \in [Operators -> OperatorState]
      BY <1>9 DEF ApplyWrite, OperatorState
    <2> QED
      BY <1>2, <1>3, <1>9, <2>1, <2>2 DEF ApplyWrite, history
  <1>10. CASE ApplyBaseline(o)
    <2>1. [content |-> proposal[operator[o].id].content, by |-> operator[o].id] \in Baseline
      BY <1>1 DEF Baseline, Data, Origin, ProposalRow, OperatorState
    <2>2. baseline' \in [Types -> Baseline]
      BY <1>10, <2>1 DEF ApplyBaseline
    <2>3. operator' \in [Operators -> OperatorState]
      BY <1>10 DEF ApplyBaseline, OperatorState
    <2> QED
      BY <1>2, <1>3, <1>10, <2>2, <2>3 DEF ApplyBaseline, history
  <1>11. CASE ApplyMark(o)
    <2>1. proposal' \in [Proposals -> ProposalRow]
      BY <1>1, <1>11 DEF ApplyMark, OperatorState, ProposalRow
    <2> QED
      BY <1>2, <1>3, <1>11, <2>1, IdleStates DEF ApplyMark, history
  <1> QED
    BY <1>4, <1>5, <1>6, <1>7, <1>8, <1>9, <1>10, <1>11 DEF OperatorStep

LEMMA ProfileTyped ==
  ASSUME Typed, NEW f \in Profiles, ProfileStep(f)
  PROVE  Typed'
  <1> USE DEF Typed, TypeOK
  <1> DEFINE s == profile[f]
             t == First(s.todo)
  <1>1. s \in ProfileState
    OBVIOUS
  <1>2. s.pc \notin {"idle", "inside"} => s.todo # {} /\ t \in s.todo /\ t \in Types
    BY <1>1, FirstIsIn DEF LoopsHaveWork, ProfileState
  <1>3. UNCHANGED <<proposal, operator, agent, crashes, approved, rejected, cut>>
    BY DEF ProfileStep, ProfileStart, SnapshotFile, SnapshotBaseline, CopyOpen,
           CopyWrite, CopyFails, Align, Leave, RestoreOpen, RestoreWrite,
           RestoreBaseline, stores, history
  <1>4. overlapped' \in BOOLEAN
    BY DEF ProfileStep, ProfileStart, SnapshotFile, SnapshotBaseline, CopyOpen,
           CopyWrite, CopyFails, Align, Leave, RestoreOpen, RestoreWrite,
           RestoreBaseline, Begin, history
  (* The new state of the profile.                                          *)
  <1>5. ASSUME NEW r \in ProfileState, profile' = [profile EXCEPT ![f] = r],
               r.pc \notin {"idle", "inside"} => r.todo # {},
               r.pc \in {"copying", "copied"} => r.todo \subseteq PackTypes
        PROVE  profile' \in [Profiles -> ProfileState] /\ LoopsHaveWork'
    <2>1. profile' \in [Profiles -> ProfileState]
      BY <1>5
    <2>2. LoopsHaveWork'
      BY <1>3, <1>5 DEF LoopsHaveWork
    <2> QED
      BY <2>1, <2>2
  <1>6. file' \in [Types -> Data]
    <2>1. CASE file' = file
      BY <2>1
    <2>2. CASE CopyOpen(f) \/ RestoreOpen(f)
      BY <2>2 DEF CopyOpen, RestoreOpen, Data
    <2>3. CASE CopyWrite(f)
      BY <2>3 DEF CopyWrite, Data
    <2>4. CASE RestoreWrite(f)
      <3>1. s.files[t] \in Data
        BY <1>1, <1>2, <2>4 DEF RestoreWrite, ProfileState
      <3> QED
        BY <2>4, <3>1 DEF RestoreWrite
    <2> QED
      BY <2>1, <2>2, <2>3, <2>4
         DEF ProfileStep, ProfileStart, SnapshotFile, SnapshotBaseline,
             CopyFails, Align, Leave, RestoreBaseline, stores
  <1>7. baseline' \in [Types -> Baseline]
    <2>1. CASE baseline' = baseline
      BY <2>1
    <2>2. CASE Align(f)
      <3>1. [content |-> file[t], by |-> "profile"] \in Baseline
        BY <1>2, <2>2 DEF Align, Baseline, Origin
      <3> QED
        BY <2>2, <3>1 DEF Align
    <2>3. CASE RestoreBaseline(f)
      <3>1. s.baselines[t] \in Baseline
        BY <1>1, <1>2, <2>3 DEF RestoreBaseline, ProfileState
      <3> QED
        BY <2>3, <3>1 DEF RestoreBaseline, RestoredBaseline
    <2> QED
      BY <2>1, <2>2, <2>3
         DEF ProfileStep, ProfileStart, SnapshotFile, SnapshotBaseline, CopyOpen,
             CopyWrite, CopyFails, Leave, RestoreOpen, RestoreWrite, stores
  <1>8. profile' \in [Profiles -> ProfileState] /\ LoopsHaveWork'
    <2>1. CASE ProfileStart(f)
      <3> DEFINE r == [IdleProfile EXCEPT !.pc = "files", !.todo = Types]
      <3>1. r \in ProfileState /\ r.pc = "files" /\ r.todo = Types
        BY IdleStates DEF ProfileState
      <3> QED
        BY <1>5, <2>1, <3>1 DEF ProfileStart
    <2>2. CASE SnapshotFile(f)
      <3> DEFINE q == [s EXCEPT !.files[t] = file[t]]
                 r == Advance(q, "baselines", Types)
      <3>1. q \in ProfileState /\ q.todo # {} /\ q.pc = "files"
        BY <1>1, <1>2, <2>2 DEF SnapshotFile, ProfileState
      <3>2. r \in ProfileState /\ r.pc \in {"files", "baselines"} /\ r.todo # {}
        <4> HIDE DEF q
        <4> QED
          BY <3>1, AdvanceTyped
      <3>3. profile' = [profile EXCEPT ![f] = r]
        BY <2>2 DEF SnapshotFile
      <3> HIDE DEF r
      <3> QED
        BY <1>5, <3>2, <3>3
    <2>3. CASE SnapshotBaseline(f)
      <3> DEFINE q == [s EXCEPT !.baselines[t] = baseline[t]]
                 r == Advance(q, "copying", PackTypes)
      <3>1. q \in ProfileState /\ q.todo # {} /\ q.pc = "baselines"
        BY <1>1, <1>2, <2>3 DEF SnapshotBaseline, ProfileState
      <3> HIDE DEF q
      <3>2. /\ r \in ProfileState /\ r.todo # {}
            /\ \/ r.pc = "baselines"
               \/ r.pc = "copying" /\ r.todo = PackTypes
        <4>1. PackTypes \in SUBSET Types /\ PackTypes # {}
          OBVIOUS
        <4> QED
          BY <3>1, <4>1, AdvanceTyped
      <3>3. profile' = [profile EXCEPT ![f] = r]
        BY <2>3 DEF SnapshotBaseline, q
      <3> HIDE DEF r
      <3> QED
        BY <1>5, <3>2, <3>3
    <2>4. CASE CopyOpen(f)
      <3> DEFINE r == [s EXCEPT !.pc = "copied"]
      <3>1. r \in ProfileState /\ r.pc = "copied" /\ r.todo = s.todo
        BY <1>1 DEF ProfileState
      <3>2. s.todo # {} /\ s.todo \subseteq PackTypes
        BY <1>2, <2>4 DEF CopyOpen, LoopsHaveWork
      <3>3. profile' = [profile EXCEPT ![f] = r]
        BY <2>4 DEF CopyOpen
      <3> HIDE DEF r
      <3> QED
        BY <1>5, <3>1, <3>2, <3>3
    <2>5. CASE CopyWrite(f)
      <3> DEFINE q == [s EXCEPT !.pc = "copying"]
                 r == Advance(q, "aligning", Types)
      <3>1. q \in ProfileState /\ q.todo = s.todo /\ q.pc = "copying"
        BY <1>1 DEF ProfileState
      <3>2. s.todo # {} /\ s.todo \subseteq PackTypes
        BY <1>2, <2>5 DEF CopyWrite, LoopsHaveWork
      <3>3. /\ r \in ProfileState /\ r.todo # {}
            /\ \/ r.pc = "aligning"
               \/ r.pc = "copying" /\ r.todo \subseteq PackTypes
        <4> HIDE DEF q
        <4> QED
          BY <3>1, <3>2, AdvanceTyped
      <3>4. profile' = [profile EXCEPT ![f] = r]
        BY <2>5 DEF CopyWrite
      <3> HIDE DEF r
      <3> QED
        BY <1>5, <3>3, <3>4
    <2>6. CASE CopyFails(f) \/ Leave(f)
      <3> DEFINE r == [s EXCEPT !.pc = "restoring", !.todo = Types]
      <3>1. r \in ProfileState /\ r.pc = "restoring" /\ r.todo = Types
        BY <1>1 DEF ProfileState
      <3>2. profile' = [profile EXCEPT ![f] = r]
        BY <2>6 DEF CopyFails, Leave
      <3> HIDE DEF r
      <3> QED
        BY <1>5, <3>1, <3>2
    <2>7. CASE Align(f)
      <3> DEFINE r == Advance(s, "inside", Types)
      <3>1. r \in ProfileState /\ r.pc \in {"aligning", "inside"} /\ r.todo # {}
        BY <1>1, <1>2, <2>7, AdvanceTyped DEF Align
      <3>2. profile' = [profile EXCEPT ![f] = r]
        BY <2>7 DEF Align
      <3> HIDE DEF r
      <3> QED
        BY <1>5, <3>1, <3>2
    <2>8. CASE RestoreOpen(f)
      <3> DEFINE r == [s EXCEPT !.pc = "restored"]
      <3>1. r \in ProfileState /\ r.pc = "restored" /\ r.todo = s.todo
        BY <1>1 DEF ProfileState
      <3>2. profile' = [profile EXCEPT ![f] = r] /\ s.todo # {}
        BY <1>2, <2>8 DEF RestoreOpen
      <3> HIDE DEF r
      <3> QED
        BY <1>5, <3>1, <3>2
    <2>9. CASE RestoreWrite(f)
      <3> DEFINE q == [s EXCEPT !.pc = "restoring"]
                 r == Advance(q, "rebasing", Types)
      <3>1. q \in ProfileState /\ q.todo # {} /\ q.pc = "restoring"
        BY <1>1, <1>2, <2>9 DEF RestoreWrite, ProfileState
      <3>2. r \in ProfileState /\ r.pc \in {"restoring", "rebasing"} /\ r.todo # {}
        <4> HIDE DEF q
        <4> QED
          BY <3>1, AdvanceTyped
      <3>3. profile' = [profile EXCEPT ![f] = r]
        BY <2>9 DEF RestoreWrite
      <3> HIDE DEF r
      <3> QED
        BY <1>5, <3>2, <3>3
    <2>10. CASE RestoreBaseline(f)
      <3>1. CASE Rest(s.todo) = {}
        <4>1. profile' = [profile EXCEPT ![f] = IdleProfile]
          BY <2>10, <3>1 DEF RestoreBaseline
        <4> QED
          BY <1>5, <4>1, IdleStates DEF IdleProfile
      <3>2. CASE Rest(s.todo) # {}
        <4> DEFINE r == Advance(s, "rebasing", {})
        <4>1. r = [s EXCEPT !.todo = Rest(@)]
          BY <3>2 DEF Advance
        <4>2. r \in ProfileState /\ r.pc = "rebasing" /\ r.todo # {}
          BY <1>1, <2>10, <3>2, <4>1 DEF ProfileState, Rest, RestoreBaseline
        <4>3. profile' = [profile EXCEPT ![f] = r]
          BY <2>10, <3>2 DEF RestoreBaseline
        <4> HIDE DEF r
        <4> QED
          BY <1>5, <4>2, <4>3
      <3> QED
        BY <3>1, <3>2
    <2> QED
      BY <2>1, <2>2, <2>3, <2>4, <2>5, <2>6, <2>7, <2>8, <2>9, <2>10
         DEF ProfileStep
  <1> QED
    BY <1>3, <1>4, <1>6, <1>7, <1>8

LEMMA AgentTyped ==
  ASSUME Typed, NEW a \in Agents, AgentStep(a)
  PROVE  Typed'
  <1> USE DEF Typed, TypeOK
  <1> DEFINE s == agent[a]
  <1>1. s \in AgentState
    OBVIOUS
  <1>2. /\ s.pc \in {"baseline", "verify"} => First(s.todo) \in Types
        /\ s.pc = "read" => First(s.want) \in Types
    BY <1>1, FirstIsIn DEF LoopsHaveWork, AgentState
  <1>3. UNCHANGED <<stores, operator, profile, crashes, approved, rejected, cut>>
        /\ overlapped' \in BOOLEAN
    BY DEF AgentStep, LoadStart, VerifyBaseline, VerifyFile, ReadSpec, LoadEnd,
           history
  <1>4. ASSUME NEW r \in AgentState, agent' = [agent EXCEPT ![a] = r],
               r.pc \in {"baseline", "verify"} => r.todo # {},
               r.pc \in {"baseline", "verify", "read"} => r.want # {}
        PROVE  Typed'
    <2>1. agent' \in [Agents -> AgentState]
      BY <1>4
    <2>2. LoopsHaveWork'
      BY <1>3, <1>4 DEF LoopsHaveWork
    <2> QED
      BY <1>3, <2>1, <2>2 DEF stores
  <1>5. CASE LoadStart(a)
    <2> DEFINE r == [IdleAgent EXCEPT !.pc = "baseline", !.want = Types, !.todo = Types]
    <2>1. r \in AgentState /\ r.todo = Types /\ r.want = Types
      BY IdleStates DEF AgentState
    <2>2. agent' = [agent EXCEPT ![a] = r]
      BY <1>5 DEF LoadStart
    <2> HIDE DEF r
    <2> QED
      BY <1>4, <2>1, <2>2
  <1>6. CASE VerifyBaseline(a)
    <2> DEFINE r == [s EXCEPT !.pc = "verify", !.seen = baseline[First(s.todo)].content]
    <2>1. baseline[First(s.todo)].content \in Data
      BY <1>2, <1>6 DEF VerifyBaseline, Baseline
    <2>2. /\ r \in AgentState /\ r.todo = s.todo /\ r.want = s.want
          /\ s.todo # {} /\ s.want # {}
      BY <1>1, <1>6, <2>1 DEF VerifyBaseline, AgentState, LoopsHaveWork
    <2>3. agent' = [agent EXCEPT ![a] = r]
      BY <1>6 DEF VerifyBaseline
    <2> HIDE DEF r
    <2> QED
      BY <1>4, <2>2, <2>3
  <1>7. CASE VerifyFile(a)
    <2> DEFINE r == IF ~Matches(a) THEN IdleAgent
                    ELSE IF Rest(s.todo) = {} THEN [s EXCEPT !.pc = "read", !.todo = {}]
                    ELSE [s EXCEPT !.pc = "baseline", !.todo = Rest(@)]
    <2>1. s.todo # {} /\ s.want # {}
      BY <1>7 DEF VerifyFile, LoopsHaveWork
    <2>2. /\ r \in AgentState
          /\ \/ r.pc = "idle"
             \/ r.pc = "read" /\ r.want = s.want
             \/ r.pc = "baseline" /\ r.want = s.want /\ r.todo # {}
      BY <1>1, IdleStates DEF AgentState, Rest, IdleAgent
    <2>3. agent' = [agent EXCEPT ![a] = r]
      BY <1>7 DEF VerifyFile
    <2> HIDE DEF r
    <2> QED
      BY <1>4, <2>1, <2>2, <2>3
  <1>8. CASE ReadSpec(a)
    <2> DEFINE t == First(s.want)
               q == [s EXCEPT !.got[t] = file[t], !.want = Rest(@), !.todo = Types]
               r == IF q.want = {} THEN [q EXCEPT !.pc = "loaded"]
                                   ELSE [q EXCEPT !.pc = "baseline"]
    <2>1. file[t] \in Data
      BY <1>2, <1>8 DEF ReadSpec
    <2>2. q \in AgentState /\ q.todo = Types
      BY <1>1, <2>1 DEF AgentState, Rest
    <2> HIDE DEF q
    <2>3. /\ r \in AgentState
          /\ r.pc = "loaded" \/ (r.pc = "baseline" /\ r.todo # {} /\ r.want # {})
      BY <2>2 DEF AgentState
    <2>4. agent' = [agent EXCEPT ![a] = r]
      BY <1>8 DEF ReadSpec, q
    <2> HIDE DEF r
    <2> QED
      BY <1>4, <2>3, <2>4
  <1>9. CASE LoadEnd(a)
    BY <1>4, <1>9, IdleStates DEF LoadEnd, IdleAgent
  <1> QED
    BY <1>5, <1>6, <1>7, <1>8, <1>9 DEF AgentStep

LEMMA NextTyped == Typed /\ [Next]_vars => Typed'
  <1> SUFFICES ASSUME Typed, [Next]_vars PROVE Typed'
    OBVIOUS
  <1>1. ASSUME Crash PROVE Typed'
    <2> USE DEF Typed, TypeOK
    <2>1. baseline' \in [Types -> Baseline]
      BY <1>1, BootstrappedTyped DEF Crash
    <2>2. /\ operator' \in [Operators -> OperatorState]
          /\ profile' \in [Profiles -> ProfileState]
          /\ agent' \in [Agents -> AgentState]
      BY <1>1, IdleStates DEF Crash
    <2>3. LoopsHaveWork'
      BY <1>1 DEF Crash, LoopsHaveWork, IdleProfile, IdleAgent
    <2>4. crashes' \in 0 .. MaxCrashes
      BY <1>1 DEF Crash
    <2>5. cut' \in BOOLEAN
      BY <1>1, Zenon DEF Crash
    <2> QED
      BY <1>1, <2>1, <2>2, <2>3, <2>4, <2>5 DEF Crash
  <1>2. ASSUME UNCHANGED vars PROVE Typed'
    BY <1>2 DEF vars, stores, history, Typed, TypeOK, LoopsHaveWork
  <1> QED
    BY <1>1, <1>2, OperatorTyped, ProfileTyped, AgentTyped DEF Next

LEMMA AlwaysTyped == Spec => []Typed
  BY InitTyped, NextTyped, PTL DEF Spec

(* Every reachable state is of the declared types.                          *)
THEOREM TypeCorrect == Spec => []TypeOK
  BY AlwaysTyped, PTL DEF Typed

-----------------------------------------------------------------------------
(* What stands in a baseline or in a file goes back to an approval, and so  *)
(* does all that threads hold to put there later: the proposal an apply is  *)
(* working on, and what a profile saved to restore.  These are stated of a  *)
(* set A of approved proposals and a table P of rows.                       *)
BackedBy(A, P, b, t) ==
  b.by \in Proposals => /\ b.by \in A
                        /\ P[b.by].type = t
                        /\ P[b.by].content = b.content

GovernedBy(A, P, t) ==
  {Original, Torn} \cup (IF t \in PackTypes THEN {Pack} ELSE {})
    \cup {P[p].content : p \in {q \in A : P[q].type = t}}

RowsBacked(A, P) ==
  /\ \A p \in A : P[p].status # "absent"
  /\ \A p \in Proposals : P[p].signed => p \in A

OperatorBacked(A, P, s) ==
  s.pc # "idle" =>
    /\ P[s.id].status # "absent"
    /\ s.pc \in {"opening", "writing", "baselining", "marking"} => s.id \in A

ProfileBacked(A, P, s) ==
  \A t \in Types : /\ BackedBy(A, P, s.baselines[t], t)
                   /\ s.files[t] \in GovernedBy(A, P, t)

SpecBacked(A, P, b, c, t) == BackedBy(A, P, b, t) /\ c \in GovernedBy(A, P, t)

GovernedInv ==
  /\ RowsBacked(approved, proposal)
  /\ \A o \in Operators : OperatorBacked(approved, proposal, operator[o])
  /\ \A f \in Profiles : ProfileBacked(approved, proposal, profile[f])
  /\ \A t \in Types : SpecBacked(approved, proposal, baseline[t], file[t], t)

(* Approvals are never withdrawn, and a row that exists keeps its type and  *)
(* its content.                                                             *)
RowsKept(A, P, B, Q) ==
  /\ A \subseteq B
  /\ \A p \in Proposals : P[p].status # "absent" =>
       Q[p].status # "absent" /\ Q[p].type = P[p].type /\ Q[p].content = P[p].content

LEMMA BackedStays ==
  ASSUME NEW A \in SUBSET Proposals, NEW P, NEW B, NEW Q,
         RowsBacked(A, P), RowsKept(A, P, B, Q)
  PROVE  /\ \A b, t : BackedBy(A, P, b, t) => BackedBy(B, Q, b, t)
         /\ \A t : GovernedBy(A, P, t) \subseteq GovernedBy(B, Q, t)
         /\ \A s : s.id \in Proposals /\ OperatorBacked(A, P, s)
                     => OperatorBacked(B, Q, s)
         /\ \A s : ProfileBacked(A, P, s) => ProfileBacked(B, Q, s)
  <1>1. \A p \in A : Q[p].type = P[p].type /\ Q[p].content = P[p].content /\ p \in B
    BY DEF RowsBacked, RowsKept
  <1>2. \A b, t : BackedBy(A, P, b, t) => BackedBy(B, Q, b, t)
    BY <1>1 DEF BackedBy
  <1>3. \A t : GovernedBy(A, P, t) \subseteq GovernedBy(B, Q, t)
    <2> SUFFICES ASSUME NEW t, NEW c \in GovernedBy(A, P, t)
                 PROVE  c \in GovernedBy(B, Q, t)
      OBVIOUS
    <2>1. CASE c \in {P[p].content : p \in {q \in A : P[q].type = t}}
      <3>1. PICK p \in A : P[p].type = t /\ c = P[p].content
        BY <2>1
      <3>2. p \in B /\ Q[p].type = t /\ c = Q[p].content
        BY <1>1, <3>1
      <3> QED
        BY <3>2 DEF GovernedBy
    <2>2. CASE c \notin {P[p].content : p \in {q \in A : P[q].type = t}}
      BY <2>2 DEF GovernedBy
    <2> QED
      BY <2>1, <2>2
  <1>4. \A s : s.id \in Proposals /\ OperatorBacked(A, P, s) => OperatorBacked(B, Q, s)
    BY DEF OperatorBacked, RowsKept
  <1>5. \A s : ProfileBacked(A, P, s) => ProfileBacked(B, Q, s)
    BY <1>2, <1>3 DEF ProfileBacked
  <1> QED
    BY <1>2, <1>3, <1>4, <1>5

(* A step that keeps the rows keeps the invariant when whatever it changes  *)
(* is backed afterwards.                                                    *)
LEMMA GovernedKept ==
  ASSUME Typed, GovernedInv,
         RowsKept(approved, proposal, approved', proposal'),
         RowsBacked(approved', proposal'),
         \A o \in Operators : \/ operator'[o] = operator[o]
                              \/ OperatorBacked(approved', proposal', operator'[o]),
         \A f \in Profiles : \/ profile'[f] = profile[f]
                             \/ ProfileBacked(approved', proposal', profile'[f]),
         \A t \in Types : \/ baseline'[t] = baseline[t]
                          \/ BackedBy(approved', proposal', baseline'[t], t),
         \A t \in Types : \/ file'[t] = file[t]
                          \/ file'[t] \in GovernedBy(approved', proposal', t)
  PROVE  GovernedInv'
  <1>1. approved \in SUBSET Proposals /\ \A o \in Operators : operator[o].id \in Proposals
    BY DEF Typed, TypeOK, OperatorState
  <1>2. /\ \A b, t : BackedBy(approved, proposal, b, t)
                       => BackedBy(approved', proposal', b, t)
        /\ \A t : GovernedBy(approved, proposal, t)
                    \subseteq GovernedBy(approved', proposal', t)
        /\ \A s : s.id \in Proposals /\ OperatorBacked(approved, proposal, s)
                    => OperatorBacked(approved', proposal', s)
        /\ \A s : ProfileBacked(approved, proposal, s)
                    => ProfileBacked(approved', proposal', s)
    BY <1>1, BackedStays DEF GovernedInv
  <1>3. \A o \in Operators : OperatorBacked(approved', proposal', operator'[o])
    BY <1>1, <1>2 DEF GovernedInv
  <1>4. \A f \in Profiles : ProfileBacked(approved', proposal', profile'[f])
    BY <1>2 DEF GovernedInv
  <1>5. \A t \in Types : SpecBacked(approved', proposal', baseline'[t], file'[t], t)
    BY <1>2 DEF GovernedInv, SpecBacked
  <1> QED
    BY <1>3, <1>4, <1>5 DEF GovernedInv

LEMMA IdleBacked ==
  ASSUME NEW A, NEW P
  PROVE  OperatorBacked(A, P, IdleOperator) /\ ProfileBacked(A, P, IdleProfile)
  <1>1. OperatorBacked(A, P, IdleOperator)
    BY DEF OperatorBacked, IdleOperator
  <1>2. ASSUME NEW t \in Types
        PROVE  /\ BackedBy(A, P, IdleProfile.baselines[t], t)
               /\ IdleProfile.files[t] \in GovernedBy(A, P, t)
    BY DEF IdleProfile, BackedBy, NoBaseline, GovernedBy
  <1> QED
    BY <1>1, <1>2 DEF ProfileBacked

LEMMA OperatorKeepsGoverned ==
  ASSUME Typed, GovernedInv, NEW o \in Operators, OperatorStep(o)
  PROVE  GovernedInv'
  <1> USE DEF Typed, TypeOK
  <1> DEFINE q == operator[o].id
  <1>1. q \in Proposals /\ OperatorBacked(approved, proposal, operator[o])
    BY DEF OperatorState, GovernedInv
  <1>2. RowsBacked(approved, proposal) /\ RowsKept(approved, proposal, approved, proposal)
    BY DEF GovernedInv, RowsKept
  <1>3. ASSUME NEW p \in Proposals, NEW t \in Types, NEW c \in Contents,
               Propose(o, p, t, c)
        PROVE  GovernedInv'
    <2>1. /\ proposal'[p] = [status |-> "proposed", type |-> t, content |-> c,
                             signed |-> FALSE]
          /\ \A r \in Proposals \ {p} : proposal'[r] = proposal[r]
      BY <1>3 DEF Propose
    <2>2. RowsKept(approved, proposal, approved', proposal')
      BY <1>3, <2>1 DEF Propose, RowsKept
    <2>3. RowsBacked(approved', proposal')
      BY <1>2, <1>3, <2>1 DEF Propose, RowsBacked
    <2> QED
      BY <1>3, <2>2, <2>3, GovernedKept DEF Propose
  <1>4. ASSUME NEW p \in Proposals,
               ReadToApprove(o, p) \/ ReadToReject(o, p) \/ ReadToApply(o, p)
        PROVE  GovernedInv'
    <2>1. UNCHANGED <<stores, profile, approved>>
      BY <1>4 DEF ReadToApprove, ReadToReject, ReadToApply, Read
    <2>2. \/ /\ operator' = [operator EXCEPT ![o] =
                               [IdleOperator EXCEPT !.pc = "opening", !.id = p]]
             /\ proposal[p].status = "approved" /\ proposal[p].signed
          \/ \E pc \in {"approving", "rejecting"} :
               /\ operator' = [operator EXCEPT ![o] =
                                 [IdleOperator EXCEPT !.pc = pc, !.id = p]]
               /\ proposal[p].status = "proposed"
      BY <1>4, Zenon DEF ReadToApprove, ReadToReject, ReadToApply, Read, MayDecide, MayApply
    <2>3. OperatorBacked(approved, proposal, operator'[o])
      <3>1. CASE /\ operator' = [operator EXCEPT ![o] =
                                   [IdleOperator EXCEPT !.pc = "opening", !.id = p]]
                 /\ proposal[p].status = "approved" /\ proposal[p].signed
        <4>1. operator'[o].pc = "opening" /\ operator'[o].id = p
          BY <3>1, IdleStates DEF OperatorState
        <4>2. p \in approved
          BY <1>2, <3>1, Zenon DEF RowsBacked
        <4> QED
          BY <3>1, <4>1, <4>2 DEF OperatorBacked
      <3>2. ASSUME NEW pc \in {"approving", "rejecting"},
                   operator' = [operator EXCEPT ![o] =
                                  [IdleOperator EXCEPT !.pc = pc, !.id = p]],
                   proposal[p].status = "proposed"
            PROVE  OperatorBacked(approved, proposal, operator'[o])
        <4>1. operator'[o].pc = pc /\ operator'[o].id = p
          BY <3>2, IdleStates DEF OperatorState
        <4> QED
          BY <3>2, <4>1 DEF OperatorBacked
      <3> QED
        BY <2>2, <3>1, <3>2
    <2>4. \A k \in Operators \ {o} : operator'[k] = operator[k]
      BY <2>2
    <2> QED
      BY <1>2, <2>1, <2>3, <2>4, GovernedKept DEF stores
  <1>5. CASE Approve(o)
    <2>1. /\ proposal'[q] = [proposal[q] EXCEPT !.status = "approved", !.signed = TRUE]
          /\ \A r \in Proposals \ {q} : proposal'[r] = proposal[r]
          /\ approved' = approved \cup {q}
      BY <1>1, <1>5 DEF Approve
    <2>2. /\ proposal'[q].type = proposal[q].type
          /\ proposal'[q].content = proposal[q].content
          /\ proposal'[q].status = "approved"
      BY <1>1, <2>1 DEF ProposalRow
    <2>3. RowsKept(approved, proposal, approved', proposal')
      BY <2>1, <2>2 DEF RowsKept
    <2>4. RowsBacked(approved', proposal')
      BY <1>2, <2>1, <2>2 DEF RowsBacked
    <2> QED
      BY <1>5, <2>3, <2>4, IdleBacked, GovernedKept DEF Approve
  <1>6. CASE Reject(o)
    <2>1. /\ proposal'[q] = [proposal[q] EXCEPT !.status = "rejected"]
          /\ \A r \in Proposals \ {q} : proposal'[r] = proposal[r]
      BY <1>1, <1>6 DEF Reject
    <2>2. /\ proposal'[q].type = proposal[q].type
          /\ proposal'[q].content = proposal[q].content
          /\ proposal'[q].signed = proposal[q].signed
          /\ proposal'[q].status = "rejected"
      BY <1>1, <2>1 DEF ProposalRow
    <2>3. RowsKept(approved, proposal, approved', proposal')
      BY <1>6, <2>1, <2>2 DEF Reject, RowsKept
    <2>4. RowsBacked(approved', proposal')
      BY <1>2, <1>6, <2>1, <2>2 DEF Reject, RowsBacked
    <2> QED
      BY <1>6, <2>3, <2>4, IdleBacked, GovernedKept DEF Reject
  <1>7. ASSUME NEW pc \in {"writing", "baselining", "marking"},
               operator' = [operator EXCEPT ![o].pc = pc], q \in approved
        PROVE  \A k \in Operators : \/ operator'[k] = operator[k]
                                    \/ OperatorBacked(approved, proposal, operator'[k])
    <2>1. operator'[o].id = q /\ \A k \in Operators \ {o} : operator'[k] = operator[k]
      BY <1>7 DEF OperatorState
    <2>2. OperatorBacked(approved, proposal, operator'[o])
      BY <1>2, <1>7, <2>1 DEF OperatorBacked, RowsBacked
    <2> QED
      BY <2>1, <2>2
  <1>8. CASE ApplyOpen(o)
    <2>1. q \in approved
      BY <1>1, <1>8 DEF ApplyOpen, OperatorBacked
    <2>2. \A t \in Types : \/ file'[t] = file[t]
                           \/ file'[t] \in GovernedBy(approved, proposal, t)
      BY <1>8 DEF ApplyOpen, GovernedBy
    <2> QED
      BY <1>2, <1>7, <1>8, <2>1, <2>2, GovernedKept DEF ApplyOpen, history
  <1>9. CASE ApplyWrite(o)
    <2>1. q \in approved
      BY <1>1, <1>9 DEF ApplyWrite, OperatorBacked
    <2>2. \A t \in Types : \/ file'[t] = file[t]
                           \/ file'[t] \in GovernedBy(approved, proposal, t)
      BY <1>9, <2>1 DEF ApplyWrite, GovernedBy
    <2> QED
      BY <1>2, <1>7, <1>9, <2>1, <2>2, GovernedKept DEF ApplyWrite, history
  <1>10. CASE ApplyBaseline(o)
    <2>1. q \in approved
      BY <1>1, <1>10 DEF ApplyBaseline, OperatorBacked
    <2>2. \A t \in Types : \/ baseline'[t] = baseline[t]
                           \/ BackedBy(approved, proposal, baseline'[t], t)
      BY <1>1, <1>10, <2>1 DEF ApplyBaseline, BackedBy
    <2> QED
      BY <1>2, <1>7, <1>10, <2>1, <2>2, GovernedKept DEF ApplyBaseline, history
  <1>11. CASE ApplyMark(o)
    <2>1. /\ proposal'[q] = [proposal[q] EXCEPT !.status = "applied"]
          /\ \A r \in Proposals \ {q} : proposal'[r] = proposal[r]
      BY <1>1, <1>11 DEF ApplyMark
    <2>2. /\ proposal'[q].type = proposal[q].type
          /\ proposal'[q].content = proposal[q].content
          /\ proposal'[q].signed = proposal[q].signed
          /\ proposal'[q].status = "applied"
      BY <1>1, <2>1 DEF ProposalRow
    <2>3. RowsKept(approved, proposal, approved', proposal')
      BY <1>11, <2>1, <2>2 DEF ApplyMark, RowsKept, history
    <2>4. RowsBacked(approved', proposal')
      BY <1>2, <1>11, <2>1, <2>2 DEF ApplyMark, RowsBacked, history
    <2> QED
      BY <1>11, <2>3, <2>4, IdleBacked, GovernedKept DEF ApplyMark
  <1> QED
    BY <1>3, <1>4, <1>5, <1>6, <1>8, <1>9, <1>10, <1>11 DEF OperatorStep

LEMMA ProfileKeepsGoverned ==
  ASSUME Typed, GovernedInv, NEW f \in Profiles, ProfileStep(f)
  PROVE  GovernedInv'
  <1> USE DEF Typed, TypeOK
  <1> DEFINE s == profile[f]
             t == First(s.todo)
  <1>1. s \in ProfileState /\ ProfileBacked(approved, proposal, s)
    BY DEF GovernedInv
  <1>2. s.pc \notin {"idle", "inside"} => t \in s.todo /\ t \in Types
    BY <1>1, FirstIsIn DEF LoopsHaveWork, ProfileState
  <1>3. /\ UNCHANGED <<proposal, operator, approved>>
        /\ \A g \in Profiles \ {f} : profile'[g] = profile[g]
    BY DEF ProfileStep, ProfileStart, SnapshotFile, SnapshotBaseline, CopyOpen,
           CopyWrite, CopyFails, Align, Leave, RestoreOpen, RestoreWrite,
           RestoreBaseline, stores, history
  <1>4. RowsBacked(approved, proposal) /\ RowsKept(approved, proposal, approved, proposal)
    BY DEF GovernedInv, RowsKept
  (* A profile that keeps what it saved, or begins or ends.                 *)
  <1>5. ASSUME \/ profile'[f] = IdleProfile
               \/ /\ profile'[f].files = s.files
                  /\ profile'[f].baselines = s.baselines
               \/ /\ profile'[f].files = IdleProfile.files
                  /\ profile'[f].baselines = IdleProfile.baselines
        PROVE  ProfileBacked(approved, proposal, profile'[f])
    BY <1>1, <1>5, IdleBacked DEF ProfileBacked
  <1>6. /\ SpecBacked(approved, proposal, baseline[t], file[t], t) \/ s.pc \in {"idle", "inside"}
        /\ \A u \in Types : BackedBy(approved, proposal, baseline[u], u)
        /\ \A u \in Types : file[u] \in GovernedBy(approved, proposal, u)
    BY <1>2 DEF GovernedInv, SpecBacked
  <1>7. ProfileBacked(approved, proposal, profile'[f])
    <2>1. CASE SnapshotFile(f)
      <3> DEFINE q == [s EXCEPT !.files[t] = file[t]]
      <3>1. q \in ProfileState /\ q.todo # {}
        BY <1>1, <1>2, <2>1 DEF SnapshotFile, ProfileState
      <3>2. q.baselines = s.baselines /\ \A u \in Types : q.files[u] \in {s.files[u], file[u]}
        BY <1>1 DEF ProfileState
      <3>3. profile'[f] = Advance(q, "baselines", Types)
        BY <2>1 DEF SnapshotFile
      <3> HIDE DEF q
      <3>4. profile'[f].files = q.files /\ profile'[f].baselines = q.baselines
        BY <3>1, <3>3, AdvanceTyped
      <3> QED
        BY <1>1, <1>6, <3>2, <3>4 DEF ProfileBacked
    <2>2. CASE SnapshotBaseline(f)
      <3> DEFINE q == [s EXCEPT !.baselines[t] = baseline[t]]
      <3>1. q \in ProfileState /\ q.todo # {}
        BY <1>1, <1>2, <2>2 DEF SnapshotBaseline, ProfileState
      <3>2. q.files = s.files /\ \A u \in Types : q.baselines[u] \in {s.baselines[u], baseline[u]}
        BY <1>1 DEF ProfileState
      <3>3. profile'[f] = Advance(q, "copying", PackTypes)
        BY <2>2 DEF SnapshotBaseline
      <3>4. PackTypes \in SUBSET Types
        OBVIOUS
      <3> HIDE DEF q
      <3>5. profile'[f].files = q.files /\ profile'[f].baselines = q.baselines
        BY <3>1, <3>3, <3>4, AdvanceTyped
      <3> QED
        BY <1>1, <1>6, <3>2, <3>5 DEF ProfileBacked
    <2>3. CASE ProfileStart(f)
      <3>1. /\ profile'[f].files = IdleProfile.files
            /\ profile'[f].baselines = IdleProfile.baselines
        BY <2>3, IdleStates DEF ProfileStart, ProfileState
      <3> QED
        BY <1>5, <3>1
    <2>4. CASE CopyOpen(f) \/ RestoreOpen(f) \/ CopyFails(f) \/ Leave(f)
      <3>1. profile'[f].files = s.files /\ profile'[f].baselines = s.baselines
        BY <1>1, <2>4 DEF CopyOpen, RestoreOpen, CopyFails, Leave, ProfileState
      <3> QED
        BY <1>5, <3>1
    <2>5. ASSUME NEW r \in ProfileState, r.todo # {},
                 r.files = s.files, r.baselines = s.baselines,
                 NEW next \in {"aligning", "inside", "rebasing"},
                 profile'[f] = Advance(r, next, Types)
          PROVE  ProfileBacked(approved, proposal, profile'[f])
      <3>1. profile'[f].files = r.files /\ profile'[f].baselines = r.baselines
        BY <2>5, AdvanceTyped
      <3> QED
        BY <1>5, <2>5, <3>1
    <2>6. CASE CopyWrite(f)
      <3> DEFINE r == [s EXCEPT !.pc = "copying"]
      <3>1. r \in ProfileState /\ r.todo # {} /\ r.files = s.files /\ r.baselines = s.baselines
        BY <1>1, <1>2, <2>6 DEF CopyWrite, ProfileState
      <3>2. profile'[f] = Advance(r, "aligning", Types)
        BY <2>6 DEF CopyWrite
      <3> HIDE DEF r
      <3> QED
        BY <2>5, <3>1, <3>2
    <2>7. CASE Align(f)
      <3>1. profile'[f] = Advance(s, "inside", Types) /\ s.todo # {}
        BY <1>2, <2>7 DEF Align
      <3> QED
        BY <1>1, <2>5, <3>1
    <2>8. CASE RestoreWrite(f)
      <3> DEFINE r == [s EXCEPT !.pc = "restoring"]
      <3>1. r \in ProfileState /\ r.todo # {} /\ r.files = s.files /\ r.baselines = s.baselines
        BY <1>1, <1>2, <2>8 DEF RestoreWrite, ProfileState
      <3>2. profile'[f] = Advance(r, "rebasing", Types)
        BY <2>8 DEF RestoreWrite
      <3> HIDE DEF r
      <3> QED
        BY <2>5, <3>1, <3>2
    <2>9. CASE RestoreBaseline(f)
      <3>1. profile'[f] = IdleProfile \/ profile'[f] = Advance(s, "rebasing", {})
        BY <2>9 DEF RestoreBaseline
      <3>2. CASE profile'[f] = Advance(s, "rebasing", {})
        <4>1. profile'[f].files = s.files /\ profile'[f].baselines = s.baselines
          BY <1>1, <1>2, <2>9, <3>2, AdvanceTyped DEF RestoreBaseline
        <4> QED
          BY <1>5, <4>1
      <3> QED
        BY <1>5, <3>1, <3>2
    <2> QED
      BY <2>1, <2>2, <2>3, <2>4, <2>6, <2>7, <2>8, <2>9 DEF ProfileStep
  <1>8. \A u \in Types : \/ file'[u] = file[u]
                         \/ file'[u] \in GovernedBy(approved, proposal, u)
    <2>1. CASE CopyOpen(f) \/ RestoreOpen(f)
      BY <2>1 DEF CopyOpen, RestoreOpen, GovernedBy
    <2>2. CASE CopyWrite(f)
      <3>1. t \in PackTypes
        BY <1>2, <2>2 DEF CopyWrite, LoopsHaveWork
      <3> QED
        BY <2>2, <3>1 DEF CopyWrite, GovernedBy
    <2>3. CASE RestoreWrite(f)
      <3>1. s.files[t] \in GovernedBy(approved, proposal, t)
        BY <1>1, <1>2, <2>3 DEF RestoreWrite, ProfileBacked
      <3> QED
        BY <2>3, <3>1 DEF RestoreWrite
    <2>4. CASE file' = file
      BY <2>4
    <2> QED
      BY <2>1, <2>2, <2>3, <2>4
         DEF ProfileStep, ProfileStart, SnapshotFile, SnapshotBaseline,
             CopyFails, Align, Leave, RestoreBaseline, stores
  <1>9. \A u \in Types : \/ baseline'[u] = baseline[u]
                         \/ BackedBy(approved, proposal, baseline'[u], u)
    <2>1. CASE Align(f)
      <3>1. BackedBy(approved, proposal, [content |-> file[t], by |-> "profile"], t)
        BY DEF BackedBy
      <3> QED
        BY <2>1, <3>1 DEF Align
    <2>2. CASE RestoreBaseline(f)
      <3>1. BackedBy(approved, proposal, s.baselines[t], t)
        BY <1>1, <1>2, <2>2 DEF RestoreBaseline, ProfileBacked
      <3> QED
        BY <2>2, <3>1 DEF RestoreBaseline, RestoredBaseline
    <2>3. CASE baseline' = baseline
      BY <2>3
    <2> QED
      BY <2>1, <2>2, <2>3
         DEF ProfileStep, ProfileStart, SnapshotFile, SnapshotBaseline, CopyOpen,
             CopyWrite, CopyFails, Leave, RestoreOpen, RestoreWrite, stores
  <1> QED
    BY <1>3, <1>4, <1>7, <1>8, <1>9, GovernedKept

LEMMA InitGoverned == Init => GovernedInv
  <1> SUFFICES ASSUME Init PROVE GovernedInv
    OBVIOUS
  <1>1. RowsBacked(approved, proposal)
    BY DEF Init, RowsBacked
  <1>2. \A t \in Types : SpecBacked(approved, proposal, baseline[t], file[t], t)
    BY DEF Init, Bootstrapped, SpecBacked, BackedBy, GovernedBy
  <1> QED
    BY <1>1, <1>2, IdleBacked DEF Init, GovernedInv

LEMMA NextGoverned == Typed /\ GovernedInv /\ [Next]_vars => GovernedInv'
  <1> SUFFICES ASSUME Typed, GovernedInv, [Next]_vars PROVE GovernedInv'
    OBVIOUS
  <1>1. RowsBacked(approved, proposal) /\ RowsKept(approved, proposal, approved, proposal)
    BY DEF GovernedInv, RowsKept
  <1>2. ASSUME NEW a \in Agents, AgentStep(a) PROVE GovernedInv'
    <2>1. UNCHANGED <<stores, operator, profile, approved>>
      BY <1>2 DEF AgentStep, LoadStart, VerifyBaseline, VerifyFile, ReadSpec,
                  LoadEnd, history
    <2> QED
      BY <1>1, <2>1, GovernedKept DEF stores
  <1>3. CASE Crash
    <2>1. \A t \in Types : \/ baseline'[t] = baseline[t]
                           \/ BackedBy(approved, proposal, baseline'[t], t)
      BY <1>3 DEF Crash, Bootstrapped, BackedBy
    <2> QED
      BY <1>1, <1>3, <2>1, IdleBacked, GovernedKept DEF Crash
  <1>4. CASE UNCHANGED vars
    BY <1>1, <1>4, GovernedKept DEF vars, stores, history
  <1> QED
    BY <1>2, <1>3, <1>4, OperatorKeepsGoverned, ProfileKeepsGoverned DEF Next

LEMMA AlwaysGoverned == Spec => []GovernedInv
  BY InitGoverned, NextGoverned, AlwaysTyped, PTL DEF Spec

(* No baseline ever names a proposal that was not approved, or approves     *)
(* another content or type than that proposal's: whatever operators,        *)
(* profiles and crashes race (apply_proposal, pack_profile_context).        *)
THEOREM BaselinesAreApproved == Spec => []BaselineIsApproved
  <1>1. GovernedInv => BaselineIsApproved
    BY DEF GovernedInv, SpecBacked, BackedBy, BaselineIsApproved
  <1> QED
    BY <1>1, AlwaysGoverned, PTL

(* No whole spec file ever holds a content that was neither shipped, nor    *)
(* the pack's, nor approved.                                                *)
THEOREM FilesAreGoverned == Spec => []FileIsGoverned
  <1>1. GovernedInv => FileIsGoverned
    BY DEF GovernedInv, SpecBacked, GovernedBy, FileIsGoverned, Governed
  <1> QED
    BY <1>1, AlwaysGoverned, PTL

-----------------------------------------------------------------------------
(* What "not overlapped" buys: at most one operator or profile is not idle, *)
(* and none of them writes while an agent loads.                            *)
Alone ==
  /\ \A o, k \in Operators :
       operator[o].pc # "idle" /\ operator[k].pc # "idle" => o = k
  /\ \A f, g \in Profiles :
       profile[f].pc # "idle" /\ profile[g].pc # "idle" => f = g
  /\ \A o \in Operators, f \in Profiles :
       operator[o].pc # "idle" => profile[f].pc = "idle"
  /\ \A a \in Agents : agent[a].pc # "idle" =>
       /\ \A o \in Operators : operator[o].pc = "idle"
       /\ \A f \in Profiles : profile[f].pc \in {"idle", "inside"}

AloneInv == ~overlapped => Alone

LEMMA OrStays ==
  ASSUME NEW A, NEW B, NEW C, A = (B \/ C)
  PROVE  ~A => ~B
  BY Zenon

(* An overlap, or a profile that a crash cut, is remembered.                *)
LEMMA HistoryStays ==
  ASSUME Typed, [Next]_vars
  PROVE  (~overlapped' => ~overlapped) /\ (~cut' => ~cut)
  <1>1. CASE UNCHANGED vars
    BY <1>1 DEF vars, history
  <1>2. ASSUME NEW o \in Operators, OperatorStep(o)
        PROVE  (~overlapped' => ~overlapped) /\ (~cut' => ~cut)
    <2>1. (Begin \/ overlapped' = overlapped) /\ cut' = cut
      BY <1>2 DEF OperatorStep, Propose, ReadToApprove, ReadToReject, ReadToApply,
           Read, Approve, Reject, ApplyOpen, ApplyWrite, ApplyBaseline,
           ApplyMark, history
    <2>2. Begin => (~overlapped' => ~overlapped)
      BY OrStays DEF Begin
    <2> QED
      BY <2>1, <2>2
  <1>3. ASSUME NEW f \in Profiles, ProfileStep(f)
        PROVE  (~overlapped' => ~overlapped) /\ (~cut' => ~cut)
    <2>1. (Begin \/ overlapped' = overlapped \/ Leave(f)) /\ cut' = cut
      BY <1>3 DEF ProfileStep, ProfileStart, SnapshotFile, SnapshotBaseline, CopyOpen,
           CopyWrite, CopyFails, Align, Leave, RestoreOpen, RestoreWrite,
           RestoreBaseline, history
    <2>2. Begin \/ Leave(f) => (~overlapped' => ~overlapped)
      BY OrStays DEF Begin, Leave
    <2> QED
      BY <2>1, <2>2
  <1>4. ASSUME NEW a \in Agents, AgentStep(a)
        PROVE  (~overlapped' => ~overlapped) /\ (~cut' => ~cut)
    <2>1. (LoadStart(a) \/ overlapped' = overlapped) /\ cut' = cut
      BY <1>4 DEF AgentStep, LoadStart, VerifyBaseline, VerifyFile, ReadSpec,
           LoadEnd, history
    <2>2. LoadStart(a) => (~overlapped' => ~overlapped)
      BY OrStays DEF LoadStart
    <2> QED
      BY <2>1, <2>2
  <1>5. CASE Crash
    BY <1>5 DEF Crash
  <1> QED
    BY <1>1, <1>2, <1>3, <1>4, <1>5 DEF Next

(* An operation that begins without an overlap finds everything idle.       *)
LEMMA BeginAlone ==
  ASSUME Begin, ~overlapped'
  PROVE  /\ \A o \in Operators : operator[o].pc = "idle"
         /\ \A f \in Profiles : profile[f].pc = "idle"
         /\ \A a \in Agents : agent[a].pc = "idle"
  BY DEF Begin, Writing, Loading, Swapped

LEMMA OperatorAlone ==
  ASSUME Typed, Alone, NEW o \in Operators, OperatorStep(o), ~overlapped'
  PROVE  Alone'
  <1>1. UNCHANGED <<profile, agent>> /\ operator \in [Operators -> OperatorState]
    BY DEF OperatorStep, Propose, ReadToApprove, ReadToReject, ReadToApply,
           Read, Approve, Reject, ApplyOpen, ApplyWrite, ApplyBaseline,
           ApplyMark, Typed, TypeOK
  <1>2. CASE \E p \in Proposals, t \in Types, c \in Contents : Propose(o, p, t, c)
    <2>1. operator' = operator
      BY <1>2 DEF Propose
    <2> QED
      BY <1>1, <2>1 DEF Alone
  <1>3. CASE \E p \in Proposals :
               ReadToApprove(o, p) \/ ReadToReject(o, p) \/ ReadToApply(o, p)
    <2>1. Begin
      BY <1>3 DEF ReadToApprove, ReadToReject, ReadToApply, Read
    <2>2. \A k \in Operators \ {o} : operator'[k] = operator[k]
      BY <1>1, <1>3 DEF ReadToApprove, ReadToReject, ReadToApply, Read
    <2> QED
      BY <1>1, <2>1, <2>2, BeginAlone DEF Alone
  <1>4. CASE \/ Approve(o) \/ Reject(o)
             \/ ApplyOpen(o) \/ ApplyWrite(o) \/ ApplyBaseline(o) \/ ApplyMark(o)
    <2>1. operator[o].pc # "idle" /\ \A k \in Operators \ {o} : operator'[k] = operator[k]
      BY <1>1, <1>4 DEF Approve, Reject, ApplyOpen, ApplyWrite, ApplyBaseline, ApplyMark
    <2> QED
      BY <1>1, <2>1 DEF Alone
  <1> QED
    BY <1>2, <1>3, <1>4 DEF OperatorStep

LEMMA ProfileAlone ==
  ASSUME Typed, Alone, NEW f \in Profiles, ProfileStep(f), ~overlapped'
  PROVE  Alone'
  <1>1. UNCHANGED <<operator, agent>> /\ \A g \in Profiles \ {f} : profile'[g] = profile[g]
    BY DEF ProfileStep, ProfileStart, SnapshotFile, SnapshotBaseline, CopyOpen,
           CopyWrite, CopyFails, Align, Leave, RestoreOpen, RestoreWrite,
           RestoreBaseline, Typed, TypeOK
  <1>2. CASE ProfileStart(f)
    <2>1. Begin
      BY <1>2 DEF ProfileStart
    <2> QED
      BY <1>1, <2>1, BeginAlone DEF Alone
  <1>3. CASE ~ProfileStart(f)
    <2>1. profile[f].pc # "idle"
      BY <1>3 DEF ProfileStep, SnapshotFile, SnapshotBaseline, CopyOpen,
           CopyWrite, CopyFails, Align, Leave, RestoreOpen, RestoreWrite,
           RestoreBaseline
    <2>2. \A a \in Agents : agent[a].pc = "idle"
      <3>1. CASE Leave(f)
        BY <3>1 DEF Leave, Loading
      <3>2. CASE ~Leave(f)
        <4>1. profile[f].pc # "inside"
          BY <1>3, <3>2 DEF ProfileStep, SnapshotFile, SnapshotBaseline, CopyOpen,
               CopyWrite, CopyFails, Align, RestoreOpen, RestoreWrite,
               RestoreBaseline
        <4> QED
          BY <2>1, <4>1 DEF Alone
      <3> QED
        BY <3>1, <3>2
    <2> QED
      BY <1>1, <2>1, <2>2 DEF Alone
  <1> QED
    BY <1>2, <1>3

LEMMA AgentAlone ==
  ASSUME Typed, Alone, NEW a \in Agents, AgentStep(a), ~overlapped'
  PROVE  Alone'
  <1>1. UNCHANGED <<operator, profile>> /\ \A b \in Agents \ {a} : agent'[b] = agent[b]
    BY DEF AgentStep, LoadStart, VerifyBaseline, VerifyFile, ReadSpec, LoadEnd,
           Typed, TypeOK
  <1>2. CASE LoadStart(a)
    <2>1. ~Writing
      BY <1>2 DEF LoadStart
    <2> QED
      BY <1>1, <2>1 DEF Alone, Writing
  <1>3. CASE ~LoadStart(a)
    <2>1. agent[a].pc # "idle"
      BY <1>3 DEF AgentStep, VerifyBaseline, VerifyFile, ReadSpec, LoadEnd
    <2> QED
      BY <1>1, <2>1 DEF Alone
  <1> QED
    BY <1>2, <1>3

LEMMA NextAlone == Typed /\ AloneInv /\ [Next]_vars => AloneInv'
  <1> SUFFICES ASSUME Typed, AloneInv, [Next]_vars, ~overlapped' PROVE Alone'
    BY DEF AloneInv
  <1>1. Alone
    BY HistoryStays DEF AloneInv
  <1>2. CASE Crash
    BY <1>2 DEF Crash, Alone, IdleOperator, IdleProfile, IdleAgent
  <1>3. CASE UNCHANGED vars
    BY <1>1, <1>3 DEF vars, Alone
  <1> QED
    BY <1>1, <1>2, <1>3, OperatorAlone, ProfileAlone, AgentAlone DEF Next

LEMMA AlwaysAlone == Spec => []AloneInv
  <1>1. Init => AloneInv
    BY DEF Init, AloneInv, Alone, IdleOperator, IdleProfile, IdleAgent
  <1> QED
    BY <1>1, NextAlone, AlwaysTyped, PTL DEF Spec

-----------------------------------------------------------------------------
(* The status of a row follows the decisions, and the row that an operator  *)
(* read still has the status it read.                                       *)
Due(P, s) == /\ s.pc \in {"approving", "rejecting"} => P[s.id].status = "proposed"
             /\ s.pc \in {"opening", "writing", "baselining", "marking"}
                  => P[s.id].status = "approved" /\ P[s.id].signed

DecisionsInv ==
  ~overlapped =>
    /\ \A p \in approved : proposal[p].status \in {"approved", "applied"}
    /\ \A p \in rejected : proposal[p].status = "rejected"
    /\ \A o \in Operators : Due(proposal, operator[o])

LEMMA OperatorDecides ==
  ASSUME Typed, Alone, DecisionsInv, NEW o \in Operators, OperatorStep(o),
         ~overlapped, ~overlapped'
  PROVE  DecisionsInv'
  <1> USE DEF Typed, TypeOK
  <1> DEFINE q == operator[o].id
  <1>1. /\ q \in Proposals
        /\ approved \subseteq Proposals /\ rejected \subseteq Proposals
        /\ \A p \in Proposals : proposal[p] \in ProposalRow
        /\ \A k \in Operators : operator[k] \in OperatorState
    BY DEF OperatorState
  <1>2. /\ \A p \in approved : proposal[p].status \in {"approved", "applied"}
        /\ \A p \in rejected : proposal[p].status = "rejected"
        /\ \A k \in Operators : Due(proposal, operator[k])
    BY DEF DecisionsInv
  <1>3. ASSUME NEW p \in Proposals, NEW t \in Types, NEW c \in Contents,
               Propose(o, p, t, c)
        PROVE  DecisionsInv'
    <2>1. \A k \in Operators : operator'[k].pc = "idle"
      BY <1>3, BeginAlone DEF Propose
    <2>2. \A k \in Operators : Due(proposal', operator'[k])
      BY <2>1 DEF Due
    <2>3. /\ \A r \in Proposals \ {p} : proposal'[r] = proposal[r]
          /\ p \notin approved /\ p \notin rejected
          /\ approved' = approved /\ rejected' = rejected
      BY <1>2, <1>3 DEF Propose
    <2> QED
      BY <1>1, <1>2, <2>2, <2>3 DEF DecisionsInv
  <1>4. ASSUME NEW p \in Proposals,
               ReadToApprove(o, p) \/ ReadToReject(o, p) \/ ReadToApply(o, p)
        PROVE  DecisionsInv'
    <2>1. UNCHANGED <<proposal, approved, rejected>>
      BY <1>4 DEF ReadToApprove, ReadToReject, ReadToApply, Read, stores
    <2>2. ASSUME NEW k \in Operators PROVE Due(proposal', operator'[k])
      <3>1. CASE k # o
        <4>1. operator'[k] = operator[k]
          BY <1>4, <3>1 DEF ReadToApprove, ReadToReject, ReadToApply, Read
        <4> QED
          BY <1>2, <2>1, <4>1
      <3>2. ASSUME NEW pc \in {"approving", "rejecting", "opening"}
            PROVE  /\ [IdleOperator EXCEPT !.pc = pc, !.id = p].pc = pc
                   /\ [IdleOperator EXCEPT !.pc = pc, !.id = p].id = p
        BY IdleStates DEF OperatorState
      <3>3. CASE k = o /\ ReadToApprove(o, p)
        BY <1>1, <2>1, <3>2, <3>3 DEF ReadToApprove, Read, MayDecide, Due
      <3>4. CASE k = o /\ ReadToReject(o, p)
        BY <1>1, <2>1, <3>2, <3>4 DEF ReadToReject, Read, MayDecide, Due
      <3>5. CASE k = o /\ ReadToApply(o, p)
        <4>1. operator'[o] = [IdleOperator EXCEPT !.pc = "opening", !.id = p]
          BY <1>1, <3>5 DEF ReadToApply, Read
        <4>2. proposal[p].status = "approved" /\ proposal[p].signed
          BY <3>5, Zenon DEF ReadToApply, Read, MayApply
        <4>3. operator'[o].pc = "opening" /\ operator'[o].id = p
          BY <3>2, <4>1
        <4> QED
          BY <2>1, <3>5, <4>2, <4>3 DEF Due
      <3> QED
        BY <1>4, <3>1, <3>3, <3>4, <3>5
    <2> QED
      BY <1>2, <2>1, <2>2 DEF DecisionsInv
  (* The other operators are idle, and stay so.                             *)
  <1>5. ASSUME operator[o].pc # "idle", operator' = [operator EXCEPT ![o] = IdleOperator]
        PROVE  \A k \in Operators : Due(proposal', operator'[k])
    <2>1. \A k \in Operators : operator'[k].pc = "idle"
      BY <1>1, <1>5 DEF Alone, IdleOperator
    <2> QED
      BY <2>1 DEF Due
  <1>6. CASE Approve(o)
    <2>1. /\ proposal'[q].status = "approved"
          /\ \A r \in Proposals \ {q} : proposal'[r] = proposal[r]
          /\ q \notin rejected
      BY <1>1, <1>2, <1>6 DEF Approve, Due, ProposalRow
    <2>2. \A k \in Operators : Due(proposal', operator'[k])
      BY <1>5, <1>6 DEF Approve
    <2> QED
      BY <1>1, <1>2, <1>6, <2>1, <2>2 DEF Approve, DecisionsInv
  <1>7. CASE Reject(o)
    <2>1. /\ proposal'[q].status = "rejected"
          /\ \A r \in Proposals \ {q} : proposal'[r] = proposal[r]
          /\ q \notin approved
      BY <1>1, <1>2, <1>7 DEF Reject, Due, ProposalRow
    <2>2. \A k \in Operators : Due(proposal', operator'[k])
      BY <1>5, <1>7 DEF Reject
    <2> QED
      BY <1>1, <1>2, <1>7, <2>1, <2>2 DEF Reject, DecisionsInv
  <1>8. CASE ApplyOpen(o) \/ ApplyWrite(o) \/ ApplyBaseline(o)
    <2>1. UNCHANGED <<proposal, approved, rejected>>
      BY <1>8 DEF ApplyOpen, ApplyWrite, ApplyBaseline, history
    <2>2. /\ \A k \in Operators \ {o} : operator'[k] = operator[k]
          /\ operator'[o].id = q
          /\ operator'[o].pc \in {"writing", "baselining", "marking"}
          /\ operator[o].pc \in {"opening", "writing", "baselining"}
      BY <1>1, <1>8 DEF ApplyOpen, ApplyWrite, ApplyBaseline, OperatorState
    <2>3. Due(proposal, operator'[o])
      BY <1>2, <2>2 DEF Due
    <2> QED
      BY <1>2, <2>1, <2>2, <2>3 DEF DecisionsInv
  <1>9. CASE ApplyMark(o)
    <2>1. /\ proposal'[q].status = "applied"
          /\ \A r \in Proposals \ {q} : proposal'[r] = proposal[r]
          /\ q \notin rejected
          /\ UNCHANGED <<approved, rejected>>
      BY <1>1, <1>2, <1>9 DEF ApplyMark, Due, ProposalRow, history
    <2>2. \A k \in Operators : Due(proposal', operator'[k])
      BY <1>5, <1>9 DEF ApplyMark
    <2> QED
      BY <1>1, <1>2, <2>1, <2>2 DEF DecisionsInv
  <1> QED
    BY <1>3, <1>4, <1>6, <1>7, <1>8, <1>9 DEF OperatorStep

LEMMA NextDecides ==
  Typed /\ AloneInv /\ DecisionsInv /\ [Next]_vars => DecisionsInv'
  <1> SUFFICES ASSUME Typed, AloneInv, DecisionsInv, [Next]_vars, ~overlapped'
               PROVE  DecisionsInv'
    BY DEF DecisionsInv
  <1>1. ~overlapped /\ Alone
    BY HistoryStays DEF AloneInv
  <1>2. CASE UNCHANGED <<proposal, operator, approved, rejected>>
    BY <1>1, <1>2 DEF DecisionsInv
  <1>3. ASSUME NEW f \in Profiles, ProfileStep(f) PROVE DecisionsInv'
    BY <1>2, <1>3 DEF ProfileStep, ProfileStart, SnapshotFile, SnapshotBaseline, CopyOpen,
         CopyWrite, CopyFails, Align, Leave, RestoreOpen, RestoreWrite,
         RestoreBaseline, stores, history
  <1>4. ASSUME NEW a \in Agents, AgentStep(a) PROVE DecisionsInv'
    BY <1>2, <1>4 DEF AgentStep, LoadStart, VerifyBaseline, VerifyFile, ReadSpec,
         LoadEnd, stores, history
  <1>5. CASE Crash
    <2>1. \A o \in Operators : Due(proposal', operator'[o])
      BY <1>5 DEF Crash, IdleOperator, Due
    <2> QED
      BY <1>1, <1>5, <2>1 DEF Crash, DecisionsInv
  <1>6. CASE UNCHANGED vars
    BY <1>2, <1>6 DEF vars, stores, history
  <1> QED
    BY <1>1, <1>3, <1>4, <1>5, <1>6, OperatorDecides DEF Next

LEMMA AlwaysDecides == Spec => []DecisionsInv
  <1>1. Init => DecisionsInv
    <2>1. ASSUME Init  PROVE  approved = {} /\ rejected = {}
      BY <2>1 DEF Init
    <2>2. ASSUME Init  PROVE  \A o \in Operators : operator[o].pc = "idle"
      BY <2>2 DEF Init, IdleOperator
    <2> QED
      BY <2>1, <2>2 DEF DecisionsInv, Due
  <1> QED
    BY <1>1, NextDecides, AlwaysTyped, AlwaysAlone, PTL DEF Spec

(* While operations do not overlap a rejected proposal is never approved    *)
(* and never in force (reject_proposal, apply_proposal).                    *)
THEOREM RejectionsAreFinal == Spec => []RejectionIsFinal
  <1>1. Typed /\ DecisionsInv /\ GovernedInv => RejectionIsFinal
    <2> SUFFICES ASSUME Typed, DecisionsInv, GovernedInv, ~overlapped, NEW p \in rejected
                 PROVE  p \notin approved /\ \A t \in Types : baseline[t].by # p
      BY DEF RejectionIsFinal
    <2>1. p \in Proposals /\ p \notin approved
      BY DEF Typed, TypeOK, DecisionsInv
    <2>2. \A t \in Types : baseline[t].by # p
      BY <2>1 DEF GovernedInv, SpecBacked, BackedBy
    <2> QED
      BY <2>1, <2>2
  <1> QED
    BY <1>1, AlwaysTyped, AlwaysDecides, AlwaysGoverned, PTL

-----------------------------------------------------------------------------
(* A load has verified the types it is through with and read those it no    *)
(* longer wants.                                                            *)
Loaded(f, b, s) ==
  /\ s.pc # "idle" => \A t \in Types \ s.want : s.got[t] = b[t].content
  /\ s.pc \in {"baseline", "verify"} => \A t \in Types \ s.todo : f[t] = b[t].content
  /\ s.pc = "verify" => s.seen = b[First(s.todo)].content
  /\ s.pc = "read" => \A t \in Types : f[t] = b[t].content

LoadsInv == ~overlapped => \A a \in Agents : Loaded(file, baseline, agent[a])

LEMMA AgentLoads ==
  ASSUME Typed, LoadsInv, NEW a \in Agents, AgentStep(a), ~overlapped
  PROVE  LoadsInv'
  <1> USE DEF Typed, TypeOK
  <1> DEFINE s == agent[a]
  <1>1. /\ s \in AgentState /\ Loaded(file, baseline, s)
        /\ \A b \in Agents : Loaded(file, baseline, agent[b])
    BY DEF LoadsInv
  <1>2. /\ s.pc \in {"baseline", "verify"} => First(s.todo) \in s.todo /\ First(s.todo) \in Types
        /\ s.pc = "read" => First(s.want) \in s.want /\ First(s.want) \in Types
    BY <1>1, FirstIsIn DEF LoopsHaveWork, AgentState
  <1>3. file' = file /\ baseline' = baseline
    BY DEF AgentStep, LoadStart, VerifyBaseline, VerifyFile, ReadSpec, LoadEnd, stores
  <1>4. ASSUME NEW r, agent' = [agent EXCEPT ![a] = r], Loaded(file, baseline, r)
        PROVE  LoadsInv'
    BY <1>1, <1>3, <1>4 DEF LoadsInv
  <1>5. Loaded(file, baseline, IdleAgent)
    BY DEF Loaded, IdleAgent
  <1>6. CASE LoadStart(a)
    <2> DEFINE r == [IdleAgent EXCEPT !.pc = "baseline", !.want = Types, !.todo = Types]
    <2>1. r.pc = "baseline" /\ r.want = Types /\ r.todo = Types
      BY IdleStates DEF AgentState
    <2>2. agent' = [agent EXCEPT ![a] = r]
      BY <1>6 DEF LoadStart
    <2> HIDE DEF r
    <2>3. Loaded(file, baseline, r)
      BY <2>1 DEF Loaded
    <2> QED
      BY <1>4, <2>2, <2>3
  <1>7. CASE VerifyBaseline(a)
    <2> DEFINE r == [s EXCEPT !.pc = "verify", !.seen = baseline[First(s.todo)].content]
    <2>1. /\ r.pc = "verify" /\ r.want = s.want /\ r.todo = s.todo /\ r.got = s.got
          /\ r.seen = baseline[First(s.todo)].content
          /\ s.pc = "baseline"
      BY <1>1, <1>7 DEF VerifyBaseline, AgentState
    <2>2. agent' = [agent EXCEPT ![a] = r]
      BY <1>7 DEF VerifyBaseline
    <2> HIDE DEF r
    <2>3. Loaded(file, baseline, r)
      BY <1>1, <2>1 DEF Loaded
    <2> QED
      BY <1>4, <2>2, <2>3
  <1>8. CASE VerifyFile(a)
    <2> DEFINE t == First(s.todo)
    <2>1. s.pc = "verify"
      BY <1>8 DEF VerifyFile
    <2>2. CASE ~Matches(a)
      BY <1>4, <1>5, <1>8, <2>2 DEF VerifyFile
    <2>3. CASE Matches(a)
      <3>1. file[t] = baseline[t].content
        BY <1>1, <2>1, <2>3 DEF Matches, Loaded
      <3>2. \A u \in Types \ Rest(s.todo) : file[u] = baseline[u].content
        BY <1>1, <2>1, <3>1 DEF Rest, Loaded
      <3>3. CASE Rest(s.todo) = {}
        <4> DEFINE r == [s EXCEPT !.pc = "read", !.todo = {}]
        <4>1. r.pc = "read" /\ r.want = s.want /\ r.got = s.got
          BY <1>1 DEF AgentState
        <4>2. agent' = [agent EXCEPT ![a] = r]
          BY <1>8, <2>3, <3>3 DEF VerifyFile
        <4> HIDE DEF r
        <4>3. Loaded(file, baseline, r)
          BY <1>1, <2>1, <3>2, <3>3, <4>1 DEF Loaded
        <4> QED
          BY <1>4, <4>2, <4>3
      <3>4. CASE Rest(s.todo) # {}
        <4> DEFINE r == [s EXCEPT !.pc = "baseline", !.todo = Rest(@)]
        <4>1. r.pc = "baseline" /\ r.todo = Rest(s.todo) /\ r.want = s.want /\ r.got = s.got
          BY <1>1 DEF AgentState
        <4>2. agent' = [agent EXCEPT ![a] = r]
          BY <1>8, <2>3, <3>4 DEF VerifyFile
        <4> HIDE DEF r
        <4>3. Loaded(file, baseline, r)
          BY <1>1, <2>1, <3>2, <4>1 DEF Loaded
        <4> QED
          BY <1>4, <4>2, <4>3
      <3> QED
        BY <3>3, <3>4
    <2> QED
      BY <2>2, <2>3
  <1>9. CASE ReadSpec(a)
    <2> DEFINE t == First(s.want)
               q == [s EXCEPT !.got[t] = file[t], !.want = Rest(@), !.todo = Types]
               r == IF q.want = {} THEN [q EXCEPT !.pc = "loaded"]
                                   ELSE [q EXCEPT !.pc = "baseline"]
    <2>1. s.pc = "read"
      BY <1>9 DEF ReadSpec
    <2>2. /\ q \in AgentState /\ q.want = s.want \ {t} /\ q.todo = Types
          /\ \A u \in Types : q.got[u] = IF u = t THEN file[t] ELSE s.got[u]
      BY <1>1, <1>2, <2>1 DEF AgentState, Rest
    <2> HIDE DEF q
    <2>3. /\ r.want = q.want /\ r.todo = Types /\ r.got = q.got
          /\ r.pc \in {"loaded", "baseline"}
      BY <2>2 DEF AgentState
    <2>4. agent' = [agent EXCEPT ![a] = r]
      BY <1>9 DEF ReadSpec, q
    <2>5. ASSUME NEW u \in Types \ q.want PROVE q.got[u] = baseline[u].content
      <3>1. /\ \A v \in Types : file[v] = baseline[v].content
            /\ \A v \in Types \ s.want : s.got[v] = baseline[v].content
        BY <1>1, <2>1 DEF Loaded
      <3>2. u = t \/ u \in Types \ s.want
        BY <2>2, <2>5
      <3> HIDE DEF t
      <3>3. q.got[u] = IF u = t THEN file[t] ELSE s.got[u]
        BY <2>2, <2>5
      <3> QED
        BY <3>1, <3>2, <3>3, <2>5
    <2> HIDE DEF r
    <2>6. Loaded(file, baseline, r)
      BY <2>3, <2>5 DEF Loaded
    <2> QED
      BY <1>4, <2>4, <2>6
  <1>10. CASE LoadEnd(a)
    BY <1>4, <1>5, <1>10 DEF LoadEnd
  <1> QED
    BY <1>6, <1>7, <1>8, <1>9, <1>10 DEF AgentStep

LEMMA NextLoads ==
  Typed /\ AloneInv /\ LoadsInv /\ [Next]_vars => LoadsInv'
  <1> SUFFICES ASSUME Typed, AloneInv, LoadsInv, [Next]_vars, ~overlapped'
               PROVE  LoadsInv'
    BY DEF LoadsInv
  <1>1. ~overlapped /\ Alone
    BY HistoryStays DEF AloneInv
  <1>2. CASE UNCHANGED <<file, baseline, agent>>
    BY <1>1, <1>2 DEF LoadsInv
  (* What writes finds no agent at work.                                    *)
  <1>3. ASSUME agent' = agent, \A a \in Agents : agent[a].pc = "idle"
        PROVE  LoadsInv'
    BY <1>3 DEF LoadsInv, Loaded
  <1>4. ASSUME NEW o \in Operators, OperatorStep(o) PROVE LoadsInv'
    <2>1. \/ UNCHANGED <<file, baseline>>
          \/ operator[o].pc # "idle"
      BY <1>4 DEF OperatorStep, Propose, ReadToApprove, ReadToReject, ReadToApply,
         Read, Approve, Reject, ApplyOpen, ApplyWrite, ApplyBaseline,
         ApplyMark, stores
    <2>2. agent' = agent
      BY <1>4 DEF OperatorStep, Propose, ReadToApprove, ReadToReject, ReadToApply,
         Read, Approve, Reject, ApplyOpen, ApplyWrite, ApplyBaseline, ApplyMark
    <2> QED
      BY <1>1, <1>2, <1>3, <2>1, <2>2 DEF Alone
  <1>5. ASSUME NEW f \in Profiles, ProfileStep(f) PROVE LoadsInv'
    <2>1. \/ UNCHANGED <<file, baseline>>
          \/ profile[f].pc \notin {"idle", "inside"}
      BY <1>5 DEF ProfileStep, ProfileStart, SnapshotFile, SnapshotBaseline, CopyOpen,
         CopyWrite, CopyFails, Align, Leave, RestoreOpen, RestoreWrite,
         RestoreBaseline, stores
    <2>2. agent' = agent
      BY <1>5 DEF ProfileStep, ProfileStart, SnapshotFile, SnapshotBaseline, CopyOpen,
         CopyWrite, CopyFails, Align, Leave, RestoreOpen, RestoreWrite,
         RestoreBaseline
    <2> QED
      BY <1>1, <1>2, <1>3, <2>1, <2>2 DEF Alone
  <1>6. CASE Crash
    BY <1>6 DEF Crash, IdleAgent, LoadsInv, Loaded
  <1>7. CASE UNCHANGED vars
    BY <1>2, <1>7 DEF vars, stores
  <1> QED
    BY <1>1, <1>4, <1>5, <1>6, <1>7, AgentLoads DEF Next

LEMMA AlwaysLoads == Spec => []LoadsInv
  <1>1. Init => LoadsInv
    BY DEF Init, LoadsInv, Loaded, IdleAgent
  <1> QED
    BY <1>1, NextLoads, AlwaysTyped, AlwaysAlone, PTL DEF Spec

(* While operations do not overlap, an agent obeys only specifications that *)
(* the baselines approve (load_specifications), a crashed write included.   *)
THEOREM AgentsLoadApproved == Spec => []LoadsAreApproved
  <1>1. LoadsInv => LoadsAreApproved
    BY DEF LoadsInv, Loaded, LoadsAreApproved
  <1> QED
    BY <1>1, AlwaysLoads, PTL

-----------------------------------------------------------------------------
(* A content c and a baseline b of type t that leave nothing to repair, or  *)
(* nothing that applying an approved proposal of the table P does not       *)
(* repair.                                                                  *)
Pending(P, c, t) == \E p \in Proposals : /\ P[p].type = t
                                         /\ P[p].status = "approved" /\ P[p].signed
                                         /\ c \in {Torn, P[p].content}

Safe(P, c, b, t) == /\ b.by # "profile"
                    /\ c = b.content \/ Pending(P, c, t)

(* A profile saves the safe contents and baselines it finds, and has put    *)
(* back those of the types it is through with.                              *)
Saved(P, f, b, s) ==
  /\ s.pc \in {"idle", "files", "baselines"} => \A t \in Types : Safe(P, f[t], b[t], t)
  /\ s.pc = "files" => \A t \in Types \ s.todo : s.files[t] = f[t]
  /\ s.pc = "baselines" => /\ \A t \in Types : s.files[t] = f[t]
                           /\ \A t \in Types \ s.todo : s.baselines[t] = b[t]
  /\ s.pc \notin {"idle", "files", "baselines"} =>
       \A t \in Types : Safe(P, s.files[t], s.baselines[t], t)
  /\ s.pc \in {"restoring", "restored"} => \A t \in Types \ s.todo : f[t] = s.files[t]
  /\ s.pc = "rebasing" => /\ \A t \in Types : f[t] = s.files[t]
                          /\ \A t \in Types \ s.todo : b[t] = s.baselines[t]

(* An apply has written what it is to baseline, and baselined what it is to *)
(* mark.                                                                    *)
Applied(P, f, b, s) ==
  /\ s.pc \in {"baselining", "marking"} => f[P[s.id].type] = P[s.id].content
  /\ s.pc = "marking" => b[P[s.id].type].content = P[s.id].content

SafeInv ==
  ~overlapped /\ ~cut =>
    /\ (\A f \in Profiles : profile[f].pc = "idle") =>
         \A t \in Types : Safe(proposal, file[t], baseline[t], t)
    /\ \A f \in Profiles : profile[f].pc # "idle" =>
         Saved(proposal, file, baseline, profile[f])
    /\ \A o \in Operators : Applied(proposal, file, baseline, operator[o])

LEMMA OperatorSafe ==
  ASSUME Typed, Alone, DecisionsInv, SafeInv, NEW o \in Operators, OperatorStep(o),
         ~overlapped, ~cut, ~overlapped', GovernedInv
  PROVE  SafeInv'
  <1> USE DEF Typed, TypeOK
  <1> DEFINE q == operator[o].id
             u == proposal[q].type
  <1>1. /\ q \in Proposals /\ u \in Types
        /\ \A p \in Proposals : proposal[p] \in ProposalRow
        /\ \A k \in Operators : operator[k] \in OperatorState
    BY DEF OperatorState, ProposalRow
  (* The profiles are idle.                                                 *)
  <1>2. \A f \in Profiles : profile[f].pc = "idle"
    <2>1. CASE operator[o].pc # "idle"
      BY <2>1 DEF Alone
    <2>2. CASE Begin
      BY <2>2, BeginAlone
    <2> QED
      BY <2>1, <2>2 DEF OperatorStep, Propose, ReadToApprove, ReadToReject, ReadToApply,
         Read, Approve, Reject, ApplyOpen, ApplyWrite, ApplyBaseline, ApplyMark
  <1>3. profile' = profile
    BY DEF OperatorStep, Propose, ReadToApprove, ReadToReject, ReadToApply,
       Read, Approve, Reject, ApplyOpen, ApplyWrite, ApplyBaseline, ApplyMark
  <1>4. /\ \A t \in Types : Safe(proposal, file[t], baseline[t], t)
        /\ \A k \in Operators : Applied(proposal, file, baseline, operator[k])
        /\ \A k \in Operators : Due(proposal, operator[k])
    BY <1>2 DEF SafeInv, DecisionsInv
  (* What is left to show.                                                  *)
  <1>5. ASSUME \A t \in Types : Safe(proposal', file'[t], baseline'[t], t),
               \A k \in Operators : Applied(proposal', file', baseline', operator'[k])
        PROVE  SafeInv'
    BY <1>2, <1>3, <1>5 DEF SafeInv
  <1>6. ASSUME NEW k \in Operators, operator'[k].pc = "idle"
        PROVE  Applied(proposal', file', baseline', operator'[k])
    BY <1>6 DEF Applied
  <1>7. ASSUME NEW p \in Proposals, NEW t \in Types, NEW c \in Contents,
               Propose(o, p, t, c)
        PROVE  SafeInv'
    <2>1. \A k \in Operators : operator'[k].pc = "idle"
      BY <1>7, BeginAlone DEF Propose
    <2>2. /\ file' = file /\ baseline' = baseline
          /\ \A r \in Proposals \ {p} : proposal'[r] = proposal[r]
          /\ proposal[p].status = "absent"
      BY <1>1, <1>7 DEF Propose
    <2>3. \A v \in Types : \A d : Pending(proposal, d, v) => Pending(proposal', d, v)
      BY <2>2 DEF Pending
    <2> QED
      BY <1>4, <1>5, <1>6, <2>1, <2>2, <2>3 DEF Safe
  <1>8. ASSUME NEW p \in Proposals,
               ReadToApprove(o, p) \/ ReadToReject(o, p) \/ ReadToApply(o, p)
        PROVE  SafeInv'
    <2>1. UNCHANGED stores
      BY <1>8 DEF ReadToApprove, ReadToReject, ReadToApply, Read
    <2>2. \A k \in Operators \ {o} : operator'[k] = operator[k]
      BY <1>8 DEF ReadToApprove, ReadToReject, ReadToApply, Read
    <2>3. operator'[o].pc \in {"approving", "rejecting", "opening"}
      <3>1. ASSUME NEW pc \in {"approving", "rejecting", "opening"}
            PROVE  [IdleOperator EXCEPT !.pc = pc, !.id = p].pc = pc
        BY IdleStates DEF OperatorState
      <3> QED
        BY <1>8, <3>1 DEF ReadToApprove, ReadToReject, ReadToApply, Read
    <2>4. Applied(proposal', file', baseline', operator'[o])
      BY <2>3 DEF Applied
    <2> QED
      BY <1>4, <1>5, <2>1, <2>2, <2>4 DEF stores
  (* The others are idle.                                                   *)
  <1>9. ASSUME operator[o].pc # "idle",
               \A k \in Operators \ {o} : operator'[k] = operator[k],
               Applied(proposal', file', baseline', operator'[o])
        PROVE  \A k \in Operators : Applied(proposal', file', baseline', operator'[k])
    <2>1. \A k \in Operators \ {o} : operator'[k].pc = "idle"
      BY <1>9 DEF Alone
    <2> QED
      BY <1>6, <1>9, <2>1
  <1>10. ASSUME operator[o].pc # "idle", operator' = [operator EXCEPT ![o] = IdleOperator]
         PROVE  \A k \in Operators : Applied(proposal', file', baseline', operator'[k])
    <2>1. \A k \in Operators : operator'[k].pc = "idle"
      BY <1>1, <1>10 DEF Alone, IdleOperator
    <2> QED
      BY <1>6, <2>1
  <1>11. CASE Approve(o)
    <2>1. /\ file' = file /\ baseline' = baseline
          /\ \A r \in Proposals \ {q} : proposal'[r] = proposal[r]
          /\ proposal[q].status = "proposed"
      BY <1>1, <1>4, <1>11 DEF Approve, Due
    <2>2. \A v \in Types : \A d : Pending(proposal, d, v) => Pending(proposal', d, v)
      BY <2>1 DEF Pending
    <2>3. \A k \in Operators : Applied(proposal', file', baseline', operator'[k])
      BY <1>10, <1>11 DEF Approve
    <2> QED
      BY <1>4, <1>5, <2>1, <2>2, <2>3 DEF Safe
  <1>12. CASE Reject(o)
    <2>1. /\ file' = file /\ baseline' = baseline
          /\ \A r \in Proposals \ {q} : proposal'[r] = proposal[r]
          /\ proposal[q].status = "proposed"
      BY <1>1, <1>4, <1>12 DEF Reject, Due
    <2>2. \A v \in Types : \A d : Pending(proposal, d, v) => Pending(proposal', d, v)
      BY <2>1 DEF Pending
    <2>3. \A k \in Operators : Applied(proposal', file', baseline', operator'[k])
      BY <1>10, <1>12 DEF Reject
    <2> QED
      BY <1>4, <1>5, <2>1, <2>2, <2>3 DEF Safe
  <1>13. ASSUME operator[o].pc \in {"opening", "writing", "baselining", "marking"}
         PROVE  /\ proposal[q].status = "approved"
                /\ Pending(proposal, Torn, u)
                /\ Pending(proposal, proposal[q].content, u)
    <2>1. proposal[q].status = "approved" /\ proposal[q].signed
      BY <1>4, <1>13, Zenon DEF Due
    <2> QED
      BY <1>1, <2>1 DEF Pending
  <1>14. ASSUME NEW pc \in {"writing", "baselining", "marking"},
                operator' = [operator EXCEPT ![o].pc = pc]
         PROVE  /\ operator'[o].pc = pc /\ operator'[o].id = q
                /\ \A k \in Operators \ {o} : operator'[k] = operator[k]
    BY <1>1, <1>14 DEF OperatorState
  <1>15. CASE ApplyOpen(o)
    <2>1. /\ baseline' = baseline /\ proposal' = proposal
          /\ \A t \in Types : file'[t] = IF t = u THEN Torn ELSE file[t]
      BY <1>1, <1>15 DEF ApplyOpen
    <2>2. Pending(proposal', Torn, u)
      BY <1>13, <1>15, <2>1 DEF ApplyOpen
    <2>3. \A t \in Types : Safe(proposal', file'[t], baseline'[t], t)
      BY <1>4, <2>1, <2>2 DEF Safe
    <2>4. operator'[o].pc = "writing" /\ \A k \in Operators \ {o} : operator'[k] = operator[k]
      BY <1>14, <1>15 DEF ApplyOpen
    <2>5. Applied(proposal', file', baseline', operator'[o])
      BY <2>4 DEF Applied
    <2> QED
      BY <1>5, <1>9, <1>15, <2>3, <2>4, <2>5 DEF ApplyOpen
  <1>16. CASE ApplyWrite(o)
    <2>1. /\ baseline' = baseline /\ proposal' = proposal
          /\ \A t \in Types : file'[t] = IF t = u THEN proposal[q].content ELSE file[t]
      BY <1>1, <1>16 DEF ApplyWrite
    <2>2. Pending(proposal', proposal[q].content, u)
      BY <1>13, <1>16, <2>1 DEF ApplyWrite
    <2>3. \A t \in Types : Safe(proposal', file'[t], baseline'[t], t)
      BY <1>4, <2>1, <2>2 DEF Safe
    <2>4. /\ operator'[o].pc = "baselining" /\ operator'[o].id = q
          /\ \A k \in Operators \ {o} : operator'[k] = operator[k]
      BY <1>14, <1>16 DEF ApplyWrite
    <2>5. Applied(proposal', file', baseline', operator'[o])
      BY <1>1, <2>1, <2>4 DEF Applied
    <2> QED
      BY <1>5, <1>9, <1>16, <2>3, <2>4, <2>5 DEF ApplyWrite
  <1>17. CASE ApplyBaseline(o)
    <2>1. /\ file' = file /\ proposal' = proposal
          /\ \A t \in Types : baseline'[t] =
               IF t = u THEN [content |-> proposal[q].content, by |-> q] ELSE baseline[t]
      BY <1>1, <1>17 DEF ApplyBaseline
    <2>2. file[u] = proposal[q].content /\ q # "profile"
      BY <1>1, <1>4, <1>17, GovernanceAssumption DEF ApplyBaseline, Applied
    <2>3. \A t \in Types : Safe(proposal', file'[t], baseline'[t], t)
      BY <1>4, <2>1, <2>2 DEF Safe
    <2>4. /\ operator'[o].pc = "marking" /\ operator'[o].id = q
          /\ \A k \in Operators \ {o} : operator'[k] = operator[k]
      BY <1>14, <1>17 DEF ApplyBaseline
    <2>5. Applied(proposal', file', baseline', operator'[o])
      <3>1. baseline'[u].content = proposal[q].content
        BY <1>1, <2>1
      <3> QED
        BY <2>1, <2>2, <2>4, <3>1 DEF Applied
    <2> QED
      BY <1>5, <1>9, <1>17, <2>3, <2>4, <2>5 DEF ApplyBaseline
  <1>18. CASE ApplyMark(o)
    <2>1. /\ file' = file /\ baseline' = baseline
          /\ \A r \in Proposals \ {q} : proposal'[r] = proposal[r]
      BY <1>1, <1>18 DEF ApplyMark
    <2>2. file[u] = baseline[u].content
      BY <1>4, <1>18 DEF ApplyMark, Applied
    <2>3. \A v \in Types \ {u} : \A d : Pending(proposal, d, v) => Pending(proposal', d, v)
      BY <2>1 DEF Pending
    <2>4. \A t \in Types : Safe(proposal', file'[t], baseline'[t], t)
      BY <1>4, <2>1, <2>2, <2>3 DEF Safe
    <2>5. \A k \in Operators : Applied(proposal', file', baseline', operator'[k])
      BY <1>10, <1>18 DEF ApplyMark
    <2> QED
      BY <1>5, <2>4, <2>5
  <1> QED
    BY <1>7, <1>8, <1>11, <1>12, <1>15, <1>16, <1>17, <1>18 DEF OperatorStep

LEMMA AdvanceSteps ==
  ASSUME NEW s \in ProfileState, s.todo # {},
         NEW next \in {"baselines", "copying", "aligning", "inside", "rebasing"},
         NEW types \in SUBSET Types
  PROVE  LET r == Advance(s, next, types) IN
         /\ r.files = s.files
         /\ r.baselines = s.baselines
         /\ \/ Rest(s.todo) = {} /\ r.pc = next /\ r.todo = types
            \/ r.pc = s.pc /\ r.todo = Rest(s.todo)
  BY DEF Advance, Rest, ProfileState

LEMMA ProfileSafe ==
  ASSUME Typed, Alone, SafeInv, NEW f \in Profiles, ProfileStep(f),
         ~overlapped, ~cut, ~overlapped'
  PROVE  SafeInv'
  <1> USE DEF Typed, TypeOK
  <1> DEFINE s == profile[f]
             t == First(s.todo)
             P == proposal
  <1>1. s \in ProfileState
    OBVIOUS
  <1>2. s.pc \notin {"idle", "inside"} => /\ s.todo # {} /\ t \in s.todo /\ t \in Types
                                          /\ s.todo \subseteq Types
                                          /\ Rest(s.todo) = s.todo \ {t}
    BY <1>1, FirstIsIn DEF LoopsHaveWork, ProfileState, Rest
  <1>3. /\ UNCHANGED <<proposal, operator>>
        /\ \A g \in Profiles \ {f} : profile'[g] = profile[g]
    BY DEF ProfileStep, ProfileStart, SnapshotFile, SnapshotBaseline, CopyOpen,
           CopyWrite, CopyFails, Align, Leave, RestoreOpen, RestoreWrite,
           RestoreBaseline, stores, history
  (* Nothing else is at work.                                               *)
  <1>4. /\ \A o \in Operators : operator[o].pc = "idle"
        /\ \A g \in Profiles \ {f} : profile[g].pc = "idle"
    <2>1. CASE s.pc # "idle"
      BY <2>1 DEF Alone
    <2>2. CASE s.pc = "idle"
      <3>1. Begin
        BY <2>2 DEF ProfileStep, ProfileStart, SnapshotFile, SnapshotBaseline, CopyOpen,
           CopyWrite, CopyFails, Align, Leave, RestoreOpen, RestoreWrite, RestoreBaseline
      <3> QED
        BY <3>1, BeginAlone
    <2> QED
      BY <2>1, <2>2
  <1>5. Saved(P, file, baseline, s)
    BY <1>4 DEF SafeInv, Saved
  (* What is left to show.                                                  *)
  <1>6. ASSUME Saved(P, file', baseline', profile'[f])
        PROVE  SafeInv'
    <2>1. \A o \in Operators : Applied(proposal', file', baseline', operator'[o])
      BY <1>3, <1>4 DEF Applied
    <2>2. \A g \in Profiles : profile'[g].pc # "idle" =>
            Saved(proposal', file', baseline', profile'[g])
      BY <1>3, <1>4, <1>6
    <2>3. (\A g \in Profiles : profile'[g].pc = "idle") =>
            \A u \in Types : Safe(proposal', file'[u], baseline'[u], u)
      BY <1>3, <1>6 DEF Saved
    <2> QED
      BY <2>1, <2>2, <2>3 DEF SafeInv
  <1>7. CASE ProfileStart(f)
    <2>1. profile'[f].pc = "files" /\ profile'[f].todo = Types
      BY <1>7, IdleStates DEF ProfileStart, ProfileState
    <2>2. file' = file /\ baseline' = baseline /\ s.pc = "idle"
      BY <1>7 DEF ProfileStart, stores
    <2>3. Saved(P, file', baseline', profile'[f])
      BY <1>5, <2>1, <2>2 DEF Saved
    <2> QED
      BY <1>6, <2>3
  <1>8. CASE SnapshotFile(f)
    <2> DEFINE q == [s EXCEPT !.files[t] = file[t]]
               r == Advance(q, "baselines", Types)
    <2>1. q \in ProfileState /\ q.todo = s.todo /\ q.pc = "files"
      BY <1>1, <1>2, <1>8 DEF SnapshotFile, ProfileState
    <2>2. \A u \in Types : q.files[u] = IF u = t THEN file[t] ELSE s.files[u]
      BY <1>1 DEF ProfileState
    <2>3. profile'[f] = r /\ file' = file /\ baseline' = baseline /\ s.pc = "files"
      BY <1>8 DEF SnapshotFile, stores
    <2> HIDE DEF q
    <2>4. /\ r.files = q.files
          /\ \/ Rest(s.todo) = {} /\ r.pc = "baselines" /\ r.todo = Types
             \/ r.pc = "files" /\ r.todo = Rest(s.todo)
      <3>1. Types \in SUBSET Types /\ q.todo # {} /\ Rest(q.todo) = Rest(s.todo)
        BY <1>2, <2>1, <2>3
      <3> QED
        BY <2>1, <3>1, AdvanceSteps
    <2>5. \A u \in Types \ Rest(s.todo) : q.files[u] = file[u]
      BY <1>2, <1>5, <2>2, <2>3 DEF Saved
    <2>6. \A u \in Types : Safe(P, file[u], baseline[u], u)
      BY <1>5, <2>3 DEF Saved
    <2> HIDE DEF r
    <2>7. Saved(P, file', baseline', profile'[f])
      BY <2>3, <2>4, <2>5, <2>6 DEF Saved
    <2> QED
      BY <1>6, <2>7
  <1>9. CASE SnapshotBaseline(f)
    <2> DEFINE q == [s EXCEPT !.baselines[t] = baseline[t]]
               r == Advance(q, "copying", PackTypes)
    <2>1. q \in ProfileState /\ q.todo = s.todo /\ q.pc = "baselines" /\ q.files = s.files
      BY <1>1, <1>2, <1>9 DEF SnapshotBaseline, ProfileState
    <2>2. \A u \in Types : q.baselines[u] = IF u = t THEN baseline[t] ELSE s.baselines[u]
      BY <1>1 DEF ProfileState
    <2>3. profile'[f] = r /\ file' = file /\ baseline' = baseline /\ s.pc = "baselines"
      BY <1>9 DEF SnapshotBaseline, stores
    <2> HIDE DEF q
    <2>4. /\ r.files = q.files /\ r.baselines = q.baselines
          /\ \/ Rest(s.todo) = {} /\ r.pc = "copying"
             \/ r.pc = "baselines" /\ r.todo = Rest(s.todo)
      <3>1. PackTypes \in SUBSET Types /\ q.todo # {} /\ Rest(q.todo) = Rest(s.todo)
        BY <1>2, <2>1, <2>3, GovernanceAssumption
      <3> QED
        BY <2>1, <3>1, AdvanceSteps
    <2>5. \A u \in Types \ Rest(s.todo) : q.baselines[u] = baseline[u]
      BY <1>2, <1>5, <2>2, <2>3 DEF Saved
    <2>6. \A u \in Types : Safe(P, file[u], baseline[u], u) /\ q.files[u] = file[u]
      BY <1>5, <2>1, <2>3 DEF Saved
    <2> HIDE DEF r
    <2>7. Saved(P, file', baseline', profile'[f])
      BY <2>3, <2>4, <2>5, <2>6 DEF Saved
    <2> QED
      BY <1>6, <2>7
  (* From the copy to the restore nothing that was saved changes.           *)
  <1>10. ASSUME s.pc \in {"copying", "copied", "aligning", "inside"},
                profile'[f].files = s.files, profile'[f].baselines = s.baselines,
                \/ profile'[f].pc \in {"copying", "copied", "aligning", "inside"}
                \/ profile'[f].pc = "restoring" /\ profile'[f].todo = Types
         PROVE  SafeInv'
    <2>1. Saved(P, file', baseline', profile'[f])
      BY <1>5, <1>10 DEF Saved
    <2> QED
      BY <1>6, <2>1
  <1>11. CASE CopyOpen(f) \/ CopyFails(f) \/ Leave(f)
    <2>1. /\ s.pc \in {"copying", "inside"}
          /\ profile'[f].files = s.files /\ profile'[f].baselines = s.baselines
          /\ \/ profile'[f].pc = "copied"
             \/ profile'[f].pc = "restoring" /\ profile'[f].todo = Types
      BY <1>1, <1>11 DEF CopyOpen, CopyFails, Leave, ProfileState
    <2> QED
      BY <1>10, <2>1
  <1>12. CASE CopyWrite(f)
    <2> DEFINE q == [s EXCEPT !.pc = "copying"]
               r == Advance(q, "aligning", Types)
    <2>1. /\ q \in ProfileState /\ q.todo = s.todo /\ q.pc = "copying"
          /\ q.files = s.files /\ q.baselines = s.baselines
      BY <1>1 DEF ProfileState
    <2>2. profile'[f] = r /\ s.pc = "copied"
      BY <1>12 DEF CopyWrite
    <2> HIDE DEF q
    <2>3. /\ r.files = s.files /\ r.baselines = s.baselines
          /\ r.pc \in {"copying", "aligning"}
      BY <1>2, <2>1, <2>2, AdvanceSteps
    <2> HIDE DEF r
    <2> QED
      BY <1>10, <2>2, <2>3
  <1>13. CASE Align(f)
    <2> DEFINE r == Advance(s, "inside", Types)
    <2>1. profile'[f] = r /\ s.pc = "aligning"
      BY <1>13 DEF Align
    <2>2. r.files = s.files /\ r.baselines = s.baselines /\ r.pc \in {"aligning", "inside"}
      BY <1>1, <1>2, <2>1, AdvanceSteps
    <2> HIDE DEF r
    <2> QED
      BY <1>10, <2>1, <2>2
  <1>14. CASE RestoreOpen(f)
    <2>1. /\ s.pc = "restoring" /\ profile'[f].pc = "restored"
          /\ profile'[f].todo = s.todo
          /\ profile'[f].files = s.files /\ profile'[f].baselines = s.baselines
      BY <1>1, <1>14 DEF RestoreOpen, ProfileState
    <2>2. \A u \in Types \ s.todo : file'[u] = file[u]
      BY <1>2, <1>14 DEF RestoreOpen
    <2>3. Saved(P, file', baseline', profile'[f])
      BY <1>5, <2>1, <2>2 DEF Saved
    <2> QED
      BY <1>6, <2>3
  <1>15. CASE RestoreWrite(f)
    <2> DEFINE q == [s EXCEPT !.pc = "restoring"]
               r == Advance(q, "rebasing", Types)
    <2>1. /\ q \in ProfileState /\ q.todo = s.todo /\ q.pc = "restoring"
          /\ q.files = s.files /\ q.baselines = s.baselines
      BY <1>1 DEF ProfileState
    <2>2. profile'[f] = r /\ s.pc = "restored" /\ baseline' = baseline
      BY <1>15 DEF RestoreWrite
    <2>3. \A u \in Types : file'[u] = IF u = t THEN s.files[t] ELSE file[u]
      BY <1>2, <1>15 DEF RestoreWrite
    <2> HIDE DEF q
    <2>4. /\ r.files = s.files /\ r.baselines = s.baselines
          /\ \/ Rest(s.todo) = {} /\ r.pc = "rebasing" /\ r.todo = Types
             \/ r.pc = "restoring" /\ r.todo = Rest(s.todo)
      <3>1. q \in ProfileState /\ q.todo # {} /\ Rest(q.todo) = Rest(s.todo)
        BY <1>2, <2>1, <2>2
      <3>2. /\ r.files = q.files /\ r.baselines = q.baselines
            /\ \/ Rest(q.todo) = {} /\ r.pc = "rebasing" /\ r.todo = Types
               \/ r.pc = q.pc /\ r.todo = Rest(q.todo)
        BY ONLY <3>1, AdvanceSteps, "rebasing" \in {"baselines", "copying",
                "aligning", "inside", "rebasing"}, Types \in SUBSET Types
      <3> HIDE DEF r
      <3> QED
        BY ONLY <2>1, <3>1, <3>2
    <2>5. \A u \in Types \ Rest(s.todo) : file'[u] = s.files[u]
      BY <1>2, <1>5, <2>2, <2>3 DEF Saved
    <2>6. \A u \in Types : Safe(P, s.files[u], s.baselines[u], u)
      BY <1>5, <2>2 DEF Saved
    <2> HIDE DEF r
    <2>7. Saved(P, file', baseline', profile'[f])
      BY <2>2, <2>4, <2>5, <2>6 DEF Saved
    <2> QED
      BY <1>6, <2>7
  <1>16. CASE RestoreBaseline(f)
    <2>1. s.pc = "rebasing" /\ file' = file
      BY <1>16 DEF RestoreBaseline
    <2>2. \A u \in Types : baseline'[u] = IF u = t THEN s.baselines[t] ELSE baseline[u]
      BY <1>2, <1>16 DEF RestoreBaseline, RestoredBaseline
    <2>3. /\ \A u \in Types \ Rest(s.todo) : baseline'[u] = s.baselines[u]
          /\ \A u \in Types : file'[u] = s.files[u]
          /\ \A u \in Types : Safe(P, s.files[u], s.baselines[u], u)
      BY <1>2, <1>5, <2>1, <2>2 DEF Saved
    <2>4. CASE Rest(s.todo) = {}
      <3>1. profile'[f].pc = "idle"
        BY <1>16, <2>4 DEF RestoreBaseline, IdleProfile
      <3>2. \A u \in Types : Safe(P, file'[u], baseline'[u], u)
        BY <2>3, <2>4
      <3>3. Saved(P, file', baseline', profile'[f])
        BY <3>1, <3>2 DEF Saved
      <3> QED
        BY <1>6, <3>3
    <2>5. CASE Rest(s.todo) # {}
      <3> DEFINE r == Advance(s, "rebasing", {})
      <3>1. profile'[f] = r
        BY <1>16, <2>5 DEF RestoreBaseline
      <3>2. /\ r.files = s.files /\ r.baselines = s.baselines
            /\ r.pc = "rebasing" /\ r.todo = Rest(s.todo)
        <4>1. s \in ProfileState /\ s.todo # {}
          BY <1>1, <1>2, <2>1
        <4> QED
          BY ONLY <2>1, <2>5, <4>1, AdvanceSteps, "rebasing" \in {"baselines",
             "copying", "aligning", "inside", "rebasing"}, {} \in SUBSET Types
      <3> HIDE DEF r
      <3>3. Saved(P, file', baseline', profile'[f])
        BY <2>3, <3>1, <3>2 DEF Saved
      <3> QED
        BY <1>6, <3>3
    <2> QED
      BY <2>4, <2>5
  <1> QED
    BY <1>7, <1>8, <1>9, <1>11, <1>12, <1>13, <1>14, <1>15, <1>16 DEF ProfileStep

LEMMA NextSafe ==
  Typed /\ GovernedInv /\ AloneInv /\ DecisionsInv /\ SafeInv /\ [Next]_vars => SafeInv'
  <1> SUFFICES ASSUME Typed, GovernedInv, AloneInv, DecisionsInv, SafeInv, [Next]_vars,
                      ~overlapped', ~cut'
               PROVE  SafeInv'
    BY DEF SafeInv
  <1>1. ~overlapped /\ ~cut /\ Alone
    BY HistoryStays DEF AloneInv
  <1>2. CASE UNCHANGED <<file, baseline, proposal, operator, profile>>
    BY <1>1, <1>2 DEF SafeInv
  <1>3. ASSUME NEW a \in Agents, AgentStep(a) PROVE SafeInv'
    BY <1>2, <1>3 DEF AgentStep, LoadStart, VerifyBaseline, VerifyFile, ReadSpec,
         LoadEnd, stores
  <1>4. CASE Crash
    <2>1. \A f \in Profiles : profile[f].pc = "idle"
      BY <1>4, Zenon DEF Crash
    <2>2. \A t \in Types : Safe(proposal, file[t], baseline[t], t)
      BY <1>1, <2>1 DEF SafeInv
    <2>3. /\ file' = file /\ proposal' = proposal
          /\ \A t \in Types : \/ baseline'[t] = baseline[t]
                              \/ /\ baseline'[t].by = "bootstrap"
                                 /\ baseline'[t].content = file[t]
      BY <1>4 DEF Crash, Bootstrapped
    <2>4. \A t \in Types : Safe(proposal', file'[t], baseline'[t], t)
      BY <2>2, <2>3 DEF Safe
    <2>5. \A f \in Profiles : profile'[f].pc = "idle"
      BY <1>4 DEF Crash, IdleProfile
    <2>6. \A o \in Operators : operator'[o].pc = "idle"
      BY <1>4 DEF Crash, IdleOperator
    <2>7. \A o \in Operators : Applied(proposal', file', baseline', operator'[o])
      BY <2>6 DEF Applied
    <2> QED
      BY <2>4, <2>5, <2>7 DEF SafeInv
  <1>5. CASE UNCHANGED vars
    BY <1>2, <1>5 DEF vars, stores
  <1> QED
    BY <1>1, <1>3, <1>4, <1>5, OperatorSafe, ProfileSafe DEF Next

LEMMA AlwaysSafe == Spec => []SafeInv
  <1>1. Init => SafeInv
    <2> SUFFICES ASSUME Init PROVE SafeInv
      OBVIOUS
    <2>1. \A t \in Types : Safe(proposal, file[t], baseline[t], t)
      BY DEF Init, Bootstrapped, NoBaseline, Safe
    <2>2. /\ \A f \in Profiles : profile[f].pc = "idle"
          /\ \A o \in Operators : operator[o].pc = "idle"
      BY DEF Init, IdleProfile, IdleOperator
    <2> QED
      BY <2>1, <2>2 DEF SafeInv, Applied
  <1> QED
    BY <1>1, NextSafe, AlwaysTyped, AlwaysGoverned, AlwaysAlone, AlwaysDecides, PTL DEF Spec

(* Operations that never overlap are crash-safe (apply_proposal,            *)
(* pack_profile_context): at rest no baseline is a profile's, and a file    *)
(* that differs from its baseline is the work of an apply that can be done  *)
(* again.                                                                   *)
THEOREM SequentialUseIsSafe == Spec => []SequentialIsSafe
  <1>1. SafeInv => SequentialIsSafe
    <2> SUFFICES ASSUME SafeInv, AtRest, ~overlapped, ~cut, NEW t \in Types
                 PROVE  /\ baseline[t].by # "profile"
                        /\ \/ file[t] = baseline[t].content
                           \/ \E p \in Proposals :
                                /\ proposal[p].type = t
                                /\ MayApply(p)
                                /\ file[t] \in {Torn, proposal[p].content}
      BY DEF SequentialIsSafe
    <2>1. \A f \in Profiles : profile[f].pc = "idle"
      BY DEF AtRest, Writing, Swapped
    <2>2. Safe(proposal, file[t], baseline[t], t)
      BY <2>1 DEF SafeInv
    <2> QED
      BY <2>2, Zenon DEF Safe, Pending, MayApply
  <1> QED
    BY <1>1, AlwaysSafe, PTL
=============================================================================
