-------------------------- MODULE CapabilityPolicy --------------------------
(***************************************************************************)
(* The signed capability policy: its publication in                         *)
(* src/agents/capability_policy.py, and the grants that each process keeps  *)
(* in memory (src/agents/capability_checker.py).  A document stands for its *)
(* hash by a number.  Its signature always verifies here; the module        *)
(* Signing models a pair that does not match.                               *)
(*                                                                          *)
(* The threads of the server share one memory; a command of apxv_ctl is a   *)
(* process of its own, which loads the policy when it starts.  A request is *)
(* a task, of which this module has the steps that publish: the task says   *)
(* where it goes on after a publication ("then") and after a refused one    *)
(* ("orelse").                                                              *)
(***************************************************************************)
EXTENDS Servers, Integers, Sequences, FiniteSets

CONSTANTS Agents, Packs, Proofs,   \* the items that the studio keeps
          Core                     \* the built-in agents

Items == Agents \cup Packs \cup Proofs

AgentIds == Agents \cup {Core}

VARIABLES policy,   \* capabilities.json: a document, or a torn file
          docs,     \* documents signed so far
          history,  \* policy-v<n>.json
          grants,   \* the memory of each process
          task,     \* what each thread is doing
          (* History variables, read by the properties only.              *)
          granted,  \* agents that a finished publication granted
          behind    \* a publication replaced a policy its author never
                    \* read, or a memory was replaced while it was published

policyVars == <<policy, docs, history, grants, granted, behind>>

Doc(n, v, p, as) == [id |-> n, version |-> v, previous |-> p, agents |-> as]

Torn == Doc(0, 0, 0, {})

(* A task has the fields of every kind of request: what it publishes and    *)
(* the document it started from, the specifications it has still to apply,  *)
(* its copy of the studio's catalog, and the outcome of its test.           *)
Nothing == [status |-> "none", of |-> 0]
NoMeta == [promoted |-> "absent", maturity |-> "absent", last |-> Nothing]

AtRest == [pc |-> "idle", op |-> "none", item |-> Core, then |-> "idle",
           orelse |-> "idle", agents |-> {}, base |-> 0, doc |-> Torn,
           todo |-> <<>>, cat |-> [i \in Items |-> NoMeta], last |-> Nothing,
           force |-> FALSE]

PolicyInit(as) ==
  /\ policy = Doc(1, 1, 0, as)
  /\ docs = 1
  /\ history = <<policy>>
  /\ grants = [p \in Processes |-> [trusted |-> TRUE, agents |-> as, doc |-> 1]]
  /\ task = [t \in Threads |-> AtRest]
  /\ granted = as
  /\ behind = FALSE

At(t, pc) == task[t].pc = pc

Goto(t, pc) == task' = [task EXCEPT ![t] = IF pc = "idle" THEN AtRest
                                           ELSE [@ EXCEPT !.pc = pc]]

-----------------------------------------------------------------------------
(* What _load_policy leaves in the memory m of a process: a file that does  *)
(* not parse changes nothing but the error text.                            *)
Loaded(m) == IF policy = Torn THEN m
             ELSE [trusted |-> TRUE, agents |-> policy.agents,
                   doc |-> policy.id]

Fresh == Loaded([trusted |-> FALSE, agents |-> {}, doc |-> 0])

(* publish_policy reads the policy again, for the version and the previous  *)
(* hash: a torn file raises.                                                *)
PublishReads(t) ==
  /\ At(t, "publish")
  /\ policy # Torn
  /\ docs' = docs + 1
  /\ task' = [task EXCEPT ![t].pc = "signed",
                ![t].doc = Doc(docs', policy.version + 1, policy.id,
                               task[t].agents)]
  /\ UNCHANGED <<policy, history, grants, granted, behind>>

PublishRaises(t) ==
  /\ At(t, "publish")
  /\ policy = Torn
  /\ Goto(t, task[t].orelse)
  /\ UNCHANGED policyVars

(* _write_policy: the file is emptied, then written.                        *)
PublishTruncates(t) ==
  /\ At(t, "signed")
  /\ policy' = Torn
  /\ behind' = (behind \/ policy.id # task[t].base)
  /\ Goto(t, "truncated")
  /\ UNCHANGED <<docs, history, grants, granted>>

PublishWrites(t) ==
  /\ At(t, "truncated")
  /\ policy' = task[t].doc
  /\ Goto(t, "written")
  /\ UNCHANGED <<docs, history, grants, granted, behind>>

Recorded(d) == [v \in DOMAIN history \cup {d.version} |->
                  IF v = d.version THEN d ELSE history[v]]

(* The copy in the history.  A checker that published its own memory keeps  *)
(* it; its document is now the one signed.                                  *)
PublishRecords(t) ==
  LET p == Process(t) IN
  /\ At(t, "written")
  /\ history' = Recorded(task[t].doc)
  /\ granted' = granted \cup task[t].doc.agents
  /\ IF task[t].op = "save" THEN UNCHANGED <<grants, behind>>
     ELSE /\ grants' = [grants EXCEPT ![p].doc = task[t].doc.id]
          /\ behind' = (behind \/ grants[p].agents # task[t].agents)
  /\ Goto(t, task[t].then)
  /\ UNCHANGED <<policy, docs>>

-----------------------------------------------------------------------------
(* publish_policy of the checker (policy sign): the grants in memory.       *)
Sign(t) ==
  /\ At(t, "start")
  /\ task[t].op = "sign"
  /\ IF grants[Process(t)].trusted
     THEN task' = [task EXCEPT ![t].pc = "publish", ![t].then = "idle",
                     ![t].orelse = "idle",
                     ![t].agents = grants[Process(t)].agents,
                     ![t].base = grants[Process(t)].doc]
     ELSE task' = [task EXCEPT ![t] = AtRest]
  /\ UNCHANGED policyVars

(* The process of t dies and is started again.                              *)
PolicyDies(t) ==
  /\ grants' = [grants EXCEPT ![Process(t)] = Fresh]
  /\ UNCHANGED <<policy, docs, history, granted, behind>>

PublishStep(t) == \/ PublishReads(t)
                  \/ PublishRaises(t)
                  \/ PublishTruncates(t)
                  \/ PublishWrites(t)
                  \/ PublishRecords(t)
                  \/ Sign(t)

-----------------------------------------------------------------------------
(* An agent that a finished publication granted is granted by the policy    *)
(* until some publication replaces a policy that its author never read, or  *)
(* a thread of the server reads the policy into the memory that another     *)
(* publishes: neither a pack's delta nor a save of another agent drops it.  *)
GrantsStand == (policy # Torn /\ ~behind) => granted \subseteq policy.agents
=============================================================================
