----------------------------- MODULE PackInstall ----------------------------
(***************************************************************************)
(* The activation of a pack (src/agents/pack_install.py): the pack's        *)
(* specifications replace those in force one after the other, the pack's    *)
(* agents are granted, and active_pack.json records which pack is in force. *)
(* The approval of each specification is the module Governance; here an     *)
(* application succeeds or raises.                                          *)
(***************************************************************************)
EXTENDS CapabilityPolicy

CONSTANTS SpecOrder,     \* the types of specification, in order
          PackAgents,    \* the agents that each pack's delta grants
          Shipped        \* the packs that the repository ships

VARIABLES content,   \* how often each item was saved; 0: it does not exist
          specs,     \* what is in force: the pack and its content
          active,    \* active_pack.json
          (* History variable, read by the properties only.               *)
          mixed      \* an activation failed half-way, or met another change

packVars == <<content, specs, active, mixed>>

SpecTypes == {SpecOrder[i] : i \in DOMAIN SpecOrder}

ASSUME SpecOrderAssumption == SpecOrder \in Seq(SpecTypes)

Version(p, n) == [pack |-> p, content |-> n]

(* The instance starts with one shipped pack in force.                      *)
PackInit == \E p \in Shipped :
              /\ specs = [s \in SpecTypes |-> Version(p, 1)]
              /\ active = [pack |-> p, specs |-> specs]
              /\ mixed = FALSE

(* A task that publishes a pack's delta.                                    *)
Publishing(t) == task[t].pc \in {"publish", "signed", "truncated", "written"}

Activating(t) == \/ task[t].pc \in {"read_active", "specs", "unrecorded",
                                     "record"}
                 \/ task[t].op \in {"activate", "test"} /\ Publishing(t)

-----------------------------------------------------------------------------
(* Where a request goes on when its activation ends, or raises: the studio  *)
(* runs its test all the same.                                              *)
Ends(t) == IF task[t].op = "test" THEN "run" ELSE "idle"

(* activate_pack: the pack must exist.  (The snapshot of what the previous  *)
(* pack left in force is written here; nothing reads it.)                   *)
ActivateBegins(t) ==
  /\ At(t, "read_active")
  /\ IF content[task[t].item] = 0 THEN Goto(t, Ends(t))
     ELSE task' = [task EXCEPT ![t].pc = "specs", ![t].todo = SpecOrder]
  /\ mixed' = (mixed \/ \E u \in Others(t) : Activating(u))
  /\ UNCHANGED <<policyVars, content, specs, active>>

(* Mutant: what is in force is taken for applied when its number is equal.  *)
ByNumber(s, p) == IF specs[s].content = content[p] THEN specs
                  ELSE [specs EXCEPT ![s] = Version(p, content[p])]

(* One specification: what is in force already is left alone.               *)
AppliedSpec(s, p) == [specs EXCEPT ![s] = Version(p, content[p])]

ActivateApplies(t) ==
  LET s == Head(task[t].todo) IN
  /\ At(t, "specs")
  /\ task[t].todo # <<>>
  /\ specs' = AppliedSpec(s, task[t].item)
  /\ task' = [task EXCEPT ![t].todo = Tail(@)]
  /\ UNCHANGED <<policyVars, content, active, mixed>>

(* A specification that is missing, or refused by the governance.           *)
ActivateRaises(t) ==
  /\ At(t, "specs")
  /\ task[t].todo # <<>>
  /\ mixed' = (mixed \/ task[t].todo # SpecOrder)
  /\ Goto(t, Ends(t))
  /\ UNCHANGED <<policyVars, content, specs, active>>

(* Mutant: the delta replaces the grants.                                   *)
DeltaOnly(m, p) == [m EXCEPT !.agents = PackAgents[p]]

(* apply_policy_delta: the grants are added to the memory of the process,   *)
(* which is then published.                                                 *)
Enlarged(m, p) == [m EXCEPT !.agents = @ \cup PackAgents[p]]

ActivateGrants(t) ==
  LET m == grants[Process(t)]
      delta == Enlarged(m, task[t].item) IN
  /\ At(t, "specs")
  /\ task[t].todo = <<>>
  /\ PackAgents[task[t].item] # {}
  /\ m.trusted
  /\ grants' = [grants EXCEPT ![Process(t)] = delta]
  /\ task' = [task EXCEPT ![t].pc = "publish", ![t].then = "record",
                ![t].orelse = "unrecorded", ![t].agents = delta.agents,
                ![t].base = m.doc]
  /\ UNCHANGED <<policy, docs, history, granted, behind, packVars>>

(* A pack without a delta publishes nothing.                                *)
ActivateNoDelta(t) ==
  /\ At(t, "specs")
  /\ task[t].todo = <<>>
  /\ PackAgents[task[t].item] = {}
  /\ Goto(t, "record")
  /\ UNCHANGED <<policyVars, packVars>>

(* An untrusted policy, or one that was torn, ends the activation after the *)
(* specifications were applied and before the record.                       *)
ActivateUnrecorded(t) ==
  /\ \/ At(t, "unrecorded")
     \/ /\ At(t, "specs")
        /\ task[t].todo = <<>>
        /\ PackAgents[task[t].item] # {}
        /\ ~grants[Process(t)].trusted
  /\ mixed' = TRUE
  /\ Goto(t, Ends(t))
  /\ UNCHANGED <<policyVars, content, specs, active>>

(* The record carries the hashes of what is in force now.                   *)
ActivateRecords(t) ==
  /\ At(t, "record")
  /\ active' = [pack |-> task[t].item, specs |-> specs]
  /\ Goto(t, Ends(t))
  /\ UNCHANGED <<policyVars, content, specs, mixed>>

(* A process dies in the middle of an activation.                           *)
PackDies(t) ==
  /\ mixed' = (mixed \/ \E u \in Killed(t) : Activating(u))
  /\ UNCHANGED <<content, specs, active>>

PackStep(t) == \/ ActivateBegins(t)
               \/ ActivateApplies(t)
               \/ ActivateRaises(t)
               \/ ActivateGrants(t)
               \/ ActivateNoDelta(t)
               \/ ActivateUnrecorded(t)
               \/ ActivateRecords(t)

-----------------------------------------------------------------------------
(* The record tells the truth: between activations, and as long as none of  *)
(* them failed half-way or met another one or a save of its pack, every     *)
(* specification in force comes from the pack that active_pack.json names,  *)
(* and has the hash recorded.                                               *)
ActiveInForce ==
  (~mixed /\ \A t \in Threads : ~Activating(t)) =>
    \A s \in SpecTypes : /\ specs[s] = active.specs[s]
                         /\ specs[s].pack = active.pack
=============================================================================
