------------------------------- MODULE Studio -------------------------------
(***************************************************************************)
(* The studio: src/agents/studio_service.py for agents and packs, and the   *)
(* profiles of src/agents/proof_studio.py.  An item is saved, tested and    *)
(* promoted.  What the studio knows of all items is one file, catalog.json, *)
(* which every request reads, changes and writes back; agents and proof     *)
(* profiles also have a manifest, which is shown where the catalog has no   *)
(* value.  A catalog that does not parse is an empty one.                   *)
(***************************************************************************)
EXTENDS PackInstall

CONSTANT Histories   \* bound: which items may have been used before

ASSUME HistoriesAssumption == Histories \subseteq SUBSET Items

VARIABLES catalog,   \* catalog.json
          manifest,  \* manifest.json of each agent and proof profile
          (* History variables, read by the properties only.              *)
          passed,    \* items and contents that a test passed
          promoted,  \* items whose promotion was answered
          raced,     \* two requests had the catalog open, or one died so
          outdated   \* a pack was saved during its test, or half

studioVars == <<catalog, manifest, passed, promoted, raced, outdated>>

Empty == [i \in Items |-> NoMeta]

(* A studio in which some items were saved, tested and promoted before.     *)
Used == [promoted |-> "yes", maturity |-> "ready",
         last |-> [status |-> "succeeded", of |-> 1]]

StudioInit ==
  \E used \in Histories :
    /\ content = [i \in Items |-> IF i \in used \cup Shipped THEN 1 ELSE 0]
    /\ catalog = [i \in Items |-> IF i \in used THEN Used ELSE NoMeta]
    /\ manifest = [i \in Items |-> IF i \in used \ Packs THEN Used ELSE NoMeta]
    /\ passed = {<<i, 1>> : i \in used}
    /\ promoted = used
    /\ PolicyInit({Core} \cup (Agents \cap used))
    /\ raced = FALSE
    /\ outdated = FALSE

-----------------------------------------------------------------------------
Either(a, b, default) == IF a # "absent" THEN a
                         ELSE IF b # "absent" THEN b ELSE default

(* load_operator_agent, get_studio_pack, get_proof_profile.                 *)
Shown(i) ==
  [promoted |-> Either(catalog[i].promoted, manifest[i].promoted, "no"),
   maturity |-> Either(catalog[i].maturity, manifest[i].maturity, "draft"),
   last |-> IF catalog[i].last # Nothing THEN catalog[i].last
            ELSE manifest[i].last]

Exists(i) == i \notin Packs => content[i] > 0

(* A request that has read the catalog and not yet written everything.      *)
Open(t) == \/ task[t].pc \in {"reload", "cat", "emptied", "manifest"}
           \/ task[t].op = "save" /\ task[t].item \notin Packs
              /\ task[t].pc \in {"define", "grant", "publish", "signed",
                                 "truncated", "written"}

Tested(t, p) == \E u \in Others(t) : task[u].item = p /\ task[u].op = "test"

Kept(m) == [promoted |-> IF m.promoted = "yes" THEN "yes" ELSE "no",
            maturity |-> Either(m.maturity, "absent", "draft"),
            last |-> m.last]

Draft == Kept(NoMeta)

Ready(last) == IF last.status = "succeeded" THEN "ready" ELSE "draft"

(* Mutant: a pack keeps its standing when it is saved again.                *)
PackKeeps(k, m) ==
  CASE k.op = "save" -> Kept(m)
    [] k.op = "test" -> [m EXCEPT !.last = k.last]
    [] k.op = "promote" ->
         [m EXCEPT !.promoted = "yes", !.maturity = Ready(k.last)]

(* Mutant: every item loses its standing when it is saved again.            *)
AllDrafts(k, m) ==
  CASE k.op = "save" -> Draft
    [] k.op = "test" -> [m EXCEPT !.last = k.last]
    [] k.op = "promote" ->
         [m EXCEPT !.promoted = "yes", !.maturity = Ready(k.last)]

(* What a request makes of the entry m it read: an agent or a profile that  *)
(* is saved again keeps its standing, a pack loses it.                      *)
Edited(k, m) ==
  CASE k.op = "save" -> IF k.item \in Packs THEN Draft ELSE Kept(m)
    [] k.op = "test" ->
         [m EXCEPT !.last = k.last,
                   !.maturity = IF k.item \notin Packs
                                   /\ k.last.status = "succeeded"
                                THEN Either(@, "absent", "draft") ELSE @]
    [] k.op = "promote" ->
         [m EXCEPT !.promoted = "yes", !.maturity = Ready(k.last)]

(* _load_catalog, and the change, which is still in memory.                 *)
Loads(t) ==
  LET k == task[t] IN
  /\ At(t, "load")
  /\ task' = [task EXCEPT
       ![t].cat = [catalog EXCEPT ![k.item] = Edited(k, @)],
       ![t].pc = IF k.op = "save" /\ k.item \notin Packs THEN "define"
                 ELSE "cat"]
  /\ raced' = (raced \/ \E u \in Others(t) : Open(u))
  /\ UNCHANGED <<policyVars, packVars, catalog, manifest, passed, promoted,
                 outdated>>

(* _save_catalog: the file is emptied, then written.                        *)
Empties(t) ==
  /\ At(t, "cat")
  /\ catalog' = Empty
  /\ Goto(t, "emptied")
  /\ UNCHANGED <<policyVars, packVars, manifest, passed, promoted, raced,
                 outdated>>

Answered(t) == LET i == task[t].item IN
               CASE task[t].op = "promote" -> promoted \cup {i}
                 [] task[t].op = "save" /\ i \in Packs -> promoted \ {i}
                 [] OTHER -> promoted

Writes(t) ==
  LET more == task[t].op # "save" /\ task[t].item \notin Packs IN
  /\ At(t, "emptied")
  /\ catalog' = task[t].cat
  /\ promoted' = IF more THEN promoted ELSE Answered(t)
  /\ Goto(t, IF more THEN "manifest" ELSE "idle")
  /\ UNCHANGED <<policyVars, packVars, manifest, passed, raced, outdated>>

(* The manifest follows after a test or a promotion.                        *)
Follows(t) ==
  LET k == task[t] IN
  /\ At(t, "manifest")
  /\ manifest' = IF k.op = "test" THEN [manifest EXCEPT ![k.item].last = k.last]
                 ELSE [manifest EXCEPT ![k.item].promoted = "yes",
                                       ![k.item].maturity = Ready(k.last)]
  /\ promoted' = Answered(t)
  /\ Goto(t, "idle")
  /\ UNCHANGED <<policyVars, packVars, catalog, passed, raced, outdated>>

-----------------------------------------------------------------------------
(* A save writes the definition.  An agent is granted its capabilities      *)
(* before its entry is written, and a pack's entry is read after its files  *)
(* were written.                                                            *)
Saves(t) == /\ At(t, "start")
            /\ task[t].op = "save"
            /\ Goto(t, IF task[t].item \in Packs THEN "define" ELSE "load")
            /\ UNCHANGED <<policyVars, packVars, studioVars>>

Defines(t) ==
  LET i == task[t].item IN
  /\ At(t, "define")
  /\ content' = [content EXCEPT ![i] = @ + 1]
  /\ manifest' = IF i \in Packs THEN manifest
                 ELSE [manifest EXCEPT ![i] = task[t].cat[i]]
  /\ Goto(t, IF i \in Packs THEN "load" ELSE IF i \in Agents THEN "grant"
             ELSE "cat")
  /\ outdated' = (outdated \/ (i \in Packs /\ Tested(t, i)))
  /\ mixed' = (mixed \/ \E u \in Others(t) : task[u].item = i /\ Activating(u))
  /\ UNCHANGED <<policyVars, specs, active, catalog, passed, promoted, raced>>

(* _grant_capabilities: the grants of the file, not those in memory; a file *)
(* that does not parse has none.                                            *)
Grants(t) ==
  /\ At(t, "grant")
  /\ task' = [task EXCEPT ![t].pc = "publish", ![t].then = "reload",
                ![t].orelse = "idle", ![t].base = IF policy = Torn THEN -1 ELSE policy.id,
                ![t].agents = policy.agents \cup {task[t].item}]
  /\ UNCHANGED <<policyVars, packVars, studioVars>>

Reloads(t) ==
  /\ At(t, "reload")
  /\ grants' = [grants EXCEPT ![Process(t)] = Loaded(@)]
  /\ Goto(t, "cat")
  /\ UNCHANGED <<policy, docs, history, granted, behind, packVars, studioVars>>

-----------------------------------------------------------------------------
(* A test runs the definition as it is then; a pack is activated first, and *)
(* stays so.                                                                *)
Tests(t) ==
  /\ At(t, "start")
  /\ task[t].op = "test"
  /\ Goto(t, IF task[t].item \in Packs THEN "read_active"
             ELSE IF Exists(task[t].item) THEN "run" ELSE "idle")
  /\ UNCHANGED <<policyVars, packVars, studioVars>>

(* _require_agent_caps of the agent that runs.                              *)
MayRun(t) == LET m == grants[Process(t)]
                 i == task[t].item IN
             /\ m.trusted
             /\ (IF i \in Agents THEN i ELSE Core) \in m.agents
             /\ content[i] > 0

Runs(t, status) ==
  LET i == task[t].item IN
  /\ At(t, "run")
  /\ status = "succeeded" => MayRun(t)
  /\ passed' = IF status = "succeeded" THEN passed \cup {<<i, content[i]>>}
               ELSE passed
  /\ task' = [task EXCEPT ![t].pc = "load",
                ![t].last = [status |-> status, of |-> content[i]]]
  /\ UNCHANGED <<policyVars, packVars, catalog, manifest, promoted, raced,
                 outdated>>

(* A promotion needs a test that succeeded, or force; forced, the item is   *)
(* promoted as a draft.                                                     *)
Needed(i, force) == force \/ Shown(i).last.status = "succeeded"

Promotes(t) ==
  LET k == task[t] IN
  /\ At(t, "start")
  /\ k.op = "promote"
  /\ k.item \notin Packs
  /\ IF Exists(k.item) /\ Needed(k.item, k.force)
     THEN task' = [task EXCEPT ![t].pc = "load", ![t].last = Shown(k.item).last]
     ELSE Goto(t, "idle")
  /\ UNCHANGED <<policyVars, packVars, studioVars>>

(* A pack's promotion reads the catalog once, for both.                     *)
PromotesPack(t) ==
  LET k == task[t]
      last == catalog[k.item].last IN
  /\ At(t, "start")
  /\ k.op = "promote"
  /\ k.item \in Packs
  /\ IF Needed(k.item, k.force)
     THEN /\ task' = [task EXCEPT
                 ![t].pc = "cat",
                 ![t].cat = [catalog EXCEPT
                               ![k.item] = Edited([k EXCEPT !.last = last], @)]]
          /\ raced' = (raced \/ \E u \in Others(t) : Open(u))
     ELSE Goto(t, "idle") /\ UNCHANGED raced
  /\ UNCHANGED <<policyVars, packVars, catalog, manifest, passed, promoted,
                 outdated>>

StudioDies(t) ==
  /\ raced' = (raced \/ \E u \in Killed(t) : Open(u))
  /\ outdated' = (outdated \/ \E u \in Killed(t) : task[u].op = "save")
  /\ UNCHANGED <<catalog, manifest, passed, promoted>>

StudioStep(t) == \/ Loads(t)
                 \/ Empties(t)
                 \/ Writes(t)
                 \/ Follows(t)
                 \/ Saves(t)
                 \/ Defines(t)
                 \/ Grants(t)
                 \/ Reloads(t)
                 \/ Tests(t)
                 \/ \E s \in {"succeeded", "failed"} : Runs(t, s)
                 \/ Promotes(t)
                 \/ PromotesPack(t)

-----------------------------------------------------------------------------
Saving(i) == \E t \in Threads : task[t].op = "save" /\ task[t].item = i

(* An item on the shelf as "ready" has passed a test; and a pack has passed *)
(* it with its present content, unless it was saved during the test, a save *)
(* was cut off, or two requests had the catalog open at once.               *)
ReadyWasTested ==
  \A i \in Items : Shown(i).maturity = "ready" =>
    /\ \E n \in 1 .. content[i] : <<i, n>> \in passed
    /\ (i \in Packs /\ ~Saving(i) /\ ~raced /\ ~outdated) =>
         <<i, content[i]>> \in passed

(* A promotion that was answered stands, through saves, tests and           *)
(* promotions of other items and, for agents and profiles, of the same one, *)
(* unless two requests had the catalog open at once or a process died so.   *)
PromotionKept ==
  (~raced /\ \A t \in Threads : ~Open(t)) =>
    \A i \in promoted : Shown(i).promoted = "yes"
=============================================================================
