------------------------------ MODULE Operator ------------------------------
(***************************************************************************)
(* What operators do to a running instance through the server's routes      *)
(* (src/agents/api_v2/router.py) and with apxv_ctl: they save, test and     *)
(* promote agents, packs and proof profiles, activate packs, publish the    *)
(* policy, create and revoke API keys, and keep pipeline documents.  Every  *)
(* request of the server is authenticated first, which reloads the keys.    *)
(***************************************************************************)
EXTENDS Studio, ApiKeys, PipelineStore

CONSTANTS MaxRequests,   \* bound: requests and commands, by area
          MaxBusy,       \* bound: threads at work at the same time
          MaxDeaths      \* bound: processes that die

VARIABLES requests, deaths,
          area   \* what the requests are about: the areas share nothing but
                 \* the keys that let a request in, so one at a time will do

Areas == {"studio", "keys", "pipelines"}

vars == <<task, policyVars, packVars, studioVars, keyVars, fileVars, requests,
          deaths, area>>

Init == /\ StudioInit
        /\ PackInit
        /\ KeyInit
        /\ FileInit
        /\ requests = 0
        /\ deaths = 0
        /\ area \in Areas
        /\ area # "studio" => promoted = {}

Idle(t) == /\ task[t].pc = "idle"
           /\ clerk[t].pc = "idle"
           /\ t \in ServerThreads => filer[t].pc = "idle"

Asked(t, a) == /\ area = a
               /\ Idle(t)
               /\ Cardinality({u \in Threads : ~Idle(u)}) < MaxBusy
               /\ requests < MaxRequests[area]
               /\ requests' = requests + 1
               /\ UNCHANGED <<deaths, area>>

Authenticated(t) == /\ LetIn(t)
                    /\ UNCHANGED <<keyFile, secrets, clerk, issued, revoked,
                                   keysRaced>>

(* The studio's routes.                                                     *)
StudioRoute(t, op, i, force) ==
  /\ Asked(t, "studio")
  /\ Authenticated(t)
  /\ i \notin Shipped
  /\ op # "promote" => ~force
  /\ task' = [task EXCEPT ![t] = [AtRest EXCEPT !.pc = "start", !.op = op,
                                    !.item = i, !.force = force]]
  /\ UNCHANGED <<policyVars, packVars, studioVars, fileVars>>

(* packs.activate, and pack activate of apxv_ctl, whose process loads the   *)
(* policy when it starts.                                                   *)
Started(t) == IF t \in ServerThreads THEN grants
              ELSE [grants EXCEPT ![t] = Fresh]

PackRoute(t, p) ==
  /\ Asked(t, "studio")
  /\ IF t \in ServerThreads THEN Authenticated(t) ELSE UNCHANGED keyVars
  /\ grants' = Started(t)
  /\ task' = [task EXCEPT ![t] = [AtRest EXCEPT !.pc = "read_active",
                                    !.op = "activate", !.item = p]]
  /\ UNCHANGED <<policy, docs, history, granted, behind, packVars, studioVars,
                 fileVars>>

(* cmd_policy_sign.                                                         *)
PolicyCommand(t) ==
  /\ Asked(t, "studio")
  /\ grants' = Started(t)
  /\ task' = [task EXCEPT ![t] = [AtRest EXCEPT !.pc = "start", !.op = "sign"]]
  /\ UNCHANGED <<policy, docs, history, granted, behind, packVars, studioVars,
                 keyVars, fileVars>>

(* keys.create, keys.delete and cmd_api_key_create.                         *)
KeyRoute(t, op, k) ==
  /\ Asked(t, "keys")
  /\ KeyRequest(t, op, k)
  /\ UNCHANGED <<task, policyVars, packVars, studioVars, fileVars>>

(* keys.list, and any other request: it only reloads the list.              *)
OtherRoute(t) ==
  /\ Asked(t, "keys")
  /\ Authenticated(t)
  /\ UNCHANGED <<task, policyVars, packVars, studioVars, fileVars>>

(* pipelines.create, .update, .import and .delete.                          *)
PipelineRoute(t, op, p, f, overwrite) ==
  /\ Asked(t, "pipelines")
  /\ Authenticated(t)
  /\ FileRequest(t, op, p, f, overwrite)
  /\ op = "delete" => overwrite /\ f = FormatOrder[1]
  /\ UNCHANGED <<task, policyVars, packVars, studioVars>>

Request(t) ==
  \/ \E op \in {"save", "test", "promote"}, i \in Items, force \in BOOLEAN :
       t \in ServerThreads /\ StudioRoute(t, op, i, force)
  \/ \E p \in Packs : PackRoute(t, p)
  \/ t \in Commands /\ PolicyCommand(t)
  \/ \E op \in {"create", "revoke"}, k \in KeyIds :
       (t \in Commands => op = "create") /\ KeyRoute(t, op, k)
  \/ t \in ServerThreads /\ OtherRoute(t)
  \/ \E op \in {"save", "delete"}, p \in Pipelines, f \in Formats,
        overwrite \in BOOLEAN :
       t \in ServerThreads /\ PipelineRoute(t, op, p, f, overwrite)

Works(t) ==
  \/ /\ \/ PublishStep(t) /\ UNCHANGED <<packVars, studioVars>>
        \/ PackStep(t) /\ UNCHANGED studioVars
        \/ StudioStep(t)
     /\ UNCHANGED <<keyVars, fileVars, requests, deaths, area>>
  \/ /\ KeyStep(t)
     /\ UNCHANGED <<task, policyVars, packVars, studioVars, fileVars, requests,
                    deaths, area>>
  \/ /\ t \in ServerThreads /\ FileStep(t)
     /\ UNCHANGED <<task, policyVars, packVars, studioVars, keyVars, requests,
                    deaths, area>>

(* A process dies with its threads; the server is started again.            *)
Dies(t) ==
  /\ deaths < MaxDeaths
  /\ deaths' = deaths + 1
  /\ PolicyDies(t)
  /\ PackDies(t)
  /\ StudioDies(t)
  /\ KeyDies(t)
  /\ IF t \in ServerThreads THEN FileDies ELSE UNCHANGED fileVars
  /\ task' = [u \in Threads |-> IF u \in Killed(t) THEN AtRest ELSE task[u]]
  /\ UNCHANGED <<requests, area>>

Next == \E t \in Threads : Request(t) \/ Works(t) \/ Dies(t)

Spec == Init /\ [][Next]_vars
=============================================================================
