------------------------------- MODULE ApiKeys ------------------------------
(***************************************************************************)
(* The operator's API keys (src/agents/auth.py): one file, and a list in    *)
(* the memory of each process.  The threads of the server share a list,     *)
(* which every request replaces by the file's before it is let in.          *)
(***************************************************************************)
EXTENDS Servers, Lists

CONSTANTS KeyIds, DefaultId

VARIABLES keyFile,   \* api_keys.json: its entries, and whether it is whole
          keys,      \* the list of each process
          secrets,   \* secrets made so far
          clerk,     \* what each thread is doing to the keys
          (* History variables, read by the properties only.              *)
          issued,    \* the secrets whose creation was answered
          revoked,   \* the secrets whose revocation was answered
          keysRaced  \* two changes met, or a process died in one

keyVars == <<keyFile, keys, secrets, clerk, issued, revoked, keysRaced>>

Entry(k, s) == [id |-> k, secret |-> s]
File(es) == [whole |-> TRUE, entries |-> es]
TornFile == [whole |-> FALSE, entries |-> <<>>]

NoChange == [pc |-> "idle", op |-> "none", id |-> DefaultId, secret |-> 0,
             left |-> <<>>]

KeyInit == /\ keyFile = File(<<Entry(DefaultId, 1)>>)
           /\ keys = [p \in Processes |-> keyFile.entries]
           /\ secrets = 1
           /\ clerk = [t \in Threads |-> NoChange]
           /\ issued = {1}
           /\ revoked = {}
           /\ keysRaced = FALSE

-----------------------------------------------------------------------------
SecretsOf(es) == {es[i].secret : i \in DOMAIN es}

IdsOf(es) == {es[i].id : i \in DOMAIN es}

(* validate: the file is read again, and somebody who was given a key finds *)
(* it there.  A file that does not parse raises.                            *)
Valid == keyFile.whole /\ issued \cap SecretsOf(keyFile.entries) # {}

Reloaded(t) == [keys EXCEPT ![Process(t)] = keyFile.entries]

(* A request of the server that is let in; a command reads the file too.    *)
LetIn(t) == /\ clerk[t].pc = "idle"
            /\ IF t \in ServerThreads THEN Valid ELSE keyFile.whole
            /\ keys' = Reloaded(t)

OthersChange(t) == \E u \in Others(t) : clerk[u].pc # "idle"

KeyRequest(t, op, id) ==
  /\ LetIn(t)
  /\ clerk' = [clerk EXCEPT ![t] = [NoChange EXCEPT !.pc = "check", !.op = op,
                                                    !.id = id]]
  /\ keysRaced' = (keysRaced \/ OthersChange(t))
  /\ UNCHANGED <<keyFile, secrets, issued, revoked>>

(* Mutant: the last key may be revoked.                                     *)
AllowedAny(op, id, es) ==
  IF op = "create" THEN id \notin IdsOf(es) ELSE id \in IdsOf(es)

(* create_key: the identifier must be new.  revoke_key: it must exist, and  *)
(* another key must remain.                                                 *)
Allowed(op, id, es) ==
  IF op = "create" THEN id \notin IdsOf(es)
  ELSE Len(es) > 1 /\ id \in IdsOf(es)

KeyChecks(t) ==
  LET k == clerk[t] IN
  /\ k.pc = "check"
  /\ clerk' = [clerk EXCEPT ![t] =
                 IF Allowed(k.op, k.id, keys[Process(t)])
                 THEN [k EXCEPT !.pc = "build"] ELSE NoChange]
  /\ UNCHANGED <<keyFile, keys, secrets, issued, revoked, keysRaced>>

(* The entries with another identifier, in their order.                     *)
Without(es, id) == Sublist(es, {i \in DOMAIN es : es[i].id # id})

(* The new list is built from the memory as it is now, and the file is      *)
(* opened, which empties it.                                                *)
Built(op, id, s, es) ==
  IF op = "create" THEN Append(es, Entry(id, s))
  ELSE Without(es, id)

KeyBuilds(t) ==
  LET k == clerk[t]
      s == IF k.op = "create" THEN secrets + 1 ELSE secrets IN
  /\ k.pc = "build"
  /\ secrets' = s
  /\ clerk' = [clerk EXCEPT ![t].pc = "write", ![t].secret = s,
                 ![t].left = Built(k.op, k.id, s, keys[Process(t)])]
  /\ keyFile' = TornFile
  /\ UNCHANGED <<keys, issued, revoked, keysRaced>>

KeyWrites(t) ==
  /\ clerk[t].pc = "write"
  /\ keyFile' = File(clerk[t].left)
  /\ clerk' = [clerk EXCEPT ![t].pc = "remember"]
  /\ UNCHANGED <<keys, secrets, issued, revoked, keysRaced>>

(* A creation appends to whatever list the process has now; a revocation    *)
(* replaces it.                                                             *)
KeyRemembers(t) ==
  LET k == clerk[t]
      p == Process(t) IN
  /\ k.pc = "remember"
  /\ IF k.op = "create"
     THEN /\ keys' = [keys EXCEPT ![p] = Append(@, Entry(k.id, k.secret))]
          /\ issued' = issued \cup {k.secret}
          /\ UNCHANGED revoked
     ELSE /\ keys' = [keys EXCEPT ![p] = k.left]
          /\ revoked' = revoked \cup (issued \ SecretsOf(k.left))
          /\ UNCHANGED issued
  /\ clerk' = [clerk EXCEPT ![t] = NoChange]
  /\ UNCHANGED <<keyFile, secrets, keysRaced>>

(* The process of t dies and is started again: ensure_default_key makes a   *)
(* key when the file has none.  A server does not start with a torn file,   *)
(* and no request is let in then either way.                                *)
KeyDies(t) ==
  LET none == t \in ServerThreads /\ keyFile.whole /\ keyFile.entries = <<>>
      s == IF none THEN secrets + 1 ELSE secrets
  IN
  /\ secrets' = s
  /\ keyFile' = IF none THEN File(<<Entry(DefaultId, s)>>) ELSE keyFile
  /\ issued' = IF none THEN issued \cup {s} ELSE issued
  /\ keys' = [keys EXCEPT ![Process(t)] = keyFile'.entries]
  /\ keysRaced' = (keysRaced \/ \E u \in Killed(t) : clerk[u].pc # "idle")
  /\ clerk' = [u \in Threads |-> IF u \in Killed(t) THEN NoChange ELSE clerk[u]]
  /\ UNCHANGED revoked

KeyStep(t) == KeyChecks(t) \/ KeyBuilds(t) \/ KeyWrites(t) \/ KeyRemembers(t)

-----------------------------------------------------------------------------
(* The file lets in the keys that were handed out and not revoked, and      *)
(* never nobody, whatever requests reload the shared list in the meantime,  *)
(* as long as two changes never met and no process died in one.             *)
KeysStand ==
  (~keysRaced /\ \A t \in Threads : clerk[t].pc = "idle") =>
    /\ SecretsOf(keyFile.entries) = issued \ revoked
    /\ keyFile.entries # <<>>
=============================================================================
