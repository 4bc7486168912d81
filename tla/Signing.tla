------------------------------- MODULE Signing ------------------------------
(* The key pair that signs capability policies (agents/capability_policy.   *)
(* py) and the policy that first-run setup signs with it. The governance    *)
(* signer of agents/governance_approval.py creates its pair the same way.   *)
EXTENDS ZkKeys

VARIABLES signing,  \* the private key and the configuration that trusts it
          policy,   \* capabilities.json: the key that signed it, 0 if absent
          pairs,    \* history: key pairs generated so far
          sign      \* the local variables of ensure_capability_policy

signVars == <<signing, policy, pairs, sign>>

NotSigning == [pc |-> "policy", key |-> 0]

SignInit ==
  /\ signing = [key |-> 0, config |-> 0]
  /\ policy = 0
  /\ pairs = 0
  /\ sign = [p \in Procs |-> NotSigning]

(* verify_document: the key the policy carries must be the configured one.  *)
PolicyTrusted == policy # 0 /\ policy = signing.config

SignPc(p, pc) == sign' = [sign EXCEPT ![p].pc = pc]

-----------------------------------------------------------------------------
PolicyVerified(p) ==
  /\ sign[p].pc = "policy" /\ PolicyTrusted
  /\ UNCHANGED signVars

HasPair == signing.key # 0 /\ signing.config # 0

(* ensure_signing_keypair: both files are there and are taken as they are,  *)
(* or a new pair is made, whatever one of them holds.                       *)
PairPresent(p) ==
  /\ sign[p].pc = "policy" /\ ~PolicyTrusted /\ HasPair
  /\ SignPc(p, "sign")
  /\ UNCHANGED <<signing, policy, pairs>>

PairGenerate(p) ==
  /\ sign[p].pc = "policy" /\ ~PolicyTrusted /\ ~HasPair
  /\ pairs' = pairs + 1
  /\ sign' = [sign EXCEPT ![p] = [pc |-> "key", key |-> pairs']]
  /\ UNCHANGED <<signing, policy>>

KeyWrite(p) ==
  /\ sign[p].pc = "key"
  /\ signing' = [signing EXCEPT !.key = sign[p].key]
  /\ SignPc(p, "config")
  /\ UNCHANGED <<policy, pairs>>

ConfigWrite(p) ==
  /\ sign[p].pc = "config"
  /\ signing' = [signing EXCEPT !.config = sign[p].key]
  /\ SignPc(p, "sign")
  /\ UNCHANGED <<policy, pairs>>

(* sign_document loads the private key from the file.                       *)
PolicySign(p) ==
  /\ sign[p].pc = "sign"
  /\ policy' = signing.key
  /\ sign' = [sign EXCEPT ![p] = NotSigning]
  /\ UNCHANGED <<signing, pairs>>

SignEnds(p) == sign[p].pc = "sign" \/ (sign[p].pc = "policy" /\ PolicyTrusted)

SignStep(p) ==
  PolicyVerified(p) \/ PairPresent(p) \/ PairGenerate(p) \/ KeyWrite(p)
    \/ ConfigWrite(p) \/ PolicySign(p)
=============================================================================
