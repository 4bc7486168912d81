----------------------------- MODULE MCEvidence -----------------------------
EXTENDS Evidence

CONSTANTS r1, r2

TwoRuns == {r1, r2}

Part(place, kinds) == [place |-> place, kinds |-> kinds]
Doc(names, parts) == [names |-> names, parts |-> parts]
Plain(kinds) == Doc(FALSE, <<Part("text", kinds)>>)
Emails(n) == Plain([i \in 1..n |-> "email"])

Asked(doc, way, attest, encrypt, profile) ==
  [doc |-> doc, way |-> way, attest |-> attest, encrypt |-> encrypt,
   profile |-> profile, universalKeys |-> FALSE]

(* Every text of up to two values, the bridges, names beside values and      *)
(* apart from them, and documents of two parts.                              *)
AllTexts ==
  {Doc(names, <<Part("text", k)>>) :
     names \in BOOLEAN,
     k \in UNION {[1..n -> Kinds] : n \in 0..2}
            \cup {<<"word", m, "word">> : m \in Kinds}
            \cup {<<"refused", "word", "email", "word", "ssn", "word">>,
                  <<"email", "word", "word", "bareSsn", "word", "word", "word">>,
                  <<"word", "word", "word", "word", "refused", "bareSsn", "card">>,
                  <<"email", "refused", "word", "word", "word", "refused", "month">>,
                  <<"email", "word", "email", "word", "word">>,
                  <<"word", "word", "refused", "card", "month", "word", "word">>}}
TwoParts == {Doc(TRUE, <<Part(p, <<k, "card">>), Part(q, <<"bareSsn", "word", "word">>)>>) :
               p \in {"text", "string", "key"}, q \in {"string", "other", "text"},
               k \in Kinds}

(* Numbers of entities around the thresholds of the decision, and of the     *)
(* batch, of the inclusion witnesses and of the tree.                        *)
Decided == {Emails(n) : n \in {4, 5, 6, 10, 11}}
             \cup {Plain(<<"ssn">> \o [i \in 1..n |-> "email"]) : n \in {5, 10}}
Proved == {Emails(n) : n \in {0, 1, 2, 3, 4, 5, 8, 9}}
            \cup {Plain(<<"date">>), Plain(<<"email", "bareSsn">>)}

Few == {Emails(0), Emails(1), Plain(<<"date">>), Plain(<<"email", "ssn">>),
        Emails(9)}

U == Pred("UNIVERSAL_PROOF_VALID")

Profiles ==
  {Compiled(ps, universal, failClosed) :
     ps \in {<<Pred("REDACTION_NONEMPTY"), CountGte(2)>>,
             <<CountGte(1), Includes({"EMAIL", "SSN"}), U>>,
             <<CountGte(0)>>,
             <<Pred("GOVERNANCE_APPROVED"), Pred("ZK_ENTITY_PRESENT"), U>>,
             <<Pred("ZK_GOVERNANCE_PRESENT"), Pred("RULE_BOUND")>>,
             <<U>>,
             <<Pred("HANDOFF_RECORDED")>>},
     universal \in BOOLEAN, failClosed \in BOOLEAN}

AllCases ==
  {r1 :> c @@ r2 :> None :
     c \in {Asked(d, "pack", FALSE, FALSE, None) :
              d \in AllTexts \cup TwoParts \cup Decided}
        \cup {Asked(d, "pack", TRUE, FALSE, None) : d \in Proved}
        \cup {Asked(d, "cli", a, TRUE, None) : d \in Few, a \in BOOLEAN}
        \cup {[Asked(d, "composition", a, FALSE, p) EXCEPT !.universalKeys = a] :
                d \in Few, a \in BOOLEAN, p \in Profiles \cup {None}}}
    \cup {[r \in TwoRuns |-> Asked(Emails(1), "cli", FALSE, TRUE, None)]}
=============================================================================
