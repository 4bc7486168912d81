----------------------------- MODULE Redaction ------------------------------
(***************************************************************************)
(* The redaction engine (src/agents/redaction/engine.py): what it makes of  *)
(* a document.  A document is a sequence of parts, each a sequence of kinds  *)
(* of values; the text of a part is a sequence of characters that remember   *)
(* the value they came from, because the engine replaces values by marks of  *)
(* another length at positions it computed earlier.                          *)
(***************************************************************************)
EXTENDS Integers, Sequences, FiniteSets, SequencesExt

(* The kinds of values, by the pass that replaces them: a pattern of the    *)
(* table, in the order they run; one of the two supplements; the last pass;   *)
(* or none, for what the patterns find and the checks refuse.  A word is one  *)
(* with a capital, at least three letters long; two words make a name.        *)
Patterns    == <<"email", "date", "ssn">>
Supplements == <<"bareSsn", "card">>
Kinds == Range(Patterns) \cup Range(Supplements) \cup {"month", "refused", "word"}

(* The category an entity is counted in; dates have none.                   *)
Category(k) == CASE k = "email" -> {"EMAIL"}
                 [] k \in {"ssn", "bareSsn"} -> {"SSN"}
                 [] k = "card" -> {"CC"}
                 [] k \in {"name", "bridge", "orphan"} -> {"NAME"}
                 [] OTHER -> {}

(* A part is redacted or not by where it stands; names are redacted on demand. *)
Documents == [names : BOOLEAN, parts : Seq([place : STRING, kinds : Seq(Kinds)])]

(* The characters of a value, and how many at its start are a keyword that  *)
(* stays ("SSN" before a bare number).  The mark of a number is longer than   *)
(* the number, that of a card shorter.                                       *)
Width(k) == CASE k = "bareSsn" -> 3 [] k = "card" -> 3 [] k = "word" -> 1
              [] OTHER -> 2
Keyword(k) == IF k = "bareSsn" THEN 1 ELSE 0

Char(i, j) == [value |-> i, at |-> j]
Blank == Char(0, 0)
Close == Char(0, -1)
MarkOf(k) == [j \in 1..(IF k = "card" THEN 1 ELSE 2) |-> Char(0, j)] \o <<Close>>

Text(kinds) ==
  FlattenSeq([i \in DOMAIN kinds |->
                Append([j \in 1..Width(kinds[i]) |-> Char(i, j)], Blank)])

-----------------------------------------------------------------------------
(* What the patterns match, from p to q.                                    *)
IsMark(text, p, q) == \E k \in Kinds : SubSeq(text, p, q) = MarkOf(k)

IsWord(text, kinds, p) == /\ p \in DOMAIN text
                          /\ text[p].value # 0
                          /\ kinds[text[p].value] = "word"

IsValue(text, kinds, k, p, q) ==
  /\ text[p].value # 0
  /\ kinds[text[p].value] = k
  /\ text[p].at = Keyword(k) + 1
  /\ q = p + Width(k) - text[p].at
  /\ \A j \in p..q : text[j] = Char(text[p].value, text[p].at + j - p)

(* A word before a mark is taken for a last name, with the blanks around it, *)
(* at the start of the text or behind a word character.                      *)
IsOrphan(text, kinds, p, q) ==
  /\ IsWord(text, kinds, q - 1)
  /\ text[q] = Blank
  /\ \E end \in DOMAIN text : IsMark(text, q + 1, end)
  /\ \/ p = 1 /\ q = 2
     \/ p = q - 2 /\ p > 1 /\ text[p] = Blank /\ text[p - 1].value # 0

(* A mark between two words is taken for the middle of a name.              *)
IsBridge(text, kinds, p, q) ==
  /\ IsWord(text, kinds, p)
  /\ IsWord(text, kinds, q)
  /\ q > p + 3
  /\ text[p + 1] = Blank
  /\ text[q - 1] = Blank
  /\ IsMark(text, p + 2, q - 2)

(* Two to four words are a name.                                            *)
IsName(text, kinds, p, q) ==
  /\ q \in {p + 2, p + 4, p + 6}
  /\ \A j \in p..q : IF (j - p) % 2 = 0 THEN IsWord(text, kinds, j)
                     ELSE text[j] = Blank

(* Given where a match from each position may end: the matches, from left   *)
(* to right and as long as they can be, none in another.                     *)
Matches(text, ends) ==
  LET next(found, p) ==
        IF (found # <<>> /\ Last(found)[2] >= p) \/ ends[p] = {} THEN found
        ELSE Append(found, <<p, CHOOSE q \in ends[p] : \A e \in ends[p] : e <= q>>)
  IN  FoldLeft(next, <<>>, [p \in DOMAIN text |-> p])

-----------------------------------------------------------------------------
(* text[:p-1] + mark + text[q:], as Python slices it.                       *)
Spliced(text, p, q, mark) ==
  SubSeq(text, 1, IF p - 1 > Len(text) THEN Len(text) ELSE p - 1)
    \o mark
    \o SubSeq(text, q + 1, Len(text))

(* The result so far, r: the text and the entities found.                   *)
Substituted(r, match, k) ==
  [text |-> Spliced(r.text, match[1], match[2], MarkOf(k)),
   entities |-> Append(r.entities, [kind |-> k, start |-> match[1]])]

InOrder(r, k, matches) ==
  FoldLeft(LAMBDA a, match : Substituted(a, match, k), r, matches)

(* The patterns and the last pass work from the right, so that a change of  *)
(* length moves nothing still to be replaced; the supplements do not.        *)
FromTheRight(r, k, matches) ==
  FoldLeft(LAMBDA a, match : Substituted(a, match, k), r, Reverse(matches))

ValuesOf(text, kinds, k) ==
  Matches(text, [p \in DOMAIN text |->
                   {q \in p..Len(text) : IsValue(text, kinds, k, p, q)}])

PatternPass(r, kinds) ==
  LET found == FoldLeft(LAMBDA a, k : FromTheRight(a, k, ValuesOf(a.text, kinds, k)),
                        r, Patterns)
  IN  FromTheRight(found, "orphan",
                   Matches(found.text,
                           [p \in DOMAIN found.text |->
                              {q \in p..Len(found.text) :
                                 IsOrphan(found.text, kinds, p, q)}]))

SupplementPass(r, kinds) ==
  FoldLeft(LAMBDA a, k : InOrder(a, k, ValuesOf(a.text, kinds, k)), r, Supplements)

(* The entities behind the first n have no position.                        *)
NoPosition(r, n) ==
  [r EXCEPT !.entities = [i \in DOMAIN @ |->
                            IF i <= n THEN @[i] ELSE [@[i] EXCEPT !.start = -1]]]

PostPass(r, kinds, names) ==
  LET bridged == FromTheRight(r, "bridge",
                   Matches(r.text, [p \in DOMAIN r.text |->
                                      {q \in p..Len(r.text) :
                                         IsBridge(r.text, kinds, p, q)}]))
      text == bridged.text
      named == IF ~names THEN bridged
               ELSE FromTheRight(bridged, "name",
                      Matches(text, [p \in DOMAIN text |->
                                       {q \in p..Len(text) :
                                          IsName(text, kinds, p, q)}]))
  IN  NoPosition(FromTheRight(named, "month", ValuesOf(named.text, kinds, "month")),
                 Len(r.entities))

RedactPii(kinds, names) ==
  PostPass(SupplementPass(PatternPass([text |-> Text(kinds), entities |-> <<>>],
                                      kinds), kinds), kinds, names)

(* The parts that are redacted: in plain text what stands between the marks *)
(* the document already has, in a structured document the strings; keys and  *)
(* other values stay.                                                        *)
Walked(part) == part.place \in {"text", "string"}

Apply(doc) ==
  LET parts == [i \in DOMAIN doc.parts |->
                  IF Walked(doc.parts[i])
                  THEN RedactPii(doc.parts[i].kinds, doc.names)
                  ELSE [text |-> Text(doc.parts[i].kinds), entities |-> <<>>]]
      entities == FlattenSeq([i \in DOMAIN parts |-> parts[i].entities])
  IN  [texts |-> [i \in DOMAIN parts |-> parts[i].text],
       entities |-> entities,
       total |-> Cardinality({i \in DOMAIN entities :
                                Category(entities[i].kind) # {}}),
       categories |-> UNION {Category(entities[i].kind) : i \in DOMAIN entities}]

-----------------------------------------------------------------------------
(* What the rules promise to redact: the values, and words that make a name *)
(* if the document asks for names.                                           *)
InName(kinds, v) == /\ kinds[v] = "word"
                    /\ \E u \in {v - 1, v + 1} \cap DOMAIN kinds : kinds[u] = "word"

Sensitive(doc, kinds, v) == \/ kinds[v] \notin {"refused", "word"}
                            \/ doc.names /\ InName(kinds, v)

(* What an exact redaction leaves of part i: no character of a sensitive    *)
(* value except its keyword, all of a value that is not one.  A lone word     *)
(* may stay or go.                                                           *)
Exact(doc, out, i) ==
  LET kinds == doc.parts[i].kinds
      left(v) == {c \in Range(out.texts[i]) : c.value = v}
      chars(v, n) == {Char(v, j) : j \in 1..n}
  IN  \A v \in DOMAIN kinds :
        IF Walked(doc.parts[i]) /\ Sensitive(doc, kinds, v)
        THEN left(v) = chars(v, Keyword(kinds[v]))
        ELSE kinds[v] = "word" \/ left(v) = chars(v, Width(kinds[v]))

(* At most one value for each supplement.                                   *)
Single(part) ==
  \A k \in Range(Supplements) :
    Cardinality({v \in DOMAIN part.kinds : part.kinds[v] = k}) <= 1

(* A name stands apart: it has at most four words, as many as the rule for  *)
(* names takes at once, and no value is right beside it, for the passes that *)
(* look at the word before or around a mark would take one word alone.       *)
NamesApart(doc, part) ==
  doc.names =>
    \A v \in DOMAIN part.kinds : InName(part.kinds, v) =>
      /\ \A u \in {v - 1, v + 1} \cap DOMAIN part.kinds :
           part.kinds[u] \in {"word", "refused"}
      /\ \E u \in v..v + 4 : u \notin DOMAIN part.kinds \/ part.kinds[u] # "word"
=============================================================================
