--------------------------- MODULE NameSimilarity ---------------------------
(***************************************************************************)
(* How alike an officer's search and a record are, and why they differ     *)
(* (apps/web/src/lib/nameSimilarity.ts, shown by the search page).         *)
(*                                                                         *)
(* A weighted edit distance scores two words, and a walk back through its  *)
(* table says which edits were made.  Costs are quarters, so exact; scores *)
(* are fractions, shown as tenths of a percent.  Text is lower case, a     *)
(* record's name is already split in words, and its reference is without   *)
(* separators.  National Insurance numbers, which score as references do,  *)
(* and the wording of a reason are left out.                               *)
(***************************************************************************)
EXTENDS Integers, SequencesExt

CONSTANTS
    Key,            \* characters typed by hand
    MaxQuery,       \* what is typed by hand is no longer: a bound
    QuickSearch,    \* the tiles of the search page
    SearchRecord    \* records: their `name`, and their `ref`

Digit == {"0", "1", "2", "3", "4", "5", "6", "7", "8", "9"}
Space == " "

ASSUME SimilarityAssumption ==
    /\ MaxQuery \in Nat
    /\ Key \subseteq STRING /\ QuickSearch \subseteq Seq(STRING)
    /\ SearchRecord \subseteq [name : Seq(Seq(STRING)), ref : Seq(STRING)]

TransposeCost == 2
GeminationCost == 2
VowelSubCost == 3
FullCost == 4
CodeBudget == 5 * FullCost

Vowels == {"a", "e", "i", "o", "u", "y"}

VARIABLE query

SimilarityTypeOK == query \in Seq(STRING)

SimilarityInit == query = <<>>

TypeKey(key) == Len(query) < MaxQuery /\ query' = Append(query, key)
Erase == query # <<>> /\ query' = Front(query)
Choose(term) == query' = term

SimilarityNext ==
    \/ Erase
    \/ \E key \in Key : TypeKey(key)
    \/ \E term \in QuickSearch : Choose(term)

SimilaritySpec == SimilarityInit /\ [][SimilarityNext]_query

-----------------------------------------------------------------------------
Doubles(s, i) == (i > 1 /\ s[i - 1] = s[i]) \/ (i < Len(s) /\ s[i + 1] = s[i])

InsCost(s, i) == IF Doubles(s, i) THEN GeminationCost ELSE FullCost

SubCost(x, y) == IF {x, y} \subseteq Vowels THEN VowelSubCost ELSE FullCost

Transposable(a, b, i, j) == i > 1 /\ j > 1 /\ a[i] = b[j - 1] /\ a[i - 1] = b[j]

\* The edits by which an alignment of the first i and j letters may end.
Op(kind, cost, i, j) == [kind |-> kind, cost |-> cost, i |-> i, j |-> j]

Trans(a, b, i, j) ==
    IF Transposable(a, b, i, j) THEN <<Op("trans", TransposeCost, i - 2, j - 2)>> ELSE <<>>

Diagonal(a, b, i, j) ==
    IF i = 0 \/ j = 0 THEN <<>>
    ELSE IF a[i] = b[j] THEN <<Op("equal", 0, i - 1, j - 1)>>
    ELSE <<Op("sub", SubCost(a[i], b[j]), i - 1, j - 1)>>

Del(a, i, j) == IF i = 0 THEN <<>> ELSE <<Op("del", InsCost(a, i), i - 1, j)>>
Ins(b, i, j) == IF j = 0 THEN <<>> ELSE <<Op("ins", InsCost(b, j), i, j - 1)>>

\* In the order in which the walk back tries them.
Ends(a, b, i, j) ==
    Trans(a, b, i, j) \o Diagonal(a, b, i, j) \o Del(a, i, j) \o Ins(b, i, j)

\* A cell of the table of align, from the rows above it and the cells before.
Cell(a, b, above, before, i, j) ==
    IF i = 0 /\ j = 0 THEN 0
    ELSE Min({e.cost + (IF e.i = i THEN before[e.j] ELSE above[e.i][e.j]) :
                e \in ToSet(Ends(a, b, i, j))})

RowOf(a, b, above, i) ==
    LET row[k \in 0..(Len(b) + 1)] ==
            IF k = 0 THEN [j \in 0..Len(b) |-> 0]
            ELSE LET before == row[k - 1]
                 IN  [before EXCEPT ![k - 1] = Cell(a, b, above, before, i, k - 1)]
    IN  row[Len(b) + 1]

\* d[i][j], a row at a time.
Table(a, b) ==
    LET table[k \in 0..(Len(a) + 1)] ==
            IF k = 0 THEN [i \in 0..Len(a) |-> [j \in 0..Len(b) |-> 0]]
            ELSE LET above == table[k - 1]
                 IN  [above EXCEPT ![k - 1] = RowOf(a, b, above, k - 1)]
    IN  table[Len(a) + 1]

\* A mutant: a pair that may be transposed always is.
TightEager(d, i, j, e) == e.kind = "trans" \/ d[i][j] = d[e.i][e.j] + e.cost

\* The edit accounts for the cell it ends in.
Tight(d, i, j, e) == d[i][j] = d[e.i][e.j] + e.cost

\* The step of the walk back: the first edit that does.
LastEdit(a, b, d, i, j) ==
    LET ends == Ends(a, b, i, j)
    IN  ends[Min({k \in DOMAIN ends : Tight(d, i, j, ends[k])})]

\* The edits of one alignment that has the least cost.
Edits(a, b, d) ==
    LET ops[p \in (0..Len(a)) \X (0..Len(b))] ==
            IF p = <<0, 0>> THEN <<>>
            ELSE LET e == LastEdit(a, b, d, p[1], p[2])
                 IN  Append(ops[<<e.i, e.j>>], e)
    IN  ops[<<Len(a), Len(b)>>]

\* align: the cost, and the edits.
Align(a, b) ==
    LET d == Table(a, b)
    IN  [from |-> a, to |-> b, cost |-> d[Len(a)][Len(b)], ops |-> Edits(a, b, d)]

\* changedIndices: the letters of the record marked on the page, where its
\* word is not one that Canonical changed.
Marked(m) ==
    UNION {CASE e.kind \in {"sub", "ins"} -> {e.j + 1}
             [] e.kind = "trans" -> {e.j + 1, e.j + 2}
             [] OTHER -> {} : e \in ToSet(m.ops)}

-----------------------------------------------------------------------------
HasMac(word) == Len(word) >= 3 /\ SubSeq(word, 1, 3) = <<"m", "a", "c">>

\* canonical: "Mac" and "Mc" are one name, unless it ends there.
Canonical(word) ==
    IF HasMac(word) /\ Len(word) > 3 /\ word[4] \notin Digit
    THEN <<"m">> \o SubSeq(word, 3, Len(word)) ELSE word

\* One more letter: it begins a word or belongs to the last.
TakeLetter(words, s, k) ==
    IF s[k] = Space THEN words
    ELSE IF k = 1 \/ s[k - 1] = Space THEN Append(words, <<s[k]>>)
    ELSE [words EXCEPT ![Len(words)] = Append(@, s[k])]

\* tokenise
Words(s) ==
    LET words[k \in 0..Len(s)] ==
            IF k = 0 THEN <<>> ELSE TakeLetter(words[k - 1], s, k)
    IN  words[Len(s)]

\* clamp01(1 - cost / length), as a numerator over WordUnit.
WordUnit(m) == FullCost * Max({Len(m.from), Len(m.to)})
WordScore(m) == Max({WordUnit(m) - m.cost, 0})

Better(m, n) == WordScore(m) * WordUnit(n) > WordScore(n) * WordUnit(m)

\* A word of the search takes the best word that is left, the first of several.
Pair(pairs, word, name) ==
    LET left == DOMAIN name \ {p.at : p \in ToSet(pairs)}
        fit == [n \in left |-> Align(Canonical(word), Canonical(name[n]))]
        best == Min({n \in left : \A o \in left : ~Better(fit[o], fit[n])})
    IN  IF left = {} THEN pairs
        ELSE Append(pairs,
                [at |-> best, match |-> fit[best],
                 macVaries |-> HasMac(word) # HasMac(name[best])])

\* scoreName: the words in turn; one that finds none left is not scored.
Pairing(words, name) ==
    LET pairs[k \in 0..Len(words)] ==
            IF k = 0 THEN <<>> ELSE Pair(pairs[k - 1], words[k], name)
    IN  pairs[Len(words)]

SumOf(s) ==
    LET sum[k \in 0..Len(s)] == IF k = 0 THEN 0 ELSE sum[k - 1] + s[k]
    IN  sum[Len(s)]

ProductOf(s) ==
    LET product[k \in 0..Len(s)] == IF k = 0 THEN 1 ELSE product[k - 1] * s[k]
    IN  product[Len(s)]

Tenths(n, d) == (2000 * n + d) \div (2 * d)

\* The mean of the words' scores, in tenths of a percent.
NameSimilarity(pairs) ==
    LET unit == ProductOf([k \in DOMAIN pairs |-> WordUnit(pairs[k].match)])
        sum == SumOf([k \in DOMAIN pairs |->
                    WordScore(pairs[k].match) * (unit \div WordUnit(pairs[k].match))])
    IN  Tenths(sum, unit * Len(pairs))

\* scoreCode: part of a reference matches all of it, typos have a budget.
CodeSimilarity(m) ==
    IF m.ops = <<>> THEN 1000 ELSE Tenths(Max({CodeBudget - m.cost, 0}), CodeBudget)

CodeMatch(a, b) ==
    IF a \in SubSeqs(b) THEN [from |-> a, to |-> b, cost |-> 0, ops |-> <<>>]
    ELSE Align(a, b)

\* detectField: three digits or more are a reference.
IsReference(s) == Len(s) >= 3 /\ ToSet(s) \subseteq Digit

\* scoreMatch
Matches(s, person) ==
    IF IsReference(s)
    THEN IF person.ref = <<>> THEN {} ELSE {CodeMatch(s, person.ref)}
    ELSE {p.match : p \in ToSet(Pairing(Words(s), person.name))}

Similarity(s, person) ==
    LET pairs == Pairing(Words(s), person.name)
    IN  IF IsReference(s)
        THEN IF person.ref = <<>> THEN 0 ELSE CodeSimilarity(CodeMatch(s, person.ref))
        ELSE IF pairs = <<>> THEN 0 ELSE NameSimilarity(pairs)

-----------------------------------------------------------------------------
\* What the edits of an alignment say, read from the front: each is true of
\* the letters it is about, and together they spell both words.
Replays(m) ==
    LET Edit(p, e) ==
            /\ p = <<e.i, e.j>>
            /\ CASE e.kind = "equal" -> m.from[e.i + 1] = m.to[e.j + 1]
                 [] e.kind = "sub" -> m.from[e.i + 1] # m.to[e.j + 1]
                 [] e.kind = "trans" -> /\ m.from[e.i + 1] = m.to[e.j + 2]
                                        /\ m.from[e.i + 2] = m.to[e.j + 1]
                                        /\ m.from[e.i + 1] # m.from[e.i + 2]
                 [] OTHER -> TRUE
        After(e) ==
            CASE e.kind \in {"equal", "sub"} -> <<e.i + 1, e.j + 1>>
              [] e.kind = "trans" -> <<e.i + 2, e.j + 2>>
              [] e.kind = "del" -> <<e.i + 1, e.j>>
              [] e.kind = "ins" -> <<e.i, e.j + 1>>
        reached == <<<<0, 0>>>> \o [k \in DOMAIN m.ops |-> After(m.ops[k])]
    IN  /\ \A k \in DOMAIN m.ops : Edit(reached[k], m.ops[k])
        /\ Last(reached) = <<Len(m.from), Len(m.to)>>

Paid(m) == SumOf([k \in DOMAIN m.ops |-> m.ops[k].cost])

Exact(m) == \A e \in ToSet(m.ops) : e.kind = "equal"

\* What is said of a match whose edits are named is true.
ReasonHolds(m) ==
    /\ Replays(m) /\ Paid(m) = m.cost
    /\ DOMAIN m.to \ Marked(m)
            \subseteq {e.j + 1 : e \in {o \in ToSet(m.ops) : o.kind = "equal"}}

\* One edit of any of the words is more than rounding takes away, as it is
\* for less than a thousand letters.
ShortEnough(s, person) ==
    LET pairs == Pairing(Words(s), person.name)
    IN  \A p \in ToSet(pairs) : Len(pairs) * WordUnit(p.match) < 1000 * FullCost

(***************************************************************************)
(* The reason an officer reads is the reason for the figure beside it      *)
(* ("the same alignment that produces the score also tells us which edit   *)
(* was made", nameSimilarity.ts:105-107): the edits named turn what was    *)
(* typed into what is stored, they cost what the score charged for, every  *)
(* letter that is not marked was typed, and, of names short enough for the *)
(* decimal place shown, 100% is shown if and only if no edit is named.     *)
(***************************************************************************)
ExplanationAddsUp ==
    \A person \in SearchRecord :
        LET matches == Matches(query, person)
        IN  /\ \A m \in matches : m.ops # <<>> => ReasonHolds(m)
            /\ (matches # {} /\ (IsReference(query) \/ ShortEnough(query, person))) =>
                    (Similarity(query, person) = 1000 <=> \A m \in matches : Exact(m))

=============================================================================
