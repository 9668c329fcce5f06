--------------------------- MODULE MCAssetNumbers ---------------------------
(***************************************************************************)
(* A small instance of ImportMatching: three words of different lengths,   *)
(* one of them with an accent, of which some are near and some are not.    *)
(* Names, words and prefixes go by model values.                           *)
(***************************************************************************)
EXTENDS ImportMatching, TLC

CONSTANTS
    i1, i2, i3, k1, k2, r1, r2,
    left, middle, right,
    itemPrefix

\* middle is two edits from each of the others: near enough to it (seven
\* letters) and to right (eight), not to left (five).  left and right are three
\* edits apart, few enough for the letters of right and too many all the same.
TheText ==
    left   :> [word |-> <<"A", "B", "B", "A", "B">>, style |-> "plain"] @@
    middle :> [word |-> <<"A", "B", "B", "A", "B", "B", "A">>, style |-> "marked"] @@
    right  :> [word |-> <<"A", "B", "B", "A", "B", "A", "A", "A">>, style |-> "loud"]

\* The three have different words, which the names stand for.
KeyOf == [n \in Names |-> CHOOSE k \in Names :
                  NormalizeCategory(Text[k]) = NormalizeCategory(Text[n])]

WordOf == [k \in Names |-> NormalizeCategory(Text[k])]

\* A prefix goes by the first name that has it.
PrefixOf == [n \in Names |-> CHOOSE m \in Names :
                     AssetPrefix(Text[m]) = AssetPrefix(Text[n])]

\* TLC computes a definition without parameters once, but not the one that a
\* constant is given.
DistanceTable == [kl \in Names \X Names |-> Levenshtein(Word[kl[1]], Word[kl[2]])]

Distances == DistanceTable

Sizes == [k \in Names |-> Len(Word[k])]

\* The second number that a count gives to a category named left.
EnteredNumbers == {<<PrefixOf[left], 2>>}

Row(name, auto, number) == [name |-> name, auto |-> auto, number |-> number]

TheRows ==
    {Row(n, TRUE, None) : n \in Names}
    \cup {Row(None, TRUE, None), Row(right, FALSE, <<PrefixOf[left], 2>>)}
=============================================================================
