--------------------------- MODULE CategoryMatch ---------------------------
(***************************************************************************)
(* The algorithms on the names of categories (backend                      *)
(* services/inventory_service.go): what an import compares, how close two  *)
(* names are, and the prefix of an asset number.                           *)
(*                                                                         *)
(* A name is a word with a style: "plain"; "loud" for capitals and spaces  *)
(* around, which both algorithms drop; "marked" for an accent on the first *)
(* letter, which the comparison strips and the prefix loses together with  *)
(* its letter.                                                             *)
(***************************************************************************)
EXTENDS Sequences, Naturals

CONSTANT Letters

\* strings.ToLower over NFD without marks: the style is gone, the word stays.
NormalizeCategory(name) == name.word

Smallest(a, b, c) == IF a <= b /\ a <= c THEN a ELSE IF b <= c THEN b ELSE c

\* dp[<<i, j>>]: how many edits turn the first i letters of a into the first j of b.
Levenshtein(a, b) ==
    LET dp[ij \in (0..Len(a)) \X (0..Len(b))] ==
          LET i == ij[1]
              j == ij[2] IN
          IF i = 0 THEN j
          ELSE IF j = 0 THEN i
          ELSE IF a[i] = b[j] THEN dp[<<i - 1, j - 1>>]
          ELSE 1 + Smallest(dp[<<i - 1, j>>], dp[<<i, j - 1>>], dp[<<i - 1, j - 1>>])
    IN dp[<<Len(a), Len(b)>>]

\* assetPrefix: the capital letters that are left, at most four of them; with
\* none left the prefix of items without category.
AssetPrefix(name) ==
    LET clean == IF name.style = "marked" THEN Tail(name.word) ELSE name.word
    IN  IF clean = << >> THEN <<"I", "T", "E", "M">>
        ELSE SubSeq(clean, 1, IF Len(clean) > 4 THEN 4 ELSE Len(clean))

-----------------------------------------------------------------------------
(* The reference that the table of distances is compared with: words one   *)
(* edit apart are neighbours, and the distance is the length of a shortest *)
(* path.                                                                   *)

Without(w, p) == SubSeq(w, 1, p - 1) \o SubSeq(w, p + 1, Len(w))

With(w, p, x) == SubSeq(w, 1, p - 1) \o <<x>> \o SubSeq(w, p, Len(w))

Neighbours(w) ==
    {Without(w, p) : p \in 1..Len(w)}
    \cup {[w EXCEPT ![p] = x] : p \in 1..Len(w), x \in Letters}
    \cup {With(w, p, x) : p \in 1..Len(w) + 1, x \in Letters}

\* Whether at most n edits turn a into b.
Reachable(a, b, n) ==
    LET ball[k \in 0..n] ==
          IF k = 0 THEN {a} ELSE ball[k - 1] \cup UNION {Neighbours(w) : w \in ball[k - 1]}
    IN b \in ball[n]
=============================================================================
