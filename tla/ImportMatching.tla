--------------------------- MODULE ImportMatching ---------------------------
(***************************************************************************)
(* The import of AssetNumbers over the names of CategoryMatch: what an     *)
(* import compares are words, the table of distances is the one that       *)
(* levenshtein computes, and the reference is a count of single edits that *)
(* knows nothing of that table.                                            *)
(***************************************************************************)
EXTENDS AssetNumbers, CategoryMatch

CONSTANTS
    Text,  \* Text[n]: a name as the client wrote it
    Word   \* Word[k]: a name as an import compares it

Styles == {"plain", "loud", "marked"}

ASSUME NamesAreWords ==
    /\ Text \in [Names -> [word : Seq(Letters), style : Styles]]
    /\ Word \in [Keys -> Seq(Letters)]
    /\ \A n \in Names : Word[Key[n]] = NormalizeCategory(Text[n])
    /\ \A k, l \in Keys : Word[k] = Word[l] => k = l

ASSUME TablesAreComputed ==
    /\ \A k, l \in Keys : Distance[<<k, l>>] = Levenshtein(Word[k], Word[l])
    /\ \A k \in Keys : Size[k] = Len(Word[k])

-----------------------------------------------------------------------------
\* Who is how many edits, at most, from whom.  (A union is a table that TLC
\* computes once.)
Paths(k, l) == {k} \X {l} \X {n \in 0..2 : Reachable(Word[k], Word[l], n)}

Within == UNION {Paths(k, l) : k, l \in Keys}

WithinEdits(k, l, n) == <<k, l, n>> \in Within

\* At most two edits and fewer than half of the letters, or no edit at all.
Near(k, l) == l = k \/ \E n \in 0..2 : WithinEdits(k, l, n) /\ 2 * n + 2 <= Size[k]

NoNearer(k, l, m) == \A n \in 0..2 : WithinEdits(k, m, n) => WithinEdits(k, l, n)

\* The row of a sheet goes to the category that it names or, if there is none,
\* to one that no other is nearer than, counted in single edits, and a category
\* is created only when no name is near: at most two edits and fewer than half
\* of the letters.
MatchIsNearest ==
    \A r \in Requests :
        LET call == req[r]
            k == Key[call.name]
            known == KnownKeys(call.known) IN
        call.name # None =>
            /\ call.category = None => \A l \in known : ~Near(k, l)
            /\ call.category # None =>
                  \E l \in known :
                     /\ call.known[l] = call.category /\ Near(k, l)
                     /\ \A m \in known : NoNearer(k, l, m)
=============================================================================
