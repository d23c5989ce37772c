---------------------------- MODULE MCLogFilter ----------------------------
(***************************************************************************)
(* LogFilter checked against what it promises: a definition of the kept    *)
(* lines over the whole input, in the manner of grep -C.                   *)
(***************************************************************************)
EXTENDS LogFilter

\* The entry a line belongs to, 0 before the first entry.
EntryOf(i) == Max({0} \cup {e \in 1..i : input[e] \in Entries})

IsStatus(i) == input[i] = "status" \/ (input[i] = "indent" /\ EntryOf(i) = 0)

\* Eligible entries are counted; context is a distance in this count.
Rank(e) == Cardinality({f \in 1..e : input[f] \in {"match", "other"}})
KeptEntry(e) ==
    /\ input[e] \in {"match", "other"}
    /\ \E m \in 1..Len(input) :
         input[m] = "match" /\ Rank(m) - Rank(e) \in (-context)..context

Kept == {i \in 1..Len(input) :
            /\ input[i] # "blank"
            /\ IsStatus(i) \/ (EntryOf(i) # 0 /\ KeptEntry(EntryOf(i)))}

\* Where the returned lines are in what was returned.
Places == {p \in DOMAIN out : out[p] # Separator}

\* The lines returned are those, not blank, within context eligible entries of a
\* match, with their continuations, and the status lines; each once, and those
\* of entries in the order they came.
KeptExactly ==
    /\ {out[p] : p \in Places} = Kept
    /\ \A p, q \in Places :
         p < q => /\ out[p] # out[q]
                  /\ out[p] < out[q] \/ IsStatus(out[p]) \/ IsStatus(out[q])

\* Lines of entries with others, which are not kept, between them.
Apart(i, j) == context > 0 /\ Rank(EntryOf(j)) - Rank(EntryOf(i)) > 1

\* "-- separates groups that aren't contiguous, as with grep -C" (LogFilter):
\* as long as no status line has come, a separator stands between two lines
\* that are apart, and nowhere else.  With KeptExactly that is the output of
\* grep -C, line for line.
AsGrep ==
    (\A i \in 1..Len(input) : ~IsStatus(i)) =>
        \A p \in DOMAIN out :
            IF out[p] = Separator
              THEN {p - 1, p + 1} \subseteq Places /\ Apart(out[p - 1], out[p + 1])
              ELSE p + 1 \in Places => ~Apart(out[p], out[p + 1])
============================================================================
