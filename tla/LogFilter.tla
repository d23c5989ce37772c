----------------------------- MODULE LogFilter -----------------------------
(***************************************************************************)
(* LogFilter.feed (logtext.py): the streaming filter of a log capture,     *)
(* with grep's context.  A raw line is known by its number and by what     *)
(* cleaning, parsing and the filter's options make of it:                  *)
(*   "match"   an eligible entry that the search matches                   *)
(*   "other"   an eligible entry that it does not match                    *)
(*   "ineligible"  an entry below the level, of an unwanted tag, or of the *)
(*             config dump                                                 *)
(*   "indent"  a line that is no entry and begins with white space         *)
(*   "status"  any other line that is no entry                             *)
(*   "blank"   a line with nothing left of it once it is cleaned           *)
(* lines_received is the length of input.                                  *)
(***************************************************************************)
EXTENDS Integers, SequencesExt

CONSTANTS
    Contexts,   \* values of the context option
    MaxInput    \* bound on the lines fed

ASSUME ContextsAreNat == Contexts \subseteq Nat
ASSUME MaxInputIsNat == MaxInput \in Nat

VARIABLES
    context,    \* the option
    before,     \* held entries, each with its continuation lines
    after,      \* trailing context still to keep
    state,      \* decision for the current entry
    seen_entry,
    discarded,  \* an eligible line was dropped since the last kept line
    returned,   \* lines_returned
    out,        \* everything feed has returned, lines by their number
    input       \* what was fed

filter_vars == <<context, before, after, state, seen_entry, discarded, returned, out, input>>

Kinds  == {"match", "other", "ineligible", "indent", "status", "blank"}
Entries == {"match", "other", "ineligible"}
Separator == 0

FilterInit ==
    /\ context \in Contexts
    /\ before = <<>>
    /\ after = 0
    /\ state = "drop"
    /\ seen_entry = FALSE
    /\ discarded = FALSE
    /\ returned = 0
    /\ out = <<>>
    /\ input = <<>>

\* The number of the line being fed.
Line == Len(input) + 1

\* The line is of this kind, and the filter is asked about it.
Fed(kind) ==
    /\ Len(input) < MaxInput
    /\ input' = Append(input, kind)
    /\ UNCHANGED context

\* Seeded fault: a capture's first kept line gets a separator too.
SeparatorAlways == IF discarded /\ context > 0 THEN <<Separator>> ELSE <<>>
Gap == IF discarded /\ context > 0 /\ returned > 0 THEN <<Separator>> ELSE <<>>

\* _emit for each of these lines: only the first can follow a gap.
Emit(ls) ==
    /\ out' = out \o Gap \o ls
    /\ returned' = returned + Len(ls)
    /\ discarded' = FALSE

Nothing == UNCHANGED <<out, returned, discarded>>

\* Seeded fault: the context is taken for a size that is not reached.
HoldTooFew(b) == Len(b) >= context
Overfull(b) == Len(b) > context

Window == context

----------------------------------------------------------------------------
(* One action per branch of feed *)

\* Seeded fault: an entry that is filtered out does not end the one before it.
IneligibleKeepsState ==
    /\ Fed("ineligible")
    /\ seen_entry' = TRUE
    /\ Nothing
    /\ UNCHANGED <<before, after, state>>
Ineligible ==
    /\ Fed("ineligible")
    /\ seen_entry' = TRUE
    /\ state' = "drop"
    /\ Nothing
    /\ UNCHANGED <<before, after>>

HeldGone  == <<>>
\* A match returns what is held, then itself, and opens the trailing context.
Match ==
    /\ Fed("match")
    /\ seen_entry' = TRUE
    /\ Emit(Append(FlattenSeq(before), Line))
    /\ before' = HeldGone
    /\ state' = "keep"
    /\ after' = Window

\* An eligible entry shortly after a match.
Trailing ==
    /\ after > 0
    /\ Fed("other")
    /\ seen_entry' = TRUE
    /\ Emit(<<Line>>)
    /\ state' = "keep"
    /\ after' = after - 1
    /\ UNCHANGED before

\* An eligible entry that may turn out to precede a match: _hold.
Hold ==
    /\ after = 0
    /\ Fed("other")
    /\ seen_entry' = TRUE
    /\ state' = "buffer"
    /\ \/ /\ context = 0
          /\ discarded' = TRUE
          /\ UNCHANGED before
       \/ /\ context > 0
          /\ LET b == Append(before, <<Line>>)
             IN /\ before' = IF Overfull(b) THEN Tail(b) ELSE b
                /\ discarded' = (discarded \/ Overfull(b))
    /\ UNCHANGED <<out, returned, after>>

\* An indented line shares the fate of its entry.
Continuation ==
    /\ seen_entry
    /\ Fed("indent")
    /\ \/ /\ state = "keep"
          /\ Emit(<<Line>>)
          /\ UNCHANGED before
       \/ /\ state = "buffer"
          /\ \/ /\ context = 0
                /\ discarded' = TRUE
                /\ UNCHANGED before
             \/ /\ context > 0
                /\ before' = [before EXCEPT ![Len(before)] = Append(@, Line)]
                /\ UNCHANGED discarded
          /\ UNCHANGED <<out, returned>>
       \/ /\ state = "drop"
          /\ Nothing
          /\ UNCHANGED before
    /\ UNCHANGED <<seen_entry, after, state>>

\* A line about the capture itself, or an indented one before any entry, is
\* returned at once, ahead of what is held.
Status ==
    /\ \/ Fed("status")
       \/ ~seen_entry /\ Fed("indent")
    /\ Emit(<<Line>>)
    /\ UNCHANGED <<before, after, state, seen_entry>>

\* A blank line ends nothing: neither an entry nor a window.
Blank ==
    /\ Fed("blank")
    /\ Nothing
    /\ UNCHANGED <<before, after, state, seen_entry>>

FilterNext ==
    \/ Blank
    \/ Ineligible
    \/ Match
    \/ Trailing
    \/ Hold
    \/ Continuation
    \/ Status

FilterSpec == FilterInit /\ [][FilterNext]_filter_vars

----------------------------------------------------------------------------
(* Properties of the filter's own state *)

\* Every variable keeps the shape the code gives it.
FilterTypeOK ==
    /\ context \in Contexts
    /\ before \in Seq(Seq(Nat))
    /\ after \in 0..context
    /\ state \in {"keep", "buffer", "drop"}
    /\ seen_entry \in BOOLEAN
    /\ discarded \in BOOLEAN
    /\ returned \in Nat
    /\ out \in Seq(Nat)
    /\ input \in Seq(Kinds)

\* A continuation line of a held entry always finds its entry in _before: no
\* sequence of lines makes _before[-1] an IndexError.
HeldEntryIsThere == state = "buffer" /\ context > 0 => before # <<>>
============================================================================
