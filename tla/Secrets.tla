------------------------------ MODULE Secrets ------------------------------
(***************************************************************************)
(* secrets.yaml under concurrent esphome_add_secret calls (_insert_secret, *)
(* AddSecretTool in llm.py).  A call is one executor job: it looks whether *)
(* the file exists, reads and parses it, and appends a line; the steps of  *)
(* different calls interleave.                                             *)
(*                                                                         *)
(* The file is the sequence of what was written to it, each piece known by *)
(* its key and the call that wrote it (Owner for what was there before).   *)
(* The piece is a whole line, or its beginning if the write was cut short, *)
(* and it begins a line of its own unless the one before was not ended.    *)
(***************************************************************************)
EXTENDS Naturals, Sequences

CONSTANTS
    Client,     \* tool calls
    Key,        \* secret keys that match SECRET_KEY_PATTERN
    Converted,  \* those YAML reads as another value: on, yes, null, ...
    Owner       \* who wrote the file before

ASSUME OwnerNotClient == Owner \notin Client

VARIABLES
    exists,     \* the file exists
    entries,    \* the pieces of its text
    tail,       \* how the last line ends
    glued,      \* the pieces that share a line with another
    broken,     \* a line before the last, or one made of two, is no YAML
    key,        \* the key each call inserts
    pc,         \* the next step of each call
    known,      \* the keys the call has parsed
    prefix,     \* the call will terminate the last line first
    outcome,    \* the tool's response
    preceded    \* the calls that had succeeded when this one began

vars == <<exists, entries, tail, glued, broken, key, pc, known, prefix, outcome, preceded>>
file == <<exists, entries, tail, glued, broken>>

Entry    == [key : Key, by : Client \cup {Owner}]
Steps    == {"look", "read", "append", "over", "killed"}
Outcomes == {"pending", "created", "exists", "error"}

\* The file ends in a newline (or is empty), behind a value or the blank before
\* it, behind a colon, in the middle of a value, or in or just behind a key.
Tails == {"ended", "value", "colon", "midvalue", "key"}

\* yaml.safe_load raises, or does not return a mapping.
Unreadable == broken \/ tail \in {"midvalue", "key"}

\* Seeded fault: the lines stand for the keys.
LinesRead == {entries[i] : i \in DOMAIN entries \ glued}
\* The keys of the parsed file, as far as they are strings.  Two glued pieces
\* are one line with a key of its own, which is none of Key.
KeysRead == {entries[i].key : i \in DOMAIN entries \ glued} \ Converted
Succeeded == {c \in Client : outcome[c] = "created"}

\* The owner's file: missing, or with at most one line, terminated or not.
Init ==
    /\ exists \in BOOLEAN
    /\ entries \in {<<>>} \cup {<<[key |-> k, by |-> Owner]>> : k \in Key}
    /\ tail \in {"ended", "value", "colon"}
    /\ ~exists => entries = <<>>
    /\ entries = <<>> => tail = "ended"
    /\ glued = {}
    /\ broken = FALSE
    /\ key \in [Client -> Key]
    /\ pc = [c \in Client |-> "look"]
    /\ known = [c \in Client |-> {}]
    /\ prefix = [c \in Client |-> FALSE]
    /\ outcome = [c \in Client |-> "pending"]
    /\ preceded = [c \in Client |-> {}]

Goto(c, from, to) == pc[c] = from /\ pc' = [pc EXCEPT ![c] = to]
Answer(c, o)      == outcome' = [outcome EXCEPT ![c] = o]

\* os.path.exists.  A missing file has no keys and needs no prefix.
Look(c) ==
    /\ Goto(c, "look", IF exists THEN "read" ELSE "append")
    /\ preceded' = [preceded EXCEPT ![c] = Succeeded]
    /\ UNCHANGED <<file, key, known, prefix, outcome>>

\* Seeded fault: the last line is taken to be terminated.
NoPrefix == FALSE
\* The file is not empty and does not end in a newline.
NeedsPrefix == tail # "ended"

\* Seeded fault: an existing key is no reason to stop.
NeverPresent(c) == FALSE
Present(c) == key[c] \in KeysRead

\* Open, read and parse; the key is refused if it is there.
Read(c) ==
    /\ \/ /\ Unreadable
          /\ Goto(c, "read", "over")
          /\ Answer(c, "error")
          /\ UNCHANGED <<known, prefix>>
       \/ /\ ~Unreadable /\ Present(c)
          /\ Goto(c, "read", "over")
          /\ Answer(c, "exists")
          /\ known' = [known EXCEPT ![c] = KeysRead]
          /\ UNCHANGED prefix
       \/ /\ ~Unreadable /\ ~Present(c)
          /\ Goto(c, "read", "append")
          /\ known' = [known EXCEPT ![c] = KeysRead]
          /\ prefix' = [prefix EXCEPT ![c] = NeedsPrefix]
          /\ UNCHANGED outcome
    /\ UNCHANGED <<file, key, preceded>>

\* Seeded fault: the content that was read is written back with the new line.
RewriteEntries(c) ==
    Append(SelectSeq(entries, LAMBDA e : e.key \in known[c]), [key |-> key[c], by |-> c])
AppendEntry(c) == Append(entries, [key |-> key[c], by |-> c])

\* The call's line is put behind one that was not ended.
Joins(c) == tail # "ended" /\ ~prefix[c]

\* The text of the call's line up to t, after the newline it believes is
\* missing.  Text behind a colon or a key ("k1:k2: v", "k1k2: v") makes a key
\* of both; anywhere else it is no YAML, as is a line ended within.
Write(c, t) ==
    /\ exists' = TRUE
    /\ entries' = AppendEntry(c)
    /\ tail' = t
    /\ glued' = glued \cup (IF Joins(c) THEN {Len(entries), Len(entries) + 1} ELSE {})
    /\ broken' = (broken \/ tail \in (IF Joins(c) THEN {"value", "midvalue"}
                                               ELSE {"midvalue", "key"}))

\* The file is opened, and created if missing, but not all of the line is
\* written: nothing, the newline before it, or the line up to somewhere.
CutShort(c) ==
    \/ /\ exists' = TRUE
       /\ UNCHANGED <<entries, tail, glued, broken>>
    \/ /\ prefix[c]
       /\ exists' = TRUE /\ tail' = "ended" /\ broken' = Unreadable
       /\ UNCHANGED <<entries, glued>>
    \/ \E t \in Tails : Write(c, t)

\* Open for appending, write the line, close.
AppendLine(c) ==
    /\ Goto(c, "append", "over")
    /\ Answer(c, "created")
    /\ Write(c, "ended")
    /\ UNCHANGED <<key, known, prefix, preceded>>

\* Opening, reading, writing or closing raises: before anything is written, or,
\* on a disk that becomes full, when a part of the line is, or all of it.
Fails(c) ==
    /\ \/ Goto(c, "read", "over") /\ UNCHANGED file
       \/ Goto(c, "append", "over") /\ (UNCHANGED file \/ CutShort(c))
    /\ Answer(c, "error")
    /\ UNCHANGED <<key, known, prefix, preceded>>

\* Home Assistant dies: nothing more happens, or the line of one call is cut
\* short, or is written but never reported.
Crash ==
    /\ \E c \in Client : pc[c] \in {"read", "append"}
    /\ pc' = [c \in Client |-> IF pc[c] \in {"read", "append"} THEN "killed" ELSE pc[c]]
    /\ \/ UNCHANGED file
       \/ \E c \in Client : pc[c] = "append" /\ CutShort(c)
    /\ UNCHANGED <<key, known, prefix, outcome, preceded>>

Next ==
    \/ \E c \in Client : Look(c)
    \/ \E c \in Client : Read(c)
    \/ \E c \in Client : AppendLine(c)
    \/ \E c \in Client : Fails(c)
    \/ Crash

Spec == Init /\ [][Next]_vars

----------------------------------------------------------------------------
(* Properties *)

\* Every variable keeps the shape the code gives it.
TypeOK ==
    /\ exists \in BOOLEAN
    /\ entries \in Seq(Entry)
    /\ tail \in Tails
    /\ glued \in SUBSET Nat
    /\ broken \in BOOLEAN
    /\ key \in [Client -> Key]
    /\ pc \in [Client -> Steps]
    /\ known \in [Client -> SUBSET Key]
    /\ prefix \in [Client -> BOOLEAN]
    /\ outcome \in [Client -> Outcomes]
    /\ preceded \in [Client -> SUBSET Client]

\* No insertion removes, moves or changes text of the file, its owner's or
\* another call's, whatever stale content the call decided on.
SecretsKept ==
    [][/\ Len(entries') >= Len(entries)
       /\ SubSeq(entries', 1, Len(entries)) = entries]_vars

\* Only a write cut short by a crash or a failure can leave a file YAML does
\* not parse, or two secrets on one line: no interleaving glues lines together,
\* though each call decides about the newline on content that may be old.
BrokenOnlyByCutLine ==
    Unreadable \/ glued # {} =>
        \E c \in Client : pc[c] = "killed" \/ outcome[c] = "error"

\* A key that is a string for YAML is refused if a line of its own has it that
\* was there, by the owner or a call that had succeeded, when the call began.
LaterInsertRefused ==
    \A c \in Succeeded : key[c] \notin Converted =>
        \A i \in DOMAIN entries \ glued :
            entries[i].by \in preceded[c] \cup {Owner} => entries[i].key # key[c]
============================================================================
