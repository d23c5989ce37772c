--------------------------- MODULE SecretsProofs ---------------------------
(***************************************************************************)
(* Theorems about secrets.yaml, for any number of concurrent insertions of *)
(* any keys: an insertion removes nothing, two insertions glue no lines    *)
(* together, and a key that was inserted is refused later.                 *)
(***************************************************************************)
EXTENDS Secrets, TLAPS

\* Some append was cut short, or may have been.
Cut == \E c \in Client : pc[c] = "killed" \/ outcome[c] = "error"

\* The call has decided that its key is new.
Decided(c) == pc[c] = "append" \/ outcome[c] = "created"

\* No line of its own had the key when the call began.
Fresh(c) ==
    \A i \in DOMAIN entries \ glued :
        entries[i].by \in preceded[c] \cup {Owner} => entries[i].key # key[c]

\* A missing file is empty.
FileInv == ~exists => entries = <<>> /\ tail = "ended"

\* What a call has decided on is out of date only in ways that do no harm: a
\* last line can lose its newline only by a cut, and what succeeded is there.
CallOK(c) ==
    /\ outcome[c] # "pending" => pc[c] = "over"
    /\ pc[c] = "look" => preceded[c] = {}
    /\ pc[c] = "append" /\ Joins(c) => Cut
    /\ outcome[c] = "created" => exists
    /\ \A d \in preceded[c] : outcome[d] = "created"
    /\ Decided(c) /\ key[c] \notin Converted => Fresh(c)
CallInv == \A c \in Client : CallOK(c)

IInv == TypeOK /\ FileInv /\ BrokenOnlyByCutLine /\ CallInv

----------------------------------------------------------------------------
(* The inductive invariant *)

LEMMA Initially == Init => IInv
<1> SUFFICES ASSUME Init PROVE IInv
  OBVIOUS
<1>1. TypeOK
  <2>1. entries \in Seq(Entry)
    <3>1. ASSUME NEW k \in Key
          PROVE  <<[key |-> k, by |-> Owner]>> \in Seq(Entry)
      <4>1. [key |-> k, by |-> Owner] \in Entry
        BY DEF Entry
      <4> QED BY <4>1
    <3>2. entries = <<>> \/ \E k \in Key : entries = <<[key |-> k, by |-> Owner]>>
      BY Zenon DEF Init
    <3>3. CASE entries = <<>>
      BY <3>3
    <3> QED BY <3>1, <3>2, <3>3, Zenon
  <2>2. exists \in BOOLEAN /\ tail \in Tails /\ glued \in SUBSET Nat /\ broken \in BOOLEAN
    <3>1. exists \in BOOLEAN /\ broken = FALSE /\ tail \in {"ended", "value", "colon"} /\ glued = {}
      BY Zenon DEF Init
    <3> QED BY <3>1 DEF Tails
  <2>3. /\ key \in [Client -> Key]
        /\ pc \in [Client -> Steps]
        /\ known \in [Client -> SUBSET Key]
        /\ prefix \in [Client -> BOOLEAN]
        /\ outcome \in [Client -> Outcomes]
        /\ preceded \in [Client -> SUBSET Client]
    BY DEF Init, Steps, Outcomes
  <2> QED BY <2>1, <2>2, <2>3, Zenon DEF TypeOK
<1>2. FileInv /\ BrokenOnlyByCutLine
  BY DEF Init, FileInv, BrokenOnlyByCutLine, Unreadable
<1>3. CallInv
  BY DEF Init, CallInv, CallOK, Decided
<1> QED BY <1>1, <1>2, <1>3 DEF IInv

\* The text grows by a piece of a call that had not succeeded, or not at all,
\* and what shares a line goes on to do so.
Grows == /\ glued \subseteq glued'
         /\ \/ UNCHANGED entries
            \/ \E c \in Client : outcome[c] = "pending" /\ entries' = AppendEntry(c)

LEMMA GrowsKeeps ==
    ASSUME TypeOK, CallInv, Grows, key' = key
    PROVE  /\ entries' \in Seq(Entry)
           /\ \A c \in Client : preceded'[c] = preceded[c] /\ Fresh(c) => Fresh(c)'
<1>1. CASE UNCHANGED entries
  BY <1>1 DEF TypeOK, Fresh, Grows
<1>2. ASSUME NEW c \in Client, outcome[c] = "pending", entries' = AppendEntry(c)
      PROVE  /\ entries' \in Seq(Entry)
             /\ \A d \in Client : preceded'[d] = preceded[d] /\ Fresh(d) => Fresh(d)'
  <2> DEFINE new == [key |-> key[c], by |-> c]
  <2>1. entries \in Seq(Entry) /\ new \in Entry
    BY DEF TypeOK, Entry
  <2>2. entries' = Append(entries, new)
    BY <1>2 DEF AppendEntry
  <2>3. /\ entries' \in Seq(Entry)
        /\ Len(entries') = Len(entries) + 1 /\ Len(entries) \in Nat
        /\ \A i \in 1 .. Len(entries) : entries'[i] = entries[i]
        /\ entries'[Len(entries) + 1] = new
        /\ DOMAIN entries = 1 .. Len(entries)
        /\ DOMAIN entries' = 1 .. Len(entries')
    <3> HIDE DEF new
    <3> QED BY <2>1, <2>2
  <2>4. ASSUME NEW d \in Client, preceded'[d] = preceded[d], Fresh(d),
               NEW i \in DOMAIN entries' \ glued', entries'[i].by \in preceded[d] \cup {Owner}
        PROVE  entries'[i].key # key'[d]
    <3>1. c \notin preceded[d] \cup {Owner}
      BY <1>2, OwnerNotClient DEF CallInv, CallOK
    <3>2. i # Len(entries) + 1
      BY <2>3, <2>4, <3>1
    <3>3. i \in DOMAIN entries \ glued /\ entries'[i] = entries[i]
      BY <2>3, <2>4, <3>2 DEF Grows
    <3> QED BY <2>4, <3>3 DEF Fresh
  <2> QED BY <2>3, <2>4 DEF Fresh
<1> QED BY <1>1, <1>2 DEF Grows

LEMMA LookKeeps ==
    ASSUME IInv, NEW c \in Client, Look(c)
    PROVE  IInv'
<1> USE DEF IInv
<1>1. TypeOK'
  BY DEF Look, Goto, TypeOK, Steps, file, Succeeded
<1>2. FileInv' /\ Cut' = Cut /\ BrokenOnlyByCutLine'
  <2>1. Cut' = Cut
    BY DEF Look, Goto, Cut, TypeOK, Steps, file
  <2> QED BY <2>1 DEF Look, FileInv, BrokenOnlyByCutLine, Unreadable, Cut, file
<1>3. ASSUME NEW d \in Client PROVE CallOK(d)'
  <2>1. CASE d = c
    <3>1. pc[c] = "look" /\ outcome[c] = "pending" /\ outcome' = outcome
      BY DEF Look, Goto, CallInv, CallOK
    <3>2. preceded'[c] = Succeeded /\ key' = key /\ entries' = entries
      BY DEF Look, TypeOK, file
    <3>3. pc'[c] = IF exists THEN "read" ELSE "append"
      BY DEF Look, Goto, TypeOK
    <3>4. ~exists => Succeeded = {} /\ entries = <<>> /\ tail = "ended"
      BY DEF FileInv, Succeeded, CallInv, CallOK
    <3>5. tail' = tail /\ exists' = exists
      BY DEF Look, file
    <3>6. Decided(c)' => Fresh(c)'
      <4> HAVE Decided(c)'
      <4>1. ~exists
        BY <3>1, <3>3 DEF Decided
      <4> QED BY <3>2, <3>4, <4>1 DEF Fresh
    <3>7. \A e \in preceded'[c] : outcome'[e] = "created"
      BY <3>1, <3>2 DEF Succeeded
    <3> QED BY <2>1, <3>1, <3>3, <3>4, <3>5, <3>6, <3>7 DEF CallOK, Joins
  <2>2. CASE d # c
    BY <2>2, <1>2 DEF Look, Goto, CallInv, CallOK, Decided, Fresh, Joins, TypeOK, file
  <2> QED BY <2>1, <2>2
<1> QED BY <1>1, <1>2, <1>3 DEF CallInv

LEMMA ReadKeeps ==
    ASSUME IInv, NEW c \in Client, Read(c)
    PROVE  IInv'
<1> USE DEF IInv
<1>0. KeysRead \subseteq Key
  <2>1. \A i \in DOMAIN entries : entries[i] \in Entry
    BY DEF TypeOK
  <2> QED BY <2>1 DEF KeysRead, Entry
<1>1. TypeOK'
  <2>1. prefix' \in [Client -> BOOLEAN]
    <3>1. \/ UNCHANGED prefix
          \/ prefix' = [prefix EXCEPT ![c] = tail # "ended"]
      BY Zenon DEF Read, NeedsPrefix
    <3> QED BY <3>1 DEF TypeOK
  <2>2. /\ pc' \in [Client -> Steps]
        /\ known' \in [Client -> SUBSET Key]
        /\ outcome' \in [Client -> Outcomes]
    BY <1>0 DEF Read, Goto, Answer, TypeOK, Steps, Outcomes
  <2> QED BY <2>1, <2>2 DEF Read, TypeOK, file
<1>2. FileInv' /\ BrokenOnlyByCutLine' /\ (Cut => Cut')
  <2>1. Cut => Cut'
    BY DEF Read, Goto, Answer, Cut, TypeOK, CallInv, CallOK
  <2> QED BY <2>1 DEF Read, FileInv, BrokenOnlyByCutLine, Unreadable, Cut, file
<1>3. ASSUME NEW d \in Client PROVE CallOK(d)'
  <2>0. /\ pc[c] = "read" /\ outcome[c] = "pending"
        /\ UNCHANGED <<exists, entries, tail, glued, broken, key, preceded>>
    BY DEF Read, Goto, CallInv, CallOK, file
  <2>1. CASE d = c
    <3>1. CASE pc'[c] = "over" /\ outcome'[c] \in {"error", "exists"}
      <4>1. \A e \in preceded'[c] : outcome'[e] = "created"
        BY <2>0 DEF CallInv, CallOK, Read, Answer, TypeOK
      <4> QED BY <2>1, <3>1, <4>1 DEF CallOK, Decided
    <3>2. CASE ~Present(c) /\ pc'[c] = "append" /\ (prefix'[c] <=> tail # "ended") /\ outcome' = outcome
      <4>1. \A e \in preceded[c] : outcome[e] = "created"
        BY DEF CallInv, CallOK
      <4>2. key[c] \notin Converted => Fresh(c)'
        BY <2>0, <3>2 DEF Fresh, Present, KeysRead
      <4> QED BY <2>0, <2>1, <3>2, <4>1, <4>2 DEF CallOK, Decided, Joins
    <3> QED BY <3>1, <3>2 DEF Read, Goto, Answer, TypeOK, NeedsPrefix
  <2>2. CASE d # c
    <3>1. \A e \in preceded'[d] : outcome'[e] = "created"
      BY <2>0 DEF CallInv, CallOK, Read, Answer, TypeOK
    <3>2. /\ pc'[d] = pc[d] /\ prefix'[d] = prefix[d] /\ outcome'[d] = outcome[d]
      BY <2>2 DEF Read, Goto, Answer, TypeOK
    <3>3. Fresh(d) => Fresh(d)'
      BY <2>0 DEF Fresh
    <3> QED BY <1>2, <2>0, <3>1, <3>2, <3>3 DEF CallInv, CallOK, Decided, Joins
  <2> QED BY <2>1, <2>2
<1> QED BY <1>1, <1>2, <1>3 DEF CallInv

\* A call's text, complete or cut, is put behind another only if that was cut.
LEMMA WriteOK ==
    ASSUME IInv, NEW c \in Client, pc[c] = "append", NEW t \in Tails, Write(c, t)
    PROVE  /\ Grows /\ exists'
           /\ tail' = t
           /\ broken' \/ glued' # {} => Cut
           /\ broken' \in BOOLEAN /\ glued' \in SUBSET Nat
<1>1. Joins(c) => Cut
  BY DEF IInv, CallInv, CallOK
<1>2. Unreadable \/ glued # {} => Cut
  BY DEF IInv, BrokenOnlyByCutLine, Cut
<1>3. outcome[c] = "pending"
  BY DEF IInv, CallInv, CallOK
<1>4. Grows
  BY <1>3 DEF Grows, Write
<1>5. glued' \in SUBSET Nat /\ (glued' # {} => Cut)
  <2>1. entries \in Seq(Entry) /\ glued \in SUBSET Nat
    BY DEF IInv, TypeOK
  <2>2. Len(entries) \in Nat
    BY <2>1
  <2>3. CASE Joins(c)
    <3>1. glued' = glued \cup {Len(entries), Len(entries) + 1}
      BY <2>3, Zenon DEF Write
    <3>2. {Len(entries), Len(entries) + 1} \in SUBSET Nat
      BY <2>2
    <3> QED BY <1>1, <2>1, <2>3, <3>1, <3>2
  <2>4. CASE ~Joins(c)
    BY <1>2, <2>1, <2>4 DEF Write
  <2> QED BY <2>3, <2>4
<1>6. broken' \in BOOLEAN /\ (broken' => Cut)
  <2>1. CASE Joins(c)
    BY <1>1, <2>1 DEF Write
  <2>2. CASE ~Joins(c)
    BY <1>2, <2>2 DEF Write, Unreadable
  <2> QED BY <2>1, <2>2
<1> QED BY <1>4, <1>5, <1>6 DEF Write

LEMMA CutShortOK ==
    ASSUME IInv, NEW c \in Client, pc[c] = "append", CutShort(c)
    PROVE  Grows /\ exists' /\ tail' \in Tails /\ broken' \in BOOLEAN /\ glued' \in SUBSET Nat
<1>1. ASSUME NEW t \in Tails, Write(c, t)
      PROVE  Grows /\ exists' /\ tail' \in Tails /\ broken' \in BOOLEAN /\ glued' \in SUBSET Nat
  BY <1>1, WriteOK
<1>2. CASE exists' = TRUE /\ UNCHANGED <<entries, tail, glued, broken>>
  BY <1>2 DEF Grows, IInv, TypeOK
<1>3. CASE exists' = TRUE /\ tail' = "ended" /\ broken' = Unreadable /\ UNCHANGED <<entries, glued>>
  <2>1. broken' \in BOOLEAN
    <3>1. Unreadable \in BOOLEAN
      BY DEF Unreadable
    <3> QED BY <1>3, <3>1, Zenon
  <2> QED BY <1>3, <2>1 DEF Grows, IInv, TypeOK, Tails
<1> QED BY <1>1, <1>2, <1>3 DEF CutShort

\* What other calls have decided survives a step of c that lets the file grow.
LEMMA OthersKeep ==
    ASSUME IInv, NEW c \in Client, NEW d \in Client, d # c,
           pc[c] # "over", Grows, exists => exists',
           tail' # "ended" /\ tail = "ended" => Cut',
           Cut => Cut',
           pc' = [pc EXCEPT ![c] = "over"],
           NEW o \in Outcomes, Answer(c, o),
           UNCHANGED <<key, known, prefix, preceded>>
    PROVE  CallOK(d)'
<1>1. /\ pc'[d] = pc[d] /\ outcome'[d] = outcome[d]
      /\ preceded'[d] = preceded[d] /\ prefix'[d] = prefix[d]
      /\ key'[d] = key[d] /\ key' = key
  BY DEF Answer, IInv, TypeOK
<1>2. Fresh(d) => Fresh(d)'
  BY <1>1, GrowsKeeps DEF IInv
<1>3. \A e \in preceded'[d] : outcome'[e] = "created"
  <2>1. outcome[c] # "created" /\ CallOK(d)
    BY DEF IInv, CallInv, CallOK
  <2>2. ASSUME NEW e \in preceded[d] PROVE outcome'[e] = "created"
    <3>1. outcome[e] = "created" /\ e \in Client
      BY <2>1 DEF CallOK, IInv, TypeOK
    <3> QED BY <2>1, <3>1 DEF Answer, IInv, TypeOK
  <2> QED BY <1>1, <2>2
<1> QED BY <1>1, <1>2, <1>3 DEF IInv, CallInv, CallOK, Decided, Joins

LEMMA AppendLineKeeps ==
    ASSUME IInv, NEW c \in Client, AppendLine(c)
    PROVE  IInv'
<1>1. /\ pc[c] = "append" /\ outcome[c] = "pending"
      /\ pc' = [pc EXCEPT ![c] = "over"]
      /\ outcome' = [outcome EXCEPT ![c] = "created"]
      /\ entries' = AppendEntry(c)
      /\ UNCHANGED <<key, known, prefix, preceded>>
  BY DEF AppendLine, Goto, Answer, Write, IInv, CallInv, CallOK
<1>2. /\ Grows /\ exists' /\ tail' = "ended" /\ tail' \in Tails
      /\ broken' \/ glued' # {} => Cut
      /\ broken' \in BOOLEAN /\ exists' \in BOOLEAN /\ glued' \in SUBSET Nat
  <2>1. Write(c, "ended") /\ exists' = TRUE /\ "ended" \in Tails
    BY DEF AppendLine, Write, Tails
  <2> QED BY <1>1, <2>1, WriteOK
<1>3. entries' \in Seq(Entry)
  BY <1>1, <1>2, GrowsKeeps DEF IInv
<1>4. TypeOK'
  BY <1>1, <1>2, <1>3 DEF IInv, TypeOK, Steps, Outcomes
<1>5. Cut => Cut'
  BY <1>1 DEF Cut, IInv, TypeOK
<1>6. FileInv' /\ BrokenOnlyByCutLine'
  BY <1>2, <1>5 DEF FileInv, BrokenOnlyByCutLine, Unreadable, Cut, IInv
<1>7. CallOK(c)'
  <2>1. key'[c] \notin Converted => Fresh(c)'
    <3>1. key[c] \notin Converted => Fresh(c)
      BY <1>1 DEF IInv, CallInv, CallOK, Decided
    <3> QED BY <1>1, <1>2, <3>1, GrowsKeeps DEF IInv
  <2>3. \A d \in preceded'[c] : outcome'[d] = "created"
    BY <1>1 DEF IInv, CallInv, CallOK, TypeOK
  <2>4. pc'[c] = "over"
    BY <1>1 DEF IInv, TypeOK
  <2> QED BY <1>2, <2>1, <2>3, <2>4 DEF CallOK, Joins
<1>8. ASSUME NEW d \in Client, d # c PROVE CallOK(d)'
  BY <1>1, <1>2, <1>5, <1>8, OthersKeep DEF Outcomes, Answer
<1> QED BY <1>4, <1>6, <1>7, <1>8 DEF IInv, CallInv

\* A failure before, or in the middle of, the append.
LEMMA FailsKeeps ==
    ASSUME IInv, NEW c \in Client, Fails(c)
    PROVE  IInv'
<1>1. /\ pc[c] \in {"read", "append"} /\ outcome[c] = "pending"
      /\ pc' = [pc EXCEPT ![c] = "over"]
      /\ outcome' = [outcome EXCEPT ![c] = "error"]
      /\ UNCHANGED <<key, known, prefix, preceded>>
  BY DEF Fails, Goto, Answer, IInv, CallInv, CallOK
<1>2. /\ Grows /\ (exists => exists')
      /\ FileInv'
      /\ broken' \in BOOLEAN /\ exists' \in BOOLEAN /\ glued' \in SUBSET Nat /\ tail' \in Tails
  <2>1. CASE UNCHANGED file
    BY <2>1 DEF file, Grows, FileInv, IInv, TypeOK
  <2>2. CASE pc[c] = "append" /\ CutShort(c)
    <3>1. exists' = TRUE
      BY <2>2 DEF CutShort, Write
    <3> QED BY <2>2, <3>1, CutShortOK DEF FileInv
  <2> QED BY <2>1, <2>2 DEF Fails, Goto
<1>3. entries' \in Seq(Entry)
  BY <1>1, <1>2, GrowsKeeps DEF IInv
<1>4. TypeOK'
  BY <1>1, <1>2, <1>3 DEF IInv, TypeOK, Steps, Outcomes
<1>5. Cut' /\ BrokenOnlyByCutLine'
  BY <1>1 DEF Cut, BrokenOnlyByCutLine, IInv, TypeOK
<1>6. CallOK(c)'
  <2>1. \A d \in preceded'[c] : outcome'[d] = "created"
    BY <1>1 DEF IInv, CallInv, CallOK, TypeOK
  <2> QED BY <1>1, <2>1 DEF CallOK, Decided, IInv, TypeOK
<1>7. ASSUME NEW d \in Client, d # c PROVE CallOK(d)'
  BY <1>1, <1>2, <1>5, <1>7, OthersKeep DEF Outcomes, Answer
<1> QED BY <1>2, <1>4, <1>5, <1>6, <1>7 DEF IInv, CallInv

LEMMA CrashKeeps ==
    ASSUME IInv, Crash
    PROVE  IInv'
<1>1. /\ \A c \in Client : pc'[c] = IF pc[c] \in {"read", "append"} THEN "killed" ELSE pc[c]
      /\ pc' \in [Client -> Steps]
      /\ UNCHANGED <<key, known, prefix, outcome, preceded>>
  BY DEF Crash, IInv, TypeOK, Steps
<1>2. /\ Grows /\ (exists => exists')
      /\ FileInv'
      /\ broken' \in BOOLEAN /\ exists' \in BOOLEAN /\ glued' \in SUBSET Nat /\ tail' \in Tails
  <2>1. CASE UNCHANGED file
    BY <2>1 DEF file, Grows, FileInv, IInv, TypeOK
  <2>2. CASE \E c \in Client : pc[c] = "append" /\ CutShort(c)
    <3>1. PICK c \in Client : pc[c] = "append" /\ CutShort(c)
      BY <2>2
    <3>2. exists' = TRUE
      BY <3>1 DEF CutShort, Write
    <3>3. Grows /\ tail' \in Tails /\ broken' \in BOOLEAN /\ glued' \in SUBSET Nat
      BY <3>1, CutShortOK
    <3> QED BY <3>2, <3>3 DEF FileInv
  <2> QED BY <2>1, <2>2 DEF Crash
<1>3. TypeOK'
  <2>1. entries' \in Seq(Entry)
    BY <1>1, <1>2, GrowsKeeps DEF IInv
  <2> QED BY <1>1, <1>2, <2>1 DEF IInv, TypeOK
<1>4. Cut'
  BY <1>1 DEF Crash, Cut
<1>5. ASSUME NEW c \in Client PROVE CallOK(c)'
  <2>1. Fresh(c) => Fresh(c)'
    BY <1>1, <1>2, GrowsKeeps DEF IInv
  <2>2. CallOK(c)
    BY DEF IInv, CallInv
  <2>3. Decided(c)' => Decided(c)
    BY <1>1 DEF Decided
  <2> QED BY <1>1, <1>2, <1>4, <2>1, <2>2, <2>3 DEF CallOK
<1> QED BY <1>2, <1>3, <1>4, <1>5 DEF IInv, CallInv, BrokenOnlyByCutLine, Cut

LEMMA Inductive == IInv /\ [Next]_vars => IInv'
<1>1. ASSUME IInv, UNCHANGED vars PROVE IInv'
  BY <1>1 DEF vars, file, IInv, TypeOK, FileInv, BrokenOnlyByCutLine, CallInv, CallOK,
              Cut, Decided, Fresh, Joins, Unreadable
<1> QED BY <1>1, LookKeeps, ReadKeeps, AppendLineKeeps, FailsKeeps, CrashKeeps DEF Next

----------------------------------------------------------------------------
(* Theorems *)

THEOREM Invariant == Spec => []IInv
<1> QED BY Initially, Inductive, PTL DEF Spec

\* Every variable keeps the shape the code gives it.
THEOREM TypeCorrect == Spec => []TypeOK
<1>1. IInv => TypeOK
  BY DEF IInv
<1> QED BY <1>1, Invariant, PTL

\* No interleaving of any number of insertions glues two lines together.
THEOREM NothingGlued == Spec => []BrokenOnlyByCutLine
<1>1. IInv => BrokenOnlyByCutLine
  BY DEF IInv
<1> QED BY <1>1, Invariant, PTL

\* A key that YAML reads as a string and that a line of its own has is refused to
\* every call that begins later.
THEOREM LaterRefused == Spec => []LaterInsertRefused
<1>1. IInv => LaterInsertRefused
  <2> SUFFICES ASSUME IInv, NEW c \in Succeeded, key[c] \notin Converted
               PROVE  \A i \in DOMAIN entries \ glued :
                        entries[i].by \in preceded[c] \cup {Owner} => entries[i].key # key[c]
    BY DEF LaterInsertRefused
  <2>1. Fresh(c)
    BY DEF Succeeded, IInv, CallInv, CallOK, Decided
  <2> QED BY <2>1 DEF Fresh
<1> QED BY <1>1, Invariant, PTL

\* Every step leaves the text alone or adds to its end.
LEMMA StepGrows == ASSUME IInv, Next PROVE Grows
<1>1. ASSUME NEW c \in Client, Look(c) \/ Read(c) PROVE Grows
  BY <1>1 DEF Look, Read, Grows, file
<1>2. ASSUME NEW c \in Client, pc[c] = "append", CutShort(c) \/ Write(c, "ended") PROVE Grows
  <2>1. "ended" \in Tails
    BY DEF Tails
  <2> QED BY <1>2, <2>1, CutShortOK, WriteOK
<1>3. ASSUME NEW c \in Client, AppendLine(c) \/ Fails(c) PROVE Grows
  BY <1>2, <1>3 DEF AppendLine, Fails, Goto, Grows, file
<1>4. CASE Crash
  BY <1>2, <1>4 DEF Crash, Grows, file
<1> QED BY <1>1, <1>3, <1>4 DEF Next

\* No insertion, failure or crash removes, moves or changes text.
THEOREM NothingRemoved == Spec => SecretsKept
<1> DEFINE Kept == /\ Len(entries') >= Len(entries)
                   /\ SubSeq(entries', 1, Len(entries)) = entries
<1>1. ASSUME IInv, Grows PROVE Kept
  <2>1. entries \in Seq(Entry) /\ \A c \in Client : [key |-> key[c], by |-> c] \in Entry
    BY <1>1 DEF IInv, TypeOK, Entry
  <2>2. CASE UNCHANGED entries
    BY <2>1, <2>2
  <2>3. ASSUME NEW e \in Entry, entries' = Append(entries, e) PROVE Kept
    BY <2>1, <2>3
  <2> QED BY <1>1, <2>1, <2>2, <2>3 DEF Grows, AppendEntry
<1>2. IInv /\ [Next]_vars => [Kept]_vars
  BY <1>1, StepGrows
<1> QED BY <1>2, Invariant, PTL DEF Spec, SecretsKept
============================================================================
