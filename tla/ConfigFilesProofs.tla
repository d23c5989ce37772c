------------------------- MODULE ConfigFilesProofs -------------------------
(***************************************************************************)
(* The configuration tools on one file, for any number of concurrent       *)
(* calls: nobody finds half a file, every answer is true, only a crash     *)
(* leaves a temporary file, permissions survive, a creation spares the     *)
(* owner's file, and the calls implement atomic replacement.               *)
(***************************************************************************)
EXTENDS ConfigFiles, TLAPS

----------------------------------------------------------------------------
(* The inductive invariant *)

Writing == {"mkstemp", "fill", "chmod", "replace"}

\* What a call holds and has done in each phase.
CallOK(c) ==
    /\ pc[c] \in {"idle", "apply", "mkstemp", "reply", "over"} => temp[c] = "none"
    /\ pc[c] \in {"chmod", "replace"} => temp[c] = "whole"
    /\ pc[c] = "apply" => seen[c] \in Whole /\ kind[c] = "patch"
    /\ pc[c] \in Writing => kind[c] # "read"
    /\ pc[c] \in Writing => new[c] \in VersionOf(c)
    /\ pc[c] \in {"idle", "apply"} \cup Writing => c \notin landed
    /\ pc[c] = "reply" => c \in landed
    /\ pc[c] # "over" => outcome[c] = "pending"
    /\ pc[c] = "over" /\ outcome[c] \in {"error", "exists"} => c \notin landed
    /\ pc[c] = "over" /\ outcome[c] = "success" => kind[c] = "read" \/ c \in landed
CallInv == \A c \in Client : CallOK(c)

\* A call about to replace the file has the permissions to give it, also when
\* another one creates it first.
ModeInv == \A c \in Client : pc[c] = "replace" => temp_mode[c] = TargetMode

\* As long as there is no file, and whenever a creation is under way, nothing
\* of the owner's is in the file or in any call's hands.
Owned(v) == v # Absent /\ v.base = Original
Creating(c) == kind[c] = "create" /\ pc[c] \in Writing
OwnerInv ==
    content = Absent \/ (\E c \in Client : Creating(c)) =>
        /\ ~Owned(content)
        /\ \A d \in Client : ~Owned(seen[d]) /\ ~Owned(new[d])

IInv == TypeOK /\ NeverTorn /\ CallInv /\ ModeInv /\ OwnerInv

----------------------------------------------------------------------------
(* Preservation *)

USE DEF Kinds, Steps, Modes, Outcomes, Writing

LEMMA Initially == Init => IInv
<1> SUFFICES ASSUME Init PROVE IInv
  OBVIOUS
<1>1. content \in Version /\ content # Torn
  BY ValuesDiffer DEF Init, Version, Whole
<1>2. TypeOK
  BY <1>1 DEF Init, TypeOK, Version
<1>3. NeverTorn
  BY <1>1, ValuesDiffer DEF Init, NeverTorn
<1>4. CallInv
  BY DEF Init, CallInv, CallOK
<1>5. ModeInv /\ OwnerInv
  BY DEF Init, ModeInv, OwnerInv, Creating, Owned
<1> QED BY <1>2, <1>3, <1>4, <1>5 DEF IInv

\* A creation begins only where there is no file.
LEMMA CreateCheckKeeps ==
    ASSUME IInv, NEW c \in Client, CreateCheck(c)
    PROVE  IInv'
<1>1. TypeOK'
  BY DEF CreateCheck, IInv, TypeOK, CallInv, CallOK, Goto, Answer, file, temps,
         Version, VersionOf, Exists, Fresh, Whole
<1>2. NeverTorn'
  BY DEF CreateCheck, IInv, TypeOK, NeverTorn, Goto, file, Exists, Fresh, Whole
<1>3. CallInv'
  BY DEF CreateCheck, IInv, TypeOK, CallInv, CallOK, Goto, Answer, file, temps,
         VersionOf, Exists, Fresh, Whole
<1>4. ModeInv'
  BY DEF CreateCheck, IInv, TypeOK, ModeInv, TargetMode, Goto, file, temps, Exists, Fresh, Whole
<1>5. OwnerInv'
  BY OwnerIsNoCall
  DEF CreateCheck, IInv, TypeOK, OwnerInv, Owned, Creating, Goto, file, Exists, Fresh
<1> QED BY <1>1, <1>2, <1>3, <1>4, <1>5 DEF IInv

\* A write begins with a version of its own.
LEMMA WriteStartKeeps ==
    ASSUME IInv, NEW c \in Client, WriteStart(c)
    PROVE  IInv'
<1>1. TypeOK'
  BY DEF WriteStart, IInv, TypeOK, CallInv, CallOK, Goto, Answer, file, temps,
         Version, VersionOf, Fresh, Whole
<1>2. NeverTorn'
  BY DEF WriteStart, IInv, TypeOK, NeverTorn, Goto, file, Fresh, Whole
<1>3. CallInv'
  BY DEF WriteStart, IInv, TypeOK, CallInv, CallOK, Goto, Answer, file, temps,
         VersionOf, Fresh, Whole
<1>4. ModeInv'
  BY DEF WriteStart, IInv, TypeOK, ModeInv, TargetMode, Goto, file, temps, Fresh, Whole
<1>5. OwnerInv'
  BY OwnerIsNoCall DEF WriteStart, IInv, TypeOK, OwnerInv, Owned, Creating, Goto, file, Fresh
<1> QED BY <1>1, <1>2, <1>3, <1>4, <1>5 DEF IInv

\* A call reads a whole version.
LEMMA ReadKeeps ==
    ASSUME IInv, NEW c \in Client, Read(c)
    PROVE  IInv'
<1>1. TypeOK'
  BY DEF Read, IInv, TypeOK, CallInv, CallOK, Goto, Answer, file, temps, Version, VersionOf
<1>2. NeverTorn'
  BY DEF Read, IInv, TypeOK, NeverTorn, Goto, file
<1>3. CallInv'
  BY DEF Read, IInv, TypeOK, NeverTorn, CallInv, CallOK, Goto, Answer, file, temps, Version,
         VersionOf
<1>4. ModeInv'
  BY DEF Read, IInv, TypeOK, ModeInv, TargetMode, Goto, file, temps
<1>5. OwnerInv'
  BY DEF Read, IInv, TypeOK, OwnerInv, Owned, Creating, Goto, file
<1> QED BY <1>1, <1>2, <1>3, <1>4, <1>5 DEF IInv

\* A patch makes a version of its own of the one it read.
LEMMA ApplyKeeps ==
    ASSUME IInv, NEW c \in Client, Apply(c)
    PROVE  IInv'
<1>1. TypeOK'
  <2>1. pc[c] = "apply" /\ seen[c] \in Whole
    BY DEF Apply, Goto, IInv, CallInv, CallOK
  <2>2. [seen[c] EXCEPT !.edits = @ \cup {c}] \in Version
    BY <2>1 DEF Whole, Version
  <2>3. pc' \in [Client -> Steps] /\ outcome' \in [Client -> Outcomes]
    BY DEF Apply, Goto, Answer, IInv, TypeOK
  <2>4. new' \in [Client -> Version]
    BY <2>2 DEF Apply, IInv, TypeOK
  <2> QED BY <2>3, <2>4 DEF Apply, IInv, TypeOK, file, temps
<1>2. NeverTorn'
  BY DEF Apply, IInv, TypeOK, NeverTorn, Goto, file, Whole
<1>3. CallInv'
  BY DEF Apply, IInv, TypeOK, CallInv, CallOK, Goto, Answer, file, temps,
         VersionOf, Whole
<1>4. ModeInv'
  BY DEF Apply, IInv, TypeOK, ModeInv, TargetMode, Goto, file, temps, Whole
<1>5. OwnerInv'
  <2>1. CASE UNCHANGED new
    BY <2>1 DEF Apply, IInv, TypeOK, CallInv, CallOK, OwnerInv, Owned, Creating, Goto, file
  <2>2. CASE new' = [new EXCEPT ![c] = [seen[c] EXCEPT !.edits = @ \cup {c}]]
    <3>1. seen[c] \in Whole /\ kind[c] # "create"
      BY DEF Apply, IInv, TypeOK, CallInv, CallOK, Goto
    <3>2. new'[c].base = seen[c].base /\ \A d \in Client \ {c} : new'[d] = new[d]
      BY <2>2, <3>1 DEF IInv, TypeOK, Whole
    <3>3. \A d \in Client : Creating(d)' => Creating(d)
      BY <3>1 DEF Apply, IInv, TypeOK, Creating, Goto
    <3>4. seen[c] # Absent
      BY <3>1, ValuesDiffer
    <3>5. UNCHANGED <<content, seen>>
      BY DEF Apply, file
    <3> QED BY <3>2, <3>3, <3>4, <3>5 DEF IInv, OwnerInv, Owned
  <2> QED BY <2>1, <2>2 DEF Apply
<1> QED BY <1>1, <1>2, <1>3, <1>4, <1>5 DEF IInv

\* Nothing of a temporary file shows.
LEMMA MkstempKeeps ==
    ASSUME IInv, NEW c \in Client, Mkstemp(c)
    PROVE  IInv'
<1>1. TypeOK'
  BY DEF Mkstemp, IInv, TypeOK, CallInv, CallOK, Goto, Answer, file, temps, Version, VersionOf
<1>2. NeverTorn'
  BY DEF Mkstemp, IInv, TypeOK, NeverTorn, Goto, file
<1>3. CallInv'
  BY DEF Mkstemp, IInv, TypeOK, CallInv, CallOK, Goto, Answer, file, temps, VersionOf
<1>4. ModeInv'
  BY DEF Mkstemp, IInv, TypeOK, ModeInv, TargetMode, Goto, file, temps
<1>5. OwnerInv'
  BY DEF Mkstemp, IInv, TypeOK, OwnerInv, Owned, Creating, Goto, file
<1> QED BY <1>1, <1>2, <1>3, <1>4, <1>5 DEF IInv

\* The temporary file is filled before it is named after the file.
LEMMA FillKeeps ==
    ASSUME IInv, NEW c \in Client, Fill(c)
    PROVE  IInv'
<1>1. TypeOK'
  BY DEF Fill, IInv, TypeOK, CallInv, CallOK, Goto, Answer, file, temps, Version, VersionOf
<1>2. NeverTorn'
  BY DEF Fill, IInv, TypeOK, NeverTorn, Goto, file
<1>3. CallInv'
  BY DEF Fill, IInv, TypeOK, CallInv, CallOK, Goto, Answer, file, temps, VersionOf
<1>4. ModeInv'
  BY DEF Fill, IInv, TypeOK, ModeInv, TargetMode, Goto, file, temps
<1>5. OwnerInv'
  BY DEF Fill, IInv, TypeOK, OwnerInv, Owned, Creating, Goto, file
<1> QED BY <1>1, <1>2, <1>3, <1>4, <1>5 DEF IInv

\* The permissions are those of the file, or of a new one.
LEMMA ChmodKeeps ==
    ASSUME IInv, NEW c \in Client, Chmod(c)
    PROVE  IInv'
<1>1. TypeOK'
  BY DEF Chmod, IInv, TypeOK, TargetMode, Goto, file
<1>2. NeverTorn'
  BY DEF Chmod, IInv, TypeOK, NeverTorn, Goto, file
<1>3. CallInv'
  BY DEF Chmod, IInv, TypeOK, CallInv, CallOK, Goto, Answer, file, temps, VersionOf
<1>4. ModeInv'
  BY DEF Chmod, IInv, TypeOK, ModeInv, TargetMode, Goto, file, temps
<1>5. OwnerInv'
  BY DEF Chmod, IInv, TypeOK, OwnerInv, Owned, Creating, Goto, file
<1> QED BY <1>1, <1>2, <1>3, <1>4, <1>5 DEF IInv

\* The file is replaced by a whole version.
LEMMA ReplaceKeeps ==
    ASSUME IInv, NEW c \in Client, Replace(c)
    PROVE  IInv'
<1>1. /\ content' = new[c] /\ new[c] \in VersionOf(c) /\ new[c] \in Whole
      /\ new[c] \notin {Absent, Torn}
  BY ValuesDiffer DEF Replace, IInv, TypeOK, CallInv, CallOK, Goto, VersionOf
<1>2. TypeOK'
  BY <1>1 DEF Replace, IInv, TypeOK, Goto, Version
<1>3. NeverTorn'
  BY <1>1 DEF Replace, IInv, TypeOK, NeverTorn
<1>4. CallInv'
  BY DEF Replace, IInv, TypeOK, CallInv, CallOK, Goto, VersionOf
<1>5. ModeInv'
  <2>1. TargetMode' = mode' /\ mode' = TargetMode
    BY <1>1 DEF Replace, IInv, ModeInv, TargetMode, Goto
  <2> QED BY <2>1 DEF Replace, IInv, TypeOK, ModeInv, Goto
<1>6. OwnerInv'
  <2>1. \A d \in Client : Creating(d)' => Creating(d)
    BY DEF Replace, IInv, TypeOK, Creating, Goto
  <2>2. UNCHANGED <<seen, new>>
    BY DEF Replace
  <2> QED BY <1>1, <2>1, <2>2 DEF IInv, OwnerInv
<1> QED BY <1>2, <1>3, <1>4, <1>5, <1>6 DEF IInv

\* Success is answered for what has landed.
LEMMA ReplyKeeps ==
    ASSUME IInv, NEW c \in Client, Reply(c)
    PROVE  IInv'
<1>1. TypeOK'
  BY DEF Reply, IInv, TypeOK, CallInv, CallOK, Goto, Answer, file, temps, Version, VersionOf
<1>2. NeverTorn'
  BY DEF Reply, IInv, TypeOK, NeverTorn, Goto, file
<1>3. CallInv'
  BY DEF Reply, IInv, TypeOK, CallInv, CallOK, Goto, Answer, file, temps, VersionOf
<1>4. ModeInv'
  BY DEF Reply, IInv, TypeOK, ModeInv, TargetMode, Goto, file, temps
<1>5. OwnerInv'
  BY DEF Reply, IInv, TypeOK, OwnerInv, Owned, Creating, Goto, file
<1> QED BY <1>1, <1>2, <1>3, <1>4, <1>5 DEF IInv

\* A failure removes the temporary file and is reported.
LEMMA WriteFailsKeeps ==
    ASSUME IInv, NEW c \in Client, WriteFails(c)
    PROVE  IInv'
<1>1. TypeOK'
  BY DEF WriteFails, IInv, TypeOK, CallInv, CallOK, Goto, Answer, file, temps,
         Version, VersionOf, Unlink, ReportError
<1>2. NeverTorn'
  BY DEF WriteFails, IInv, TypeOK, NeverTorn, Goto, file, Unlink, ReportError
<1>3. CallInv'
  BY DEF WriteFails, IInv, TypeOK, CallInv, CallOK, Goto, Answer, file, temps,
         VersionOf, Unlink, ReportError
<1>4. ModeInv'
  BY DEF WriteFails, IInv, TypeOK, ModeInv, TargetMode, Goto, file, temps, Unlink, ReportError
<1>5. OwnerInv'
  BY DEF WriteFails, IInv, TypeOK, OwnerInv, Owned, Creating, Goto, file, Unlink, ReportError
<1> QED BY <1>1, <1>2, <1>3, <1>4, <1>5 DEF IInv

\* A crash stops the calls where they are.
LEMMA CrashKeeps ==
    ASSUME IInv, Crash
    PROVE  IInv'
<1>1. /\ \A c \in Client : pc'[c] = IF pc[c] \in {"idle", "over"} THEN pc[c] ELSE "killed"
      /\ \A c \in Client : pc[c] \in {"idle", "over"} => temp'[c] = temp[c]
  BY DEF Crash
<1>2. TypeOK'
  BY DEF Crash, IInv, TypeOK, file
<1>3. NeverTorn'
  BY DEF Crash, IInv, NeverTorn, file
<1>4. CallInv'
  BY <1>1 DEF Crash, IInv, TypeOK, CallInv, CallOK, file, VersionOf
<1>5. ModeInv'
  BY <1>1 DEF Crash, ModeInv
<1>6. OwnerInv'
  BY <1>1 DEF Crash, IInv, TypeOK, OwnerInv, Owned, Creating, file
<1> QED BY <1>2, <1>3, <1>4, <1>5, <1>6 DEF IInv

LEMMA Inductive == IInv /\ [Next]_vars => IInv'
<1> SUFFICES ASSUME IInv, [Next]_vars PROVE IInv'
  OBVIOUS
<1>1. ASSUME NEW c \in Client,
             CreateCheck(c) \/ WriteStart(c) \/ Read(c) \/ Apply(c)
      PROVE  IInv'
  BY <1>1, CreateCheckKeeps, WriteStartKeeps, ReadKeeps, ApplyKeeps
<1>2. ASSUME NEW c \in Client,
             Mkstemp(c) \/ Fill(c) \/ Chmod(c) \/ Replace(c)
      PROVE  IInv'
  BY <1>2, MkstempKeeps, FillKeeps, ChmodKeeps, ReplaceKeeps
<1>3. ASSUME NEW c \in Client, Reply(c) \/ WriteFails(c)
      PROVE  IInv'
  BY <1>3, ReplyKeeps, WriteFailsKeeps
<1>4. CASE Crash
  BY <1>4, CrashKeeps
<1>5. CASE UNCHANGED vars
  <2>1. TypeOK' /\ NeverTorn' /\ CallInv'
    BY <1>5 DEF vars, file, temps, IInv, TypeOK, NeverTorn, CallInv, CallOK, VersionOf
  <2>2. ModeInv' /\ OwnerInv'
    BY <1>5 DEF vars, file, temps, IInv, ModeInv, TargetMode, OwnerInv, Owned, Creating
  <2> QED BY <2>1, <2>2 DEF IInv
<1> QED BY <1>1, <1>2, <1>3, <1>4, <1>5 DEF Next

----------------------------------------------------------------------------
(* Theorems *)

\* The invariant holds in every state.
THEOREM Invariant == Spec => []IInv
<1> QED BY Initially, Inductive, PTL DEF Spec

\* Every variable keeps the shape the code gives it.
THEOREM TypeCorrect == Spec => []TypeOK
<1>1. IInv => TypeOK
  BY DEF IInv
<1> QED BY <1>1, Invariant, PTL

\* Nobody ever finds half a configuration.
THEOREM NobodySeesHalf == Spec => []NeverTorn
<1>1. IInv => NeverTorn
  BY DEF IInv
<1> QED BY <1>1, Invariant, PTL

\* What a call answers is true of the file.
THEOREM AnswersAreTrue == Spec => []OutcomeIsTrue
<1>1. IInv => OutcomeIsTrue
  BY DEF IInv, TypeOK, CallInv, CallOK, OutcomeIsTrue
<1> QED BY <1>1, Invariant, PTL

\* Only a crash leaves a temporary file.
THEOREM Clean == Spec => []OnlyCrashesLitter
<1>1. IInv => OnlyCrashesLitter
  BY DEF IInv, CallInv, CallOK, OnlyCrashesLitter
<1> QED BY <1>1, Invariant, PTL

\* Only Replace changes the file, its permissions or what has landed.
LEMMA OnlyReplaceTouches ==
    ASSUME Next
    PROVE  (\E c \in Client : Replace(c)) \/ UNCHANGED <<content, mode, landed>>
<1>1. ASSUME NEW c \in Client,
             CreateCheck(c) \/ WriteStart(c) \/ Read(c) \/ Apply(c)
      PROVE  UNCHANGED <<content, mode, landed>>
  BY <1>1 DEF CreateCheck, WriteStart, Read, Apply, file
<1>2. ASSUME NEW c \in Client,
             Mkstemp(c) \/ Fill(c) \/ Chmod(c) \/ Reply(c) \/ WriteFails(c)
      PROVE  UNCHANGED <<content, mode, landed>>
  BY <1>2 DEF Mkstemp, Fill, Chmod, Reply, WriteFails, file
<1>3. CASE Crash
  BY <1>3 DEF Crash, file
<1> QED BY <1>1, <1>2, <1>3 DEF Next

\* Permissions survive any number of replacements.
THEOREM PermissionsKept == Spec => ModeKept
<1>1. IInv /\ [Next]_vars => [content # Absent => mode' = mode]_vars
  <2>1. ASSUME IInv, NEW c \in Client, Replace(c), content # Absent PROVE mode' = mode
    BY <2>1 DEF Replace, Goto, IInv, ModeInv, TargetMode
  <2> QED BY <2>1, OnlyReplaceTouches
<1> QED BY <1>1, Invariant, PTL DEF Spec, ModeKept

\* A creation replaces at most what other calls wrote meanwhile.
THEOREM OwnerSpared == Spec => CreateSparesOwner
<1> DEFINE Spared == \A c \in landed' \ landed :
                       kind[c] = "create" => content = Absent \/ content.base # Original
<1>1. IInv /\ [Next]_vars => [Spared]_vars
  <2>1. ASSUME IInv, NEW c \in Client, Replace(c) PROVE Spared
    <3>1. landed' \ landed \subseteq {c} /\ pc[c] = "replace"
      BY <2>1 DEF Replace, Goto
    <3> QED BY <2>1, <3>1 DEF IInv, OwnerInv, Creating, Owned
  <2>2. ASSUME UNCHANGED landed PROVE Spared
    BY <2>2
  <2> HIDE DEF Spared
  <2> QED BY <2>1, <2>2, OnlyReplaceTouches
<1> QED BY <1>1, Invariant, PTL DEF Spec, CreateSparesOwner

----------------------------------------------------------------------------
(* Refinement *)

LEMMA InitImplements == Init => Atomic!Init
  BY DEF Init, Atomic!Init, FailedCalls, Version, Whole

\* A call that ends without having landed has failed.
LEMMA EndsUnlanded ==
    ASSUME IInv, NEW c \in Client, pc[c] \in {"idle", "apply"} \cup Writing,
           pc' = [pc EXCEPT ![c] = "over"], UNCHANGED <<content, landed>>
    PROVE  Atomic!Fail(c)
<1>1. c \notin landed /\ c \notin FailedCalls
  BY DEF IInv, CallInv, CallOK, FailedCalls
<1>2. FailedCalls' = FailedCalls \cup {c}
  BY <1>1 DEF IInv, TypeOK, FailedCalls
<1> QED BY <1>1, <1>2 DEF Atomic!Fail

\* A call that goes on changes nothing of what is promised.
LEMMA GoesOn ==
    ASSUME IInv, NEW c \in Client, NEW to \in Steps, pc[c] # "over",
           to # "over" \/ c \in landed,
           pc' = [pc EXCEPT ![c] = to], UNCHANGED <<content, landed>>
    PROVE  UNCHANGED <<content, landed, FailedCalls>>
  BY DEF IInv, TypeOK, FailedCalls

LEMMA NextImplements == IInv /\ IInv' /\ [Next]_vars => [Atomic!Next]_(Atomic!vars)
<1> SUFFICES ASSUME IInv, IInv', [Next]_vars PROVE [Atomic!Next]_(Atomic!vars)
  OBVIOUS
<1>1. ASSUME NEW c \in Client, CreateCheck(c) \/ WriteStart(c) \/ Read(c) \/ Apply(c)
      PROVE  Atomic!Fail(c) \/ UNCHANGED <<content, landed, FailedCalls>>
  <2>1. PICK to \in Steps :
          /\ pc' = [pc EXCEPT ![c] = to]
          /\ pc[c] \in {"idle", "apply"} /\ UNCHANGED <<content, landed>>
    BY <1>1 DEF CreateCheck, WriteStart, Read, Apply, Goto, file
  <2> QED BY <2>1, EndsUnlanded, GoesOn
<1>2. ASSUME NEW c \in Client, Mkstemp(c) \/ Fill(c) \/ Chmod(c) \/ WriteFails(c)
      PROVE  Atomic!Fail(c) \/ UNCHANGED <<content, landed, FailedCalls>>
  <2>1. PICK to \in Steps :
          /\ pc' = [pc EXCEPT ![c] = to]
          /\ pc[c] \in Writing /\ UNCHANGED <<content, landed>>
    BY <1>2 DEF Mkstemp, Fill, Chmod, WriteFails, Goto, file
  <2> QED BY <2>1, EndsUnlanded, GoesOn
<1>3. ASSUME NEW c \in Client, Replace(c) PROVE Atomic!Land(c)
  <2>1. c \notin landed /\ c \notin FailedCalls /\ content' \in VersionOf(c)
    BY <1>3, ValuesDiffer
    DEF Replace, Goto, IInv, TypeOK, CallInv, CallOK, FailedCalls, VersionOf
  <2>2. FailedCalls' = FailedCalls /\ landed' = landed \cup {c}
    BY <1>3, <2>1 DEF Replace, Goto, IInv, TypeOK, FailedCalls
  <2> QED BY <2>1, <2>2 DEF Atomic!Land
<1>4. ASSUME NEW c \in Client, Reply(c) PROVE UNCHANGED <<content, landed, FailedCalls>>
  <2>1. c \in landed
    BY <1>4 DEF Reply, Goto, IInv, CallInv, CallOK
  <2> QED BY <1>4, <2>1, GoesOn DEF Reply, Goto, file
<1>5. CASE Crash
  <2>1. FailedCalls' = FailedCalls
    BY <1>5 DEF Crash, FailedCalls
  <2> QED BY <1>5, <2>1 DEF Crash, file, Atomic!vars
<1>6. CASE UNCHANGED vars
  BY <1>6 DEF vars, file, FailedCalls, Atomic!vars
<1> QED BY <1>1, <1>2, <1>3, <1>4, <1>5, <1>6 DEF Next, Atomic!Next, Atomic!vars

\* The tools keep every promise of AtomicFile.
THEOREM Refinement == Spec => ImplementsAtomicFile
<1> QED BY InitImplements, NextImplements, Invariant, PTL
        DEF Spec, ImplementsAtomicFile, Atomic!Spec
============================================================================
