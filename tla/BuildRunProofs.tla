--------------------------- MODULE BuildRunProofs ---------------------------
(***************************************************************************)
(* Theorems about one build command, for every line limit, against every   *)
(* behaviour of the dashboard: no work is requested twice, only a compiled *)
(* firmware is flashed, success is what the dashboard itself reported, and *)
(* the lines returned are those that were shown while it ran.              *)
(***************************************************************************)
EXTENDS BuildRun, Recursion

Requests == Len(started)

\* The compile of this run succeeded, on a Device Builder.
CompileDone ==
    /\ method = "run" /\ backend = "builder"
    /\ started[1] = "compile" /\ reported[1] = "ok"

\* The first operation of the command, or the upload after the compile.
FirstHalf == op = FirstOp(method)
Upload    == op = "upload" /\ CompileDone

\* What the dashboard has been asked for in each phase, and what the exit code
\* of the result that is being filled says of it.
ConnectInv ==
    pc = "connect" =>
        /\ outcome # "returned" /\ exit_code = "none"
        /\ (Requests = 0 /\ FirstHalf) \/ (Requests = 1 /\ Upload)
StreamInv ==
    pc \in {"submit", "follow"} =>
        /\ backend = "builder"
        /\ \/ Requests = 1 /\ FirstHalf /\ started[1] = op
           \/ Requests = 2 /\ Upload /\ started[2] = op
        /\ exit_code = reported[Requests]
        /\ pc = "submit" => outcome # "returned"
        /\ outcome = "returned" /\ exit_code = "ok" => ~(method = "run" /\ op = "compile")
FallbackInv ==
    pc = "legacy_connect" =>
        /\ outcome # "returned" /\ exit_code = "none"
        /\ Requests = 0 \/ (Requests = 1 /\ CompileDone)
LegacyInv ==
    pc = "legacy" =>
        /\ Requests = 1 /\ started[1] = method
        /\ exit_code = reported[1]

IInv == TypeOK /\ ConnectInv /\ StreamInv /\ FallbackInv /\ LegacyInv

----------------------------------------------------------------------------
(* The inductive invariant *)

Ops == {"compile", "upload", "clean", "validate"}

LEMMA FirstOpType == method \in Method => FirstOp(method) \in Ops
BY MethodKnown DEF FirstOp, Ops

LEMMA Initially == Init => IInv
<1> SUFFICES ASSUME Init PROVE IInv
  OBVIOUS
<1>1. TypeOK
  <2>1. op \in Ops
    BY FirstOpType DEF Init
  <2>2. NoPrior \in [lines : Seq(Lines), truncated : BOOLEAN]
    BY DEF NoPrior
  <2>3. /\ streamed \in Seq(Lines) /\ lines \in Seq(Lines)
        /\ started \in Seq({"compile", "upload", "clean", "run", "validate"})
        /\ reported \in Seq(Exits)
        /\ Len(reported) = Len(started)
    BY DEF Init
  <2> QED BY <2>1, <2>2, <2>3 DEF Init, TypeOK, Ops, Phases, Exits, Outcomes
<1>2. ConnectInv /\ StreamInv /\ FallbackInv /\ LegacyInv
  BY DEF Init, ConnectInv, StreamInv, FallbackInv, LegacyInv, Requests, FirstHalf
<1> QED BY <1>1, <1>2 DEF IInv

\* What a request adds to the dashboard's record.
LEMMA Requested ==
    ASSUME TypeOK, NEW o \in Ops \cup {"run"}, Request(o)
    PROVE  /\ started' \in Seq({"compile", "upload", "clean", "run", "validate"})
           /\ reported' \in Seq(Exits)
           /\ Len(reported') = Len(started')
           /\ Requests' = Requests + 1 /\ Requests \in Nat
           /\ started'[Requests'] = o /\ reported'[Requests'] = "none"
           /\ \A i \in 1 .. Requests : started'[i] = started[i] /\ reported'[i] = reported[i]
BY DEF TypeOK, Request, Requests, Ops, Exits

\* A call that ends, or lets time pass, keeps every phase's invariant.
LEMMA QuietKeeps ==
    ASSUME IInv, outcome' \in {outcome, "error", "crashed"}, late' \in BOOLEAN,
           UNCHANGED <<backend, method, pc, op, result, prior, streamed, started, reported>>
    PROVE  IInv'
<1>1. TypeOK'
  BY DEF IInv, TypeOK, result, Outcomes
<1>2. ConnectInv' /\ FallbackInv' /\ LegacyInv'
  BY DEF IInv, result, ConnectInv, FallbackInv, LegacyInv, Requests, FirstHalf, Upload, CompileDone
<1>3. StreamInv'
  BY DEF IInv, result, StreamInv, Requests, FirstHalf, Upload, CompileDone
<1> QED BY <1>1, <1>2, <1>3 DEF IInv

LEMMA RaiseKeeps ==
    ASSUME IInv, NEW o \in {"error", "crashed"}, Raise(o)
    PROVE  IInv'
BY QuietKeeps DEF Raise, End, IInv, TypeOK

LEMMA WsConnectKeeps ==
    ASSUME IInv, WsConnect
    PROVE  IInv'
<1>1. op \in Ops
  BY DEF IInv, TypeOK, Ops
<1>2. /\ started' \in Seq({"compile", "upload", "clean", "run", "validate"})
      /\ reported' \in Seq(Exits)
      /\ Len(reported') = Len(started')
      /\ Requests' = Requests + 1 /\ Requests \in Nat
      /\ started'[Requests'] = op /\ reported'[Requests'] = "none"
      /\ \A i \in 1 .. Requests : started'[i] = started[i] /\ reported'[i] = reported[i]
  BY <1>1, Requested DEF WsConnect, IInv
<1>3. TypeOK'
  BY <1>2 DEF WsConnect, IInv, TypeOK, result, Phases
<1>4. pc' \in {"submit", "follow"} /\ backend = "builder"
  BY DEF WsConnect
<1>5. StreamInv'
  <2>1. CASE Requests = 0 /\ FirstHalf
    BY <1>2, <1>4, <2>1 DEF WsConnect, IInv, ConnectInv, StreamInv, FirstHalf, result
  <2>2. CASE Requests = 1 /\ Upload
    BY <1>2, <1>4, <2>2 DEF WsConnect, IInv, ConnectInv, StreamInv, Upload, CompileDone, result
  <2> QED BY <2>1, <2>2 DEF WsConnect, IInv, ConnectInv
<1> QED BY <1>3, <1>4, <1>5 DEF IInv, ConnectInv, FallbackInv, LegacyInv

LEMMA WsRefusedKeeps ==
    ASSUME IInv, WsRefused
    PROVE  IInv'
<1>1. TypeOK'
  <2>1. NoPrior \in [lines : Seq(Lines), truncated : BOOLEAN] /\ <<>> \in Seq(Lines)
    BY DEF NoPrior
  <2> QED BY <2>1 DEF WsRefused, NewResult, IInv, TypeOK, Phases, Exits
<1>2. FallbackInv'
  BY DEF WsRefused, NewResult, IInv, ConnectInv, FallbackInv, Requests, Upload, CompileDone
<1>3. pc' = "legacy_connect"
  BY DEF WsRefused
<1> QED BY <1>1, <1>2, <1>3 DEF IInv, ConnectInv, StreamInv, LegacyInv

LEMMA SubmitAckKeeps ==
    ASSUME IInv, SubmitAck
    PROVE  IInv'
<1>1. TypeOK'
  BY DEF SubmitAck, Pumping, result, IInv, TypeOK, Phases
<1>2. StreamInv'
  BY DEF SubmitAck, Pumping, result, IInv, StreamInv, Requests, FirstHalf, Upload, CompileDone
<1>3. pc' = "follow"
  BY DEF SubmitAck
<1> QED BY <1>1, <1>2, <1>3 DEF IInv, ConnectInv, FallbackInv, LegacyInv

\* The end of an operation with its own exit code: the call is over, or its
\* upload is next.
LEMMA OperationDoneKeeps ==
    ASSUME IInv, pc = "follow", outcome = "pending",
           NEW ls \in Seq(Lines), NEW t \in BOOLEAN,
           OperationDone(ls, exit_code, t),
           streamed' \in Seq(Lines),
           UNCHANGED <<backend, method, started, reported>>
    PROVE  IInv'
<1>1. CASE /\ method = "run" /\ op = "compile" /\ exit_code = "ok"
           /\ op' = "upload" /\ pc' = "connect" /\ late' = FALSE
           /\ prior' = [lines |-> ls, truncated |-> t]
           /\ NewResult /\ outcome' = outcome
  <2>1. TypeOK'
    <3>1. <<>> \in Seq(Lines) /\ [lines |-> ls, truncated |-> t] \in [lines : Seq(Lines), truncated : BOOLEAN]
      OBVIOUS
    <3> QED BY <1>1, <3>1 DEF IInv, TypeOK, NewResult, Phases, Exits
  <2>2. Requests = 1 /\ CompileDone
    BY <1>1 DEF IInv, StreamInv, FirstHalf, Upload, CompileDone, FirstOp
  <2>3. ConnectInv'
    BY <1>1, <2>2 DEF ConnectInv, NewResult, Requests, Upload, CompileDone
  <2> QED BY <1>1, <2>1, <2>3 DEF IInv, StreamInv, FallbackInv, LegacyInv
<1>2. CASE /\ ~(method = "run" /\ op = "compile" /\ exit_code = "ok")
           /\ lines' = ls /\ exit_code' = exit_code /\ truncated' = t
           /\ outcome' = "returned"
           /\ UNCHANGED <<op, pc, late, prior>>
  <2>1. TypeOK'
    BY <1>2 DEF IInv, TypeOK, Outcomes
  <2>2. StreamInv'
    BY <1>2 DEF IInv, StreamInv, Requests, FirstHalf, Upload, CompileDone
  <2> QED BY <1>2, <2>1, <2>2 DEF IInv, ConnectInv, FallbackInv, LegacyInv
<1> QED BY <1>1, <1>2 DEF OperationDone, Success, Compiled, End

LEMMA LineType == TypeOK => Line \in Lines /\ [Line EXCEPT !.text = FALSE] \in Lines
<1> SUFFICES ASSUME TypeOK PROVE Line \in Lines /\ [Line EXCEPT !.text = FALSE] \in Lines
  OBVIOUS
<1>1. Len(started) \in Nat
  BY DEF TypeOK
<1>2. Line \in Lines
  BY <1>1 DEF Line, Lines
<1>3. ASSUME NEW l \in Lines PROVE [l EXCEPT !.text = FALSE] \in Lines
  BY DEF Lines
<1> QED BY <1>2, <1>3

LEMMA OutputKeeps ==
    ASSUME IInv, Output
    PROVE  IInv'
<1>1. /\ pc = "follow" /\ outcome = "pending"
      /\ streamed' \in Seq(Lines) /\ Append(lines, Line) \in Seq(Lines)
      /\ UNCHANGED <<backend, method, started, reported>>
  BY LineType DEF Output, Pumping, IInv, TypeOK
<1>2. CASE OperationDone(Append(lines, Line), exit_code, TRUE)
  BY <1>1, <1>2, OperationDoneKeeps
<1>3. CASE /\ lines' = Append(lines, Line)
           /\ UNCHANGED <<pc, op, late, exit_code, truncated, prior, outcome>>
  <2>1. TypeOK'
    BY <1>1, <1>3 DEF IInv, TypeOK
  <2>2. StreamInv'
    BY <1>1, <1>3 DEF IInv, StreamInv, Requests, FirstHalf, Upload, CompileDone
  <2> QED BY <1>1, <1>3, <2>1, <2>2 DEF IInv, ConnectInv, FallbackInv, LegacyInv
<1> QED BY <1>2, <1>3 DEF Output

LEMMA ResultEventKeeps ==
    ASSUME IInv, NEW code \in Exits, ResultEvent(code)
    PROVE  IInv'
<1>1. /\ pc = "follow" /\ outcome = "pending"
      /\ exit_code' = code
      /\ reported' = [reported EXCEPT ![Len(reported)] = code]
      /\ UNCHANGED <<backend, method, pc, op, late, lines, truncated, prior, outcome, streamed, started>>
  BY DEF ResultEvent, Pumping
<1>2. /\ reported \in Seq(Exits) /\ Requests = Len(reported) /\ Requests \in {1, 2}
  BY <1>1 DEF IInv, TypeOK, StreamInv, Requests
<1>3. /\ reported' \in Seq(Exits) /\ Len(reported') = Requests /\ Requests' = Requests
      /\ reported'[Requests] = code
      /\ \A i \in 1 .. Requests : i # Requests => reported'[i] = reported[i]
  BY <1>1, <1>2 DEF Requests
<1>4. TypeOK'
  BY <1>1, <1>2, <1>3 DEF IInv, TypeOK, Requests
<1>5. StreamInv'
  <2>1. CASE Requests = 1 /\ FirstHalf /\ started[1] = op
    BY <1>1, <1>3, <2>1 DEF IInv, StreamInv, FirstHalf
  <2>2. CASE Requests = 2 /\ Upload /\ started[2] = op
    BY <1>1, <1>3, <2>2 DEF IInv, StreamInv, Upload, CompileDone
  <2> QED BY <1>1, <2>1, <2>2 DEF IInv, StreamInv
<1> QED BY <1>1, <1>4, <1>5 DEF IInv, ConnectInv, FallbackInv, LegacyInv

LEMMA FollowOverKeeps ==
    ASSUME IInv, FollowEnds \/ FollowLate
    PROVE  IInv'
<1>1. /\ pc = "follow" /\ outcome = "pending"
      /\ lines \in Seq(Lines) /\ truncated \in BOOLEAN /\ streamed' \in Seq(Lines)
      /\ UNCHANGED <<backend, method, started, reported>>
  BY DEF FollowEnds, FollowLate, Pumping, IInv, TypeOK
<1>2. CASE FollowEnds
  BY <1>1, <1>2, OperationDoneKeeps DEF FollowEnds
<1>3. CASE FollowLate
  BY <1>1, <1>3, OperationDoneKeeps DEF FollowLate
<1> QED BY <1>2, <1>3

LEMMA LegacyConnectKeeps ==
    ASSUME IInv, LegacyConnect
    PROVE  IInv'
<1>1. method \in Ops \cup {"run"} /\ Request(method) /\ pc' = "legacy"
  BY MethodKnown DEF LegacyConnect, IInv, TypeOK, Ops
<1>2. /\ started' \in Seq({"compile", "upload", "clean", "run", "validate"})
      /\ reported' \in Seq(Exits)
      /\ Len(reported') = Len(started')
      /\ Requests' = Requests + 1
      /\ started'[Requests'] = method /\ reported'[Requests'] = "none"
  BY <1>1, Requested DEF IInv
<1>3. TypeOK'
  BY <1>1, <1>2 DEF LegacyConnect, IInv, TypeOK, result, Phases
<1>4. Requests = 0
  BY DEF LegacyConnect, BuilderMissing, IInv, FallbackInv, CompileDone
<1>5. LegacyInv'
  BY <1>2, <1>4 DEF LegacyConnect, LegacyInv, IInv, FallbackInv, result
<1> QED BY <1>1, <1>3, <1>5 DEF IInv, ConnectInv, StreamInv, FallbackInv

\* The legacy stream: lines that count, lines that are no JSON, its end.
LEMMA LegacyReads ==
    ASSUME IInv, LegacyLine \/ LegacyJunk
    PROVE  IInv'
<1>1. /\ pc = "legacy" /\ pc' = pc
      /\ lines' \in Seq(Lines) /\ streamed' \in Seq(Lines) /\ truncated' \in BOOLEAN
      /\ outcome' \in Outcomes
      /\ UNCHANGED <<backend, method, op, late, exit_code, prior, started, reported>>
  <2>1. /\ Line \in Lines /\ [Line EXCEPT !.text = FALSE] \in Lines
        /\ lines \in Seq(Lines) /\ streamed \in Seq(Lines)
        /\ truncated \in BOOLEAN /\ outcome \in Outcomes
    BY LineType DEF IInv, TypeOK
  <2>2. CASE LegacyLine
    <3>1. lines' \in Seq(Lines) /\ streamed' \in Seq(Lines)
      BY <2>1, <2>2 DEF LegacyLine
    <3>2. \/ truncated' = TRUE /\ outcome' = "returned"
          \/ UNCHANGED <<truncated, outcome>>
      BY <2>2, Zenon DEF LegacyLine, End
    <3>3. truncated' \in BOOLEAN /\ outcome' \in Outcomes
      BY <2>1, <3>2 DEF Outcomes
    <3>4. /\ pc = "legacy" /\ pc' = pc
          /\ UNCHANGED <<backend, method, op, late, exit_code, prior, started, reported>>
      BY <2>2, Zenon DEF LegacyLine, Pumping
    <3> QED BY <3>1, <3>3, <3>4
  <2>3. CASE LegacyJunk
    BY <2>1, <2>3 DEF LegacyJunk, Pumping
  <2> QED BY <2>2, <2>3
<1>2. TypeOK' /\ LegacyInv'
  BY <1>1 DEF IInv, TypeOK, LegacyInv, Requests
<1> QED BY <1>1, <1>2 DEF IInv, ConnectInv, StreamInv, FallbackInv

LEMMA LegacyEnds ==
    ASSUME IInv, LegacyClose \/ LegacyLate \/ \E code \in Exits : LegacyExit(code)
    PROVE  IInv'
<1>0. Unheard \in Outcomes
  BY DEF Unheard, Outcomes
<1>1. CASE LegacyClose \/ LegacyLate
  <2>1. /\ pc = "legacy" /\ pc' = pc
        /\ truncated' \in BOOLEAN /\ outcome' \in Outcomes
        /\ UNCHANGED <<backend, method, op, late, lines, exit_code, prior, streamed, started, reported>>
    BY <1>0, <1>1 DEF LegacyClose, LegacyLate, Pumping, End, result, IInv, TypeOK, Outcomes
  <2>2. TypeOK' /\ LegacyInv'
    BY <2>1 DEF IInv, TypeOK, LegacyInv, Requests
  <2> QED BY <2>1, <2>2 DEF IInv, ConnectInv, StreamInv, FallbackInv
<1>2. ASSUME NEW code \in Exits, LegacyExit(code) PROVE IInv'
  <2>1. /\ pc = "legacy" /\ pc' = pc
        /\ exit_code' = code /\ outcome' \in Outcomes
        /\ reported' = [reported EXCEPT ![Len(reported)] = code]
        /\ UNCHANGED <<backend, method, op, late, lines, truncated, prior, streamed, started>>
    BY <1>0, <1>2 DEF LegacyExit, Pumping, End, Outcomes
  <2>2. reported \in Seq(Exits) /\ Len(reported) = 1
    BY <2>1 DEF IInv, TypeOK, LegacyInv, Requests
  <2>3. reported' \in Seq(Exits) /\ Len(reported') = 1 /\ reported'[1] = code
    BY <2>1, <2>2
  <2>4. TypeOK' /\ LegacyInv'
    BY <2>1, <2>2, <2>3 DEF IInv, TypeOK, LegacyInv, Requests
  <2> QED BY <2>1, <2>4 DEF IInv, ConnectInv, StreamInv, FallbackInv
<1> QED BY <1>1, <1>2

LEMMA Inductive == IInv /\ [Next]_vars => IInv'
<1>1. ASSUME IInv, UNCHANGED vars PROVE IInv'
  <2>1. late' \in BOOLEAN
    BY <1>1 DEF vars, IInv, TypeOK
  <2> QED BY <1>1, <2>1, QuietKeeps DEF vars
<1>2. ASSUME IInv, WsFails \/ SubmitFails \/ Malformed \/ FollowError \/ LegacyFails PROVE IInv'
  BY <1>2, RaiseKeeps DEF WsFails, SubmitFails, Malformed, FollowError, LegacyFails
<1>3. ASSUME IInv, DeadlinePasses PROVE IInv'
  BY <1>3, QuietKeeps DEF DeadlinePasses
<1> QED
  BY <1>1, <1>2, <1>3, WsConnectKeeps, WsRefusedKeeps, SubmitAckKeeps, OutputKeeps,
     ResultEventKeeps, FollowOverKeeps, LegacyConnectKeeps, LegacyReads, LegacyEnds DEF Next

----------------------------------------------------------------------------
(* What was shown *)

\* The lines with text among the first i, from the recursion.
LEMMA TextUptoIs ==
    ASSUME NEW ls \in Seq(Lines), NEW t, t = TextUpto(ls)
    PROVE  /\ t[0] = <<>>
           /\ \A i \in 1..Len(ls) :
                 t[i] = IF ls[i].text THEN Append(t[i - 1], ls[i]) ELSE t[i - 1]
<1> DEFINE n == Len(ls)
           V == Seq(Lines)
           Put(i, v) == IF ls[i].text THEN Append(v, ls[i]) ELSE v
           step == [i \in 1..n |-> [v \in V |-> Put(i, v)]]
           Eq(f) == f = [i \in 0..n |-> IF i = 0 THEN <<>> ELSE Put(i, f[i - 1])]
<1>1. n \in Nat /\ <<>> \in V /\ \A i \in 1..n, v \in V : Put(i, v) \in V
  OBVIOUS
<1>2. t = CHOOSE g : Eq(g)
  <2>1. \A f : Eq(f) <=> f = [i \in 0..Len(ls) |->
                                 IF i = 0 THEN <<>>
                                 ELSE IF ls[i].text THEN Append(f[i - 1], ls[i])
                                 ELSE f[i - 1]]
    OBVIOUS
  <2> QED BY <2>1 DEF TextUpto
<1> HIDE DEF Put, n, V
<1>3. step \in Steps(n, V)
  BY <1>1 DEF Steps
<1>4. PICK f \in [0..n -> V] : Runs(f, n, <<>>, step)
  <2> HIDE DEF step
  <2> QED BY <1>1, <1>3, RecursionHolds
<1>5. \A i \in 1..n : f[i] = Put(i, f[i - 1])
  <2> SUFFICES ASSUME NEW i \in 1..n
               PROVE  f[i] = Put(i, f[i - 1])
    OBVIOUS
  <2>1. i - 1 \in 0..n
    BY <1>1
  <2>2. f[i - 1] \in V
    BY <2>1
  <2> QED BY <1>4, <2>2 DEF Runs
<1>6. Eq(f)
  BY <1>1, <1>4, <1>5 DEF Runs
<1>7. Eq(t)
  <2> HIDE DEF Eq
  <2> QED BY <1>2, <1>6
<1>8. t[0] = <<>> /\ \A i \in 1..n : t[i] = Put(i, t[i - 1])
  <2>1. 0 \in 0..n /\ \A i \in 1..n : i \in 0..n /\ i # 0
    BY <1>1
  <2> QED BY <1>7, <2>1, Zenon
<1> QED BY <1>8 DEF Put, n

LEMMA TextOfNone == TextLines(<<>>) = <<>>
<1>1. <<>> \in Seq(Lines) /\ Len(<<>>) = 0
  OBVIOUS
<1>2. TextUpto(<<>>)[0] = <<>>
  BY <1>1, TextUptoIs
<1> QED BY <1>1, <1>2 DEF TextLines

\* One line more is kept if it has text.
LEMMA TextGrows ==
    ASSUME NEW ls \in Seq(Lines), NEW l \in Lines
    PROVE  TextLines(Append(ls, l)) =
              IF l.text THEN Append(TextLines(ls), l) ELSE TextLines(ls)
<1> DEFINE all == Append(ls, l)
           N == Len(ls)
           t == TextUpto(ls)
           u == TextUpto(all)
           With(w, i, k) == IF k.text THEN Append(w[i - 1], k) ELSE w[i - 1]
<1>1. /\ all \in Seq(Lines) /\ Len(all) = N + 1 /\ N \in Nat
      /\ all[N + 1] = l /\ \A k \in 1..N : all[k] = ls[k]
  OBVIOUS
<1> HIDE DEF all
<1>2. t[0] = <<>> /\ \A i \in 1..N : t[i] = With(t, i, ls[i])
  BY TextUptoIs
<1>3. u[0] = <<>> /\ \A i \in 1..(N + 1) : u[i] = With(u, i, all[i])
  BY <1>1, TextUptoIs
<1>4. TextLines(ls) = t[N] /\ TextLines(all) = u[N + 1]
  BY <1>1 DEF TextLines
<1> HIDE DEF t, u, N
<1> DEFINE S == {m \in Nat : m <= N => u[m] = t[m]}
<1>5. 0 \in S
  BY <1>2, <1>3
<1>6. ASSUME NEW m \in Nat, m \in S
      PROVE  m + 1 \in S
  <2> SUFFICES ASSUME m + 1 <= N
               PROVE  u[m + 1] = t[m + 1]
    OBVIOUS
  <2>1. m + 1 \in 1..N /\ m + 1 \in 1..(N + 1) /\ (m + 1) - 1 = m
    BY <1>1
  <2>2. u[m] = t[m] /\ all[m + 1] = ls[m + 1]
    BY <1>1, <1>6, <2>1
  <2> QED BY <1>2, <1>3, <2>1, <2>2
<1>7. u[N] = t[N]
  <2> HIDE DEF S
  <2>1. N \in S
    BY <1>1, <1>5, <1>6, Induction
  <2> QED BY <1>1, <2>1 DEF S
<1>8. u[N + 1] = With(u, N + 1, l) /\ (N + 1) - 1 = N
  <2>1. N + 1 \in 1..(N + 1)
    BY <1>1
  <2> QED BY <1>1, <1>3, <2>1
<1> QED BY <1>4, <1>7, <1>8 DEF all


\* Where the result has lines, the background job was shown them: whatever is
\* thrown away on the way to the legacy client is not returned, and only a
\* call for which nothing was requested yet goes on there.
ShownInv ==
    /\ pc # "legacy_connect" => TextLines(prior.lines \o lines) = streamed
    /\ pc = "legacy_connect" => prior.lines = <<>> /\ lines = <<>>
    /\ Upload \/ prior.lines = <<>>
    /\ Requests = 0 => streamed = <<>>

SInv == IInv /\ ShownInv

LEMMA ShownAtFirst == Init => ShownInv
<1> SUFFICES ASSUME Init PROVE ShownInv
  OBVIOUS
<1>1. prior.lines = <<>> /\ lines = <<>> /\ streamed = <<>> /\ pc = "connect"
  BY DEF Init, NoPrior
<1>2. prior.lines \o lines = <<>>
  BY <1>1
<1> QED BY <1>1, <1>2, TextOfNone DEF ShownInv

LEMMA ConcatAppend ==
    ASSUME NEW V, NEW s \in Seq(V), NEW t \in Seq(V), NEW v \in V
    PROVE  s \o Append(t, v) = Append(s \o t, v)
<1>1. s \o Append(t, v) \in Seq(V) /\ Append(s \o t, v) \in Seq(V)
  OBVIOUS
<1>2. Len(s \o Append(t, v)) = Len(Append(s \o t, v))
  OBVIOUS
<1>3. ASSUME NEW i \in 1..Len(Append(s \o t, v))
      PROVE  (s \o Append(t, v))[i] = Append(s \o t, v)[i]
  OBVIOUS
<1> QED BY <1>1, <1>2, <1>3, SeqEqual

\* One line more at the end of what was returned so far.
LEMMA TextGrowsAfter ==
    ASSUME NEW s \in Seq(Lines), NEW t \in Seq(Lines), NEW l \in Lines
    PROVE  TextLines(s \o Append(t, l)) =
              IF l.text THEN Append(TextLines(s \o t), l) ELSE TextLines(s \o t)
<1>1. s \o t \in Seq(Lines)
  OBVIOUS
<1>2. s \o Append(t, l) = Append(s \o t, l)
  BY ConcatAppend
<1> QED BY <1>1, <1>2, TextGrows

LEMMA Shown ==
    ASSUME TypeOK, NEW l \in Lines
    PROVE  TextLines(prior.lines \o Append(lines, l)) =
              IF l.text THEN Append(TextLines(prior.lines \o lines), l)
              ELSE TextLines(prior.lines \o lines)
BY TextGrowsAfter DEF TypeOK

LEMMA SameLinesShown ==
    ASSUME ShownInv, UNCHANGED <<backend, method, pc, op, lines, prior, streamed, started>>,
           CompileDone => CompileDone'
    PROVE  ShownInv'
BY DEF ShownInv, Requests, Upload

\* The operation ends with these lines, all of which were shown.
LEMMA OperationDoneShown ==
    ASSUME IInv, ShownInv, pc = "follow",
           NEW ls \in Seq(Lines), NEW t, OperationDone(ls, exit_code, t),
           TextLines(prior.lines \o ls) = streamed',
           UNCHANGED <<backend, method, started, reported>>
    PROVE  ShownInv'
<1>1. Requests \in {1, 2} /\ Requests' = Requests
  BY DEF IInv, StreamInv, Requests
<1>2. CASE /\ method = "run" /\ op = "compile" /\ exit_code = "ok"
           /\ op' = "upload" /\ pc' = "connect"
           /\ prior' = [lines |-> ls, truncated |-> t] /\ lines' = <<>>
  <2>1. Requests = 1 /\ CompileDone
    BY <1>2 DEF IInv, StreamInv, FirstHalf, Upload, CompileDone, FirstOp
  <2>2. prior.lines = <<>>
    BY <1>2 DEF ShownInv, Upload
  <2>3. prior.lines \o ls = ls /\ prior'.lines \o lines' = ls
    BY <1>2, <2>2
  <2>4. Upload'
    BY <1>2, <2>1 DEF Upload, CompileDone
  <2> QED BY <1>1, <1>2, <2>3, <2>4 DEF ShownInv
<1>3. CASE lines' = ls /\ UNCHANGED <<op, pc, prior>>
  BY <1>1, <1>3 DEF ShownInv, Upload, CompileDone
<1> QED BY <1>2, <1>3 DEF OperationDone, Success, Compiled, NewResult

LEMMA OutputShown ==
    ASSUME IInv, ShownInv, Output
    PROVE  ShownInv'
<1>1. Line \in Lines /\ Line.text /\ Append(lines, Line) \in Seq(Lines)
  BY LineType DEF IInv, TypeOK, Line
<1>2. /\ pc = "follow" /\ streamed' = Append(streamed, Line)
      /\ UNCHANGED <<backend, method, started, reported>>
  BY DEF Output, Pumping
<1>3. TextLines(prior.lines \o lines) = streamed
  BY <1>2 DEF ShownInv
<1>4. TextLines(prior.lines \o Append(lines, Line)) = streamed'
  BY <1>1, <1>2, <1>3, Shown DEF IInv
<1>5. CASE OperationDone(Append(lines, Line), exit_code, TRUE)
  BY <1>1, <1>2, <1>4, <1>5, OperationDoneShown
<1>6. CASE lines' = Append(lines, Line) /\ UNCHANGED <<pc, op, prior>>
  <2>1. Requests \in {1, 2} /\ Requests' = Requests
    BY <1>2 DEF IInv, StreamInv, Requests
  <2> QED BY <1>2, <1>4, <1>6, <2>1 DEF ShownInv, Upload, CompileDone
<1> QED BY <1>5, <1>6 DEF Output

LEMMA FollowOverShown ==
    ASSUME IInv, ShownInv, FollowEnds \/ FollowLate
    PROVE  ShownInv'
<1>1. /\ pc = "follow" /\ lines \in Seq(Lines) /\ streamed' = streamed
      /\ UNCHANGED <<backend, method, started, reported>>
  BY DEF FollowEnds, FollowLate, Pumping, IInv, TypeOK
<1>2. TextLines(prior.lines \o lines) = streamed'
  BY <1>1 DEF ShownInv
<1> QED BY <1>1, <1>2, OperationDoneShown DEF FollowEnds, FollowLate

LEMMA LegacyReadsShown ==
    ASSUME IInv, ShownInv, LegacyLine \/ LegacyJunk
    PROVE  ShownInv'
<1> DEFINE junk == [Line EXCEPT !.text = FALSE]
<1>1. Line \in Lines /\ junk \in Lines
  BY LineType DEF IInv
<1>2. Line.text /\ ~junk.text
  BY DEF Line
<1>3. /\ pc = "legacy" /\ UNCHANGED <<backend, method, pc, op, prior, started, reported>>
      /\ Requests = 1 /\ Requests' = 1
  BY DEF LegacyLine, LegacyJunk, Pumping, IInv, LegacyInv, Requests
<1>4. TextLines(prior.lines \o lines) = streamed
  BY <1>3 DEF ShownInv
<1>5. TextLines(prior.lines \o lines') = streamed'
  <2>1. CASE LegacyLine
    <3>1. lines' = Append(lines, Line) /\ streamed' = Append(streamed, Line)
      BY <2>1 DEF LegacyLine
    <3> QED BY <1>1, <1>2, <1>4, <3>1, Shown DEF IInv
  <2>2. CASE LegacyJunk
    <3>1. lines' = Append(lines, junk) /\ streamed' = streamed
      BY <2>2 DEF LegacyJunk
    <3> HIDE DEF junk
    <3> QED BY <1>1, <1>2, <1>4, <3>1, Shown DEF IInv
  <2> QED BY <2>1, <2>2
<1> QED BY <1>3, <1>5 DEF ShownInv, Upload, CompileDone

\* A new connection: the fallback forgets the lines, and the legacy client
\* starts where nothing was shown.
LEMMA ConnectsShown ==
    ASSUME IInv, ShownInv, WsConnect \/ WsRefused \/ LegacyConnect
    PROVE  ShownInv'
<1>1. CASE WsRefused
  <2>1. /\ pc' = "legacy_connect" /\ prior'.lines = <<>> /\ lines' = <<>>
        /\ UNCHANGED <<streamed, started>>
    BY <1>1 DEF WsRefused, NoPrior, NewResult
  <2> QED BY <2>1 DEF ShownInv, Requests
<1>2. ASSUME WsConnect \/ LegacyConnect
      PROVE  /\ Requests' = Requests + 1 /\ Requests \in Nat
             /\ \A i \in 1 .. Requests : started'[i] = started[i] /\ reported'[i] = reported[i]
  <2>1. \E o \in Ops \cup {"run"} : Request(o)
    BY <1>2, MethodKnown DEF WsConnect, LegacyConnect, IInv, TypeOK, Ops
  <2> QED BY <2>1, Requested DEF IInv
<1>3. CASE WsConnect
  <2>1. /\ pc = "connect" /\ pc' \in {"submit", "follow"}
        /\ UNCHANGED <<backend, method, op, lines, prior, streamed>>
    BY <1>3 DEF WsConnect, result
  <2>2. Requests' # 0
    BY <1>2, <1>3
  <2>3. Upload => Upload'
    <3> SUFFICES ASSUME Upload PROVE Upload'
      OBVIOUS
    <3>1. Requests = 1
      BY <2>1 DEF Upload, IInv, ConnectInv, FirstHalf, FirstOp, CompileDone
    <3> QED BY <1>2, <1>3, <2>1, <3>1 DEF Upload, CompileDone
  <2> QED BY <2>1, <2>2, <2>3 DEF ShownInv
<1>4. CASE LegacyConnect
  <2>1. /\ pc = "legacy_connect" /\ pc' = "legacy"
        /\ UNCHANGED <<lines, prior, streamed>>
    BY <1>4 DEF LegacyConnect, result
  <2>2. Requests = 0
    BY <1>4 DEF LegacyConnect, BuilderMissing, IInv, FallbackInv, CompileDone
  <2>3. prior.lines = <<>> /\ lines = <<>> /\ streamed = <<>>
    BY <2>1, <2>2 DEF ShownInv
  <2>4. prior.lines \o lines = <<>>
    BY <2>3
  <2> QED BY <1>2, <1>4, <2>1, <2>2, <2>3, <2>4, TextOfNone DEF ShownInv
<1> QED BY <1>1, <1>3, <1>4

\* Every other step leaves the lines alone.
LEMMA OthersShown ==
    ASSUME IInv, ShownInv,
           \/ WsFails \/ SubmitFails \/ Malformed \/ FollowError \/ LegacyFails
           \/ DeadlinePasses \/ SubmitAck \/ LegacyClose \/ LegacyLate
           \/ \E code \in Exits : ResultEvent(code) \/ LegacyExit(code)
           \/ UNCHANGED vars
    PROVE  ShownInv'
<1>1. CASE \/ WsFails \/ SubmitFails \/ Malformed \/ FollowError \/ LegacyFails
           \/ DeadlinePasses \/ LegacyClose \/ LegacyLate \/ UNCHANGED vars
  <2>1. UNCHANGED <<backend, method, pc, op, lines, prior, streamed, started, reported>>
    BY <1>1 DEF WsFails, SubmitFails, Malformed, FollowError, LegacyFails, Raise,
                DeadlinePasses, LegacyClose, LegacyLate, result, vars
  <2> QED BY <2>1, SameLinesShown DEF CompileDone
<1>2. CASE SubmitAck
  <2>1. /\ pc = "submit" /\ pc' = "follow"
        /\ UNCHANGED <<backend, method, op, lines, prior, streamed, started, reported>>
    BY <1>2 DEF SubmitAck, Pumping, result
  <2> QED BY <2>1 DEF ShownInv, Requests, Upload, CompileDone
<1>3. ASSUME NEW code \in Exits, ResultEvent(code) \/ LegacyExit(code)
      PROVE  ShownInv'
  <2>1. /\ pc \in {"follow", "legacy"}
        /\ reported' = [reported EXCEPT ![Len(reported)] = code]
        /\ UNCHANGED <<backend, method, pc, op, lines, prior, streamed, started>>
    BY <1>3 DEF ResultEvent, LegacyExit, Pumping
  <2>2. Upload => Requests = 2
    BY <2>1 DEF IInv, StreamInv, LegacyInv, FirstHalf, FirstOp, Upload, CompileDone
  <2>3. Upload => Upload'
    <3>1. Len(reported) = Requests /\ reported \in Seq(Exits)
      BY DEF IInv, TypeOK, Requests
    <3>2. Requests = 2 => reported'[1] = reported[1]
      BY <2>1, <3>1
    <3> QED BY <2>1, <2>2, <3>2 DEF Upload, CompileDone
  <2> QED BY <2>1, <2>3, SameLinesShown DEF ShownInv, Requests
<1> QED BY <1>1, <1>2, <1>3

LEMMA ShownKeeps == SInv /\ [Next]_vars => SInv'
BY Inductive, OutputShown, FollowOverShown, LegacyReadsShown, ConnectsShown, OthersShown
   DEF Next, SInv

----------------------------------------------------------------------------
(* Theorems *)

\* What the dashboard was asked for, and said of it, in each phase of a call.
THEOREM Invariant == Spec => []IInv
<1> QED BY Initially, Inductive, PTL DEF Spec

\* Every variable keeps the shape the code gives it.
THEOREM TypeCorrect == Spec => []TypeOK
<1>1. IInv => TypeOK
  BY DEF IInv
<1> QED BY <1>1, Invariant, PTL

\* What the record of requests can be.
LEMMA Record ==
    ASSUME IInv
    PROVE  /\ started \in Seq({"compile", "upload", "clean", "run", "validate"})
           /\ \/ Requests = 0
              \/ Requests = 1 /\ started[1] = method
              \/ Requests = 1 /\ method = "run" /\ started[1] = "compile"
              \/ Requests = 2 /\ started[2] = "upload" /\ CompileDone
<1>1. pc \in Phases /\ started \in Seq({"compile", "upload", "clean", "run", "validate"})
  BY DEF IInv, TypeOK
<1> QED BY <1>1 DEF IInv, Phases, ConnectInv, StreamInv, FallbackInv, LegacyInv,
                    FirstHalf, FirstOp, Upload, CompileDone

\* The dashboard is never asked twice for the same work, fallback included.
THEOREM NoWorkTwice == Spec => []WorkDoneOnce
<1>1. IInv => WorkDoneOnce
  <2> SUFFICES ASSUME IInv, NEW i \in DOMAIN started, NEW j \in DOMAIN started, i # j
               PROVE  Work(started[i]) \cap Work(started[j]) = {}
    BY DEF WorkDoneOnce
  <2>1. DOMAIN started = 1 .. Requests /\ Requests \in Nat
    BY Record DEF Requests
  <2>2. Requests = 2 /\ started[1] = "compile" /\ started[2] = "upload"
    BY <2>1, Record DEF CompileDone
  <2> QED BY <2>1, <2>2 DEF Work
<1> QED BY <1>1, Invariant, PTL

\* Nothing but a compile of this call that succeeded is flashed.
THEOREM CompiledBeforeFlash == Spec => []FlashOnlyCompiled
<1>1. IInv => FlashOnlyCompiled
  <2> SUFFICES ASSUME IInv, method = "run", NEW i \in DOMAIN started, started[i] = "upload"
               PROVE  i = 2 /\ started[1] = "compile" /\ reported[1] = "ok"
    BY DEF FlashOnlyCompiled
  <2>1. DOMAIN started = 1 .. Requests /\ Requests \in Nat
    BY Record DEF Requests
  <2> QED BY <2>1, Record DEF CompileDone
<1> QED BY <1>1, Invariant, PTL

\* A call that reports success did all its work, and the dashboard said so of
\* every operation.
THEOREM SuccessReported == Spec => []SuccessIsReal
<1>1. IInv => SuccessIsReal
  <2> SUFFICES ASSUME IInv, outcome = "returned", exit_code = "ok"
               PROVE  /\ Work(method) \subseteq UNION {Work(started[i]) : i \in DOMAIN started}
                      /\ \A i \in DOMAIN reported : reported[i] = "ok"
    BY DEF SuccessIsReal, Returned
  <2>1. /\ DOMAIN started = 1 .. Requests /\ DOMAIN reported = 1 .. Requests
        /\ Requests \in Nat
    BY DEF IInv, TypeOK, Requests
  <2>2. \/ Requests = 1 /\ started[1] = method /\ reported[1] = "ok"
        \/ /\ Requests = 2 /\ method = "run"
           /\ started[1] = "compile" /\ started[2] = "upload"
           /\ reported[1] = "ok" /\ reported[2] = "ok"
    <3>1. pc \in Phases
      BY DEF IInv, TypeOK
    <3> QED BY <3>1 DEF IInv, Phases, ConnectInv, StreamInv, FallbackInv, LegacyInv,
                        FirstHalf, FirstOp, Upload, CompileDone
  <2>3. CASE Requests = 1 /\ started[1] = method /\ reported[1] = "ok"
    BY <2>1, <2>3
  <2>4. CASE /\ Requests = 2 /\ method = "run"
             /\ started[1] = "compile" /\ started[2] = "upload"
             /\ reported[1] = "ok" /\ reported[2] = "ok"
    <3>1. Work(method) = Work(started[1]) \cup Work(started[2])
      BY <2>4 DEF Work
    <3>2. 1 \in DOMAIN started /\ 2 \in DOMAIN started
      BY <2>1, <2>4
    <3> QED BY <2>1, <2>4, <3>1, <3>2
  <2> QED BY <2>2, <2>3, <2>4
<1> QED BY <1>1, Invariant, PTL

\* What the agent is given is what the background job was shown, line for line:
\* nothing of the compile is dropped when run goes on to its upload, and nothing
\* of an attempt that was given up is returned (_pump, _run_command, run).
THEOREM ShownIsReturned == Spec => []ReturnedMatchesStreamed
<1>1. SInv => ReturnedMatchesStreamed
  <2> SUFFICES ASSUME SInv, outcome = "returned"
               PROVE  TextLines(Returned.lines) = streamed
    BY DEF ReturnedMatchesStreamed
  <2>1. pc # "legacy_connect"
    BY DEF SInv, IInv, FallbackInv
  <2> QED BY <2>1 DEF SInv, ShownInv, Returned
<1> QED BY <1>1, Initially, ShownAtFirst, ShownKeeps, PTL DEF Spec, SInv
=============================================================================
