---------------------------- MODULE MCLogCapture ----------------------------
(* A small instance of LogCapture for TLC, with a reference for what is kept. *)
EXTENDS LogCapture, SequencesExt

\* How many lines the filter released for the first raw lines of ds.
Released(ds) ==
    LET f[k \in 0..Len(ds)] == IF k = 0 THEN 0 ELSE f[k - 1] + ds[k]
    IN f

\* The raw lines that count: up to the first one that reaches the limit.
Counted(ds) ==
    LET reach == {k \in 0..Len(ds) : Released(ds)[k] >= MaxLines}
    IN IF reach = {} THEN Len(ds) ELSE Min(reach)

\* "Cancelling the stream task on an early stop loses nothing"
\* (log_capture.py): at every moment, before, during and after the wind-down,
\* the kept lines are all those released up to the raw line that reached the
\* limit, each once and in order.
NothingLost ==
    lines = FlattenSeq([k \in 1..Counted(delivered) |-> [i \in 1..delivered[k] |-> k]])
============================================================================
