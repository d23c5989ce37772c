---------------------------- MODULE MCConnection ----------------------------
(* Two calls, by an admin, a guest or nobody, to a stable and a beta add-on. *)
EXTENDS Connection, TLC

CONSTANTS c1, c2, stable, beta, admin, guest

ChannelOf == [a \in Addon |-> IF a = stable THEN 0 ELSE 1]
CallSymmetry == Permutations(Call)
============================================================================
