----------------------------- MODULE LogProofs -----------------------------
(***************************************************************************)
(* What the log filter and async_capture guarantee, for every sequence of  *)
(* lines, every context, every limit and every burst: the filter returns   *)
(* the lines it promises, as grep prints them (the first half), and a      *)
(* capture returns all that its filter released, as BoundedCapture says    *)
(* (the second).                                                           *)
(***************************************************************************)
EXTENDS MCLogCapture, MCLogFilter, Recursion,
        FiniteSetTheorems, SequenceTheorems, TLAPS

----------------------------------------------------------------------------
(* FlattenSeq *)

\* Flattening, from its recursion.
LEMMA FlattenIs ==
    ASSUME NEW A, NEW s \in Seq(Seq(A))
    PROVE  \E f \in [0..Len(s) -> Seq(A)] :
              /\ FlattenSeq(s) = f[Len(s)]
              /\ f[0] = <<>>
              /\ \A i \in 1..Len(s) : f[i] = f[i - 1] \o s[i]
<1> DEFINE V == Seq(A)
           n == Len(s)
           Put(i, v) == v \o s[i]
           step == [i \in 1..n |-> [v \in V |-> Put(i, v)]]
           Eq(f) == f = [i \in 1..n |-> IF i = 1 THEN s[i] ELSE f[i - 1] \o s[i]]
           t == CHOOSE g : Eq(g)
<1>1. n \in Nat /\ <<>> \in V /\ \A i \in 1..n : s[i] \in V
  OBVIOUS
<1>2. \A i \in 1..n, v \in V : Put(i, v) \in V
  BY <1>1
<1>3. FlattenSeq(s) = IF n = 0 THEN s ELSE t[n]
  BY DEF FlattenSeq
<1> HIDE DEF Put, n, V
<1>4. step \in Steps(n, V)
  BY <1>2 DEF Steps
<1>5. PICK f \in [0..n -> V] : Runs(f, n, <<>>, step)
  <2> HIDE DEF step
  <2> QED BY <1>1, <1>4, RecursionHolds
<1>6. \A i \in 1..n : f[i] = f[i - 1] \o s[i] /\ f[i - 1] \in V
  <2> SUFFICES ASSUME NEW i \in 1..n
               PROVE  f[i] = Put(i, f[i - 1]) /\ f[i - 1] \in V
    BY DEF Put
  <2>1. i - 1 \in 0..n
    BY <1>1
  <2>2. f[i - 1] \in V
    BY <2>1
  <2> QED BY <1>5, <2>2 DEF Runs
<1>7. f[0] = <<>>
  BY <1>5 DEF Runs
<1>8. CASE n = 0
  <2>1. s = <<>>
    BY <1>8 DEF n
  <2> QED BY <1>3, <1>5, <1>6, <1>7, <1>8, <2>1 DEF n, V
<1>9. CASE n # 0
  <2> DEFINE g == [i \in 1..n |-> f[i]]
  <2>1. ASSUME NEW i \in 1..n
        PROVE  g[i] = IF i = 1 THEN s[i] ELSE g[i - 1] \o s[i]
    <3>1. CASE i = 1
      <4>1. f[i] = f[0] \o s[i]
        <5>1. i - 1 = 0
          BY <3>1
        <5> QED BY <1>6, <5>1
      <4>2. <<>> \o s[i] = s[i]
        BY <1>1 DEF V
      <4> QED BY <1>7, <3>1, <4>1, <4>2
    <3>2. CASE i # 1
      <4>1. i - 1 \in 1..n
        BY <1>1, <3>2
      <4> QED BY <1>6, <3>2, <4>1
    <3> QED BY <3>1, <3>2
  <2>2. Eq(g)
    <3>1. [i \in 1..n |-> f[i]] = [i \in 1..n |-> IF i = 1 THEN s[i] ELSE g[i - 1] \o s[i]]
      BY <2>1
    <3> QED BY <3>1
  <2>3. Eq(t)
    <3> HIDE DEF Eq, g
    <3> QED BY <2>2
  <2> HIDE DEF t
  <2>4. \A i \in 1..n : t[i] = IF i = 1 THEN s[i] ELSE t[i - 1] \o s[i]
    BY <2>3
  <2> DEFINE S == {m \in Nat : m + 1 <= n => t[m + 1] = f[m + 1]}
  <2>5. 0 \in S
    <3>1. 1 \in 1..n
      BY <1>1, <1>9
    <3>2. t[1] = s[1] /\ g[1] = s[1]
      BY <2>1, <2>4, <3>1
    <3> QED BY <3>1, <3>2
  <2>6. ASSUME NEW m \in Nat, m \in S
        PROVE  m + 1 \in S
    <3> SUFFICES ASSUME (m + 1) + 1 <= n
                 PROVE  t[(m + 1) + 1] = f[(m + 1) + 1]
      OBVIOUS
    <3> DEFINE i == (m + 1) + 1
    <3>1. i \in 1..n /\ i # 1 /\ i - 1 = m + 1
      BY <1>1
    <3>2. t[m + 1] = f[m + 1]
      BY <1>1, <2>6
    <3>3. t[i] = t[i - 1] \o s[i] /\ f[i] = f[i - 1] \o s[i]
      BY <1>6, <2>4, <3>1
    <3> QED BY <3>1, <3>2, <3>3
  <2>7. n - 1 \in Nat /\ (n - 1) + 1 = n
    BY <1>1, <1>9
  <2>8. n - 1 \in S
    <3> HIDE DEF S
    <3> QED BY <2>5, <2>6, <2>7, Induction
  <2>9. t[n] = f[n]
    BY <1>1, <2>7, <2>8
  <2> QED BY <1>3, <1>5, <1>6, <1>7, <1>9, <2>9 DEF n, V
<1> QED BY <1>8, <1>9

\* It has all of the parts, one after the other.
LEMMA FlattenAppend ==
    ASSUME NEW A, NEW s \in Seq(Seq(A)), NEW x \in Seq(A)
    PROVE  /\ FlattenSeq(s) \in Seq(A)
           /\ FlattenSeq(Append(s, x)) = FlattenSeq(s) \o x
<1> DEFINE n == Len(s)
           all == Append(s, x)
<1>1. /\ all \in Seq(Seq(A)) /\ Len(all) = n + 1
      /\ all[n + 1] = x /\ \A i \in 1..n : all[i] = s[i]
      /\ n \in Nat
  OBVIOUS
<1> HIDE DEF all
<1>2. PICK f \in [0..n -> Seq(A)] :
             /\ FlattenSeq(s) = f[n]
             /\ f[0] = <<>>
             /\ \A i \in 1..n : f[i] = f[i - 1] \o s[i]
  BY FlattenIs
<1>3. PICK g \in [0..Len(all) -> Seq(A)] :
             /\ FlattenSeq(all) = g[Len(all)]
             /\ g[0] = <<>>
             /\ \A i \in 1..Len(all) : g[i] = g[i - 1] \o all[i]
  BY <1>1, FlattenIs
<1> HIDE DEF n
<1> DEFINE S == {m \in Nat : m <= n => f[m] = g[m]}
<1>4. 0 \in S
  BY <1>2, <1>3
<1>5. ASSUME NEW m \in Nat, m \in S
      PROVE  m + 1 \in S
  <2> SUFFICES ASSUME m + 1 <= n
               PROVE  f[m + 1] = g[m + 1]
    OBVIOUS
  <2>1. m + 1 \in 1..n /\ m + 1 \in 1..Len(all) /\ (m + 1) - 1 = m
    BY <1>1
  <2>2. f[m] = g[m]
    BY <1>1, <1>5
  <2>3. f[m + 1] = f[m] \o s[m + 1] /\ g[m + 1] = g[m] \o all[m + 1]
    BY <1>2, <1>3, <2>1
  <2> QED BY <1>1, <2>1, <2>2, <2>3
<1>6. n \in S
  <2> HIDE DEF S
  <2> QED BY <1>1, <1>4, <1>5, Induction
<1>7. f[n] = g[n] /\ f[n] \in Seq(A)
  BY <1>1, <1>6
<1>8. g[n + 1] = g[n] \o x
  <2>1. n + 1 \in 1..Len(all) /\ (n + 1) - 1 = n
    BY <1>1
  <2> QED BY <1>1, <1>3, <2>1
<1> QED BY <1>1, <1>2, <1>3, <1>7, <1>8 DEF all

----------------------------------------------------------------------------
(* Entries and their ranks *)

\* EntryOf and Rank of the lines ins.
Entry(ins, i) == Max({0} \cup {e \in 1..i : ins[e] \in Entries})
RankIn(ins, i) == Cardinality({f \in 1..i : ins[f] \in {"match", "other"}})

\* The entry of a line is the last one up to it.
LEMMA EntryIs ==
    ASSUME NEW ins, NEW i \in Nat
    PROVE  /\ Entry(ins, i) \in 0..i
           /\ Entry(ins, i) # 0 => ins[Entry(ins, i)] \in Entries
           /\ \A e \in 1..i : ins[e] \in Entries => e <= Entry(ins, i)
<1> DEFINE S == {0} \cup {e \in 1..i : ins[e] \in Entries}
           T == {n \in Nat : \E e \in S : n = i - e}
<1>1. 0 \in S /\ S \subseteq 0..i
  OBVIOUS
<1>2. \A e \in S : i - e \in T
  BY <1>1
<1>3. PICK n \in T : \A k \in T : n <= k
  <2>1. T \subseteq Nat /\ T # {}
    BY <1>1, <1>2
  <2> HIDE DEF T
  <2> QED BY <2>1, LeastNat
<1>4. PICK m \in S : n = i - m
  BY <1>3
<1>5. \A e \in S : m >= e
  <2> TAKE e \in S
  <2>1. n <= i - e
    BY <1>2, <1>3
  <2> QED BY <1>1, <1>4, <2>1
<1>6. Entry(ins, i) \in S /\ \A e \in S : Entry(ins, i) >= e
  <2>1. Entry(ins, i) = CHOOSE x \in S : \A y \in S : x >= y
    BY DEF Entry, Max
  <2> HIDE DEF S
  <2> QED BY <1>5, <2>1
<1> QED BY <1>1, <1>6

\* The rank counts up at each eligible entry, and only there.
LEMMA RankIs ==
    ASSUME NEW ins, NEW i \in Nat
    PROVE  /\ RankIn(ins, i) \in Nat
           /\ RankIn(ins, 0) = 0
           /\ RankIn(ins, i + 1) = IF ins[i + 1] \in {"match", "other"}
                                     THEN RankIn(ins, i) + 1 ELSE RankIn(ins, i)
<1> DEFINE Upto(j) == {f \in 1..j : ins[f] \in {"match", "other"}}
<1>1. IsFiniteSet(Upto(i))
  <2>1. IsFiniteSet(1..i) /\ Upto(i) \in SUBSET (1..i)
    BY FS_Interval
  <2> HIDE DEF Upto
  <2> QED BY <2>1, FS_Subset
<1>2. Upto(0) = {}
  OBVIOUS
<1>3. i + 1 \notin Upto(i)
  OBVIOUS
<1>4. Upto(i + 1) = IF ins[i + 1] \in {"match", "other"} THEN Upto(i) \cup {i + 1} ELSE Upto(i)
  <2>1. 1..i + 1 = 1..i \cup {i + 1}
    OBVIOUS
  <2> QED BY <2>1
<1>5. RankIn(ins, i) = Cardinality(Upto(i)) /\ RankIn(ins, 0) = Cardinality(Upto(0))
      /\ RankIn(ins, i + 1) = Cardinality(Upto(i + 1))
  BY DEF RankIn
<1> HIDE DEF Upto
<1>6. Cardinality(Upto(i)) \in Nat
  BY <1>1, FS_CardinalityType
<1>7. RankIn(ins, 0) = 0
  BY <1>2, <1>5, FS_EmptySet
<1>8. Cardinality(Upto(i) \cup {i + 1}) = Cardinality(Upto(i)) + 1
  BY <1>1, <1>3, FS_AddElement
<1> QED BY <1>4, <1>5, <1>6, <1>7, <1>8

\* Ranks come in order.
LEMMA RankRises ==
    ASSUME NEW ins, NEW i \in Nat, NEW j \in Nat, i <= j
    PROVE  /\ RankIn(ins, i) <= RankIn(ins, j)
           /\ i < j /\ ins[j] \in {"match", "other"} => RankIn(ins, i) < RankIn(ins, j)
           /\ (\A k \in i + 1..j : ins[k] \notin {"match", "other"}) =>
                RankIn(ins, i) = RankIn(ins, j)
<1> DEFINE r(k) == RankIn(ins, k)
           S == {m \in Nat : /\ r(i) <= r(i + m)
                             /\ (\A k \in i + 1..i + m : ins[k] \notin {"match", "other"}) =>
                                  r(i) = r(i + m)}
<1>1. \A k \in Nat : r(k) \in Nat /\ r(k + 1) = IF ins[k + 1] \in {"match", "other"}
                                                  THEN r(k) + 1 ELSE r(k)
  BY RankIs
<1> HIDE DEF r
<1>2. 0 \in S
  BY <1>1
<1>3. ASSUME NEW m \in Nat, m \in S
      PROVE  m + 1 \in S
  <2>1. i + m \in Nat /\ (i + m) + 1 = i + (m + 1) /\ i + (m + 1) \in i + 1..i + (m + 1)
    OBVIOUS
  <2>2. \A k \in i + 1..i + m : k \in i + 1..i + (m + 1)
    OBVIOUS
  <2>3. r(i) <= r(i + m) /\ ((\A k \in i + 1..i + m : ins[k] \notin {"match", "other"}) =>
                                r(i) = r(i + m))
    BY <1>3
  <2>4. r(i) \in Nat /\ r(i + m) \in Nat
    BY <1>1
  <2>5. r(i + (m + 1)) = IF ins[i + (m + 1)] \in {"match", "other"} THEN r(i + m) + 1 ELSE r(i + m)
    BY <1>1, <2>1
  <2>6. r(i) <= r(i + (m + 1))
    BY <2>3, <2>4, <2>5
  <2>7. ASSUME \A k \in i + 1..i + (m + 1) : ins[k] \notin {"match", "other"}
        PROVE  r(i) = r(i + (m + 1))
    BY <2>1, <2>2, <2>3, <2>5, <2>7
  <2> QED BY <2>6, <2>7
<1>4. \A m \in Nat : m \in S
  <2> HIDE DEF S
  <2> QED BY <1>2, <1>3, Induction
<1>5. j - i \in Nat /\ i + (j - i) = j
  OBVIOUS
<1>6. r(i) <= r(j) /\ ((\A k \in i + 1..j : ins[k] \notin {"match", "other"}) => r(i) = r(j))
  BY <1>4, <1>5
<1>7. ASSUME i < j, ins[j] \in {"match", "other"}
      PROVE  r(i) < r(j)
  <2>1. j - 1 \in Nat /\ (j - 1) - i \in Nat /\ i + ((j - 1) - i) = j - 1 /\ (j - 1) + 1 = j
    BY <1>7
  <2>2. r(i) <= r(j - 1)
    BY <1>4, <2>1
  <2>3. r(j) = r(j - 1) + 1 /\ r(j - 1) \in Nat /\ r(i) \in Nat
    BY <1>1, <1>7, <2>1
  <2> QED BY <2>2, <2>3
<1> QED BY <1>6, <1>7 DEF r

\* One line more leaves the entries and ranks of those before it as they were.
LEMMA EntryGrows ==
    ASSUME NEW ins \in Seq(Kinds), NEW k \in Kinds
    PROVE  /\ \A i \in 0..Len(ins) :
                /\ Entry(Append(ins, k), i) = Entry(ins, i)
                /\ RankIn(Append(ins, k), i) = RankIn(ins, i)
           /\ Entry(Append(ins, k), Len(ins) + 1) =
                IF k \in Entries THEN Len(ins) + 1 ELSE Entry(ins, Len(ins))
           /\ RankIn(Append(ins, k), Len(ins) + 1) =
                IF k \in {"match", "other"} THEN RankIn(ins, Len(ins)) + 1
                ELSE RankIn(ins, Len(ins))
<1> SUFFICES ASSUME NEW all, all = Append(ins, k),
                    NEW N, N = Len(ins)
             PROVE  /\ \A i \in 0..N : Entry(all, i) = Entry(ins, i) /\ RankIn(all, i) = RankIn(ins, i)
                    /\ Entry(all, N + 1) = IF k \in Entries THEN N + 1 ELSE Entry(ins, N)
                    /\ RankIn(all, N + 1) = IF k \in {"match", "other"} THEN RankIn(ins, N) + 1
                                                                        ELSE RankIn(ins, N)
  OBVIOUS
<1>1. N \in Nat /\ all[N + 1] = k /\ \A i \in 1..N : all[i] = ins[i]
  OBVIOUS
<1>2. \A i \in 0..N : Entry(all, i) = Entry(ins, i) /\ RankIn(all, i) = RankIn(ins, i)
  <2> TAKE i \in 0..N
  <2>1. \A e \in 1..i : all[e] = ins[e]
    BY <1>1
  <2>2. {e \in 1..i : all[e] \in Entries} = {e \in 1..i : ins[e] \in Entries}
    BY <2>1
  <2>3. {e \in 1..i : all[e] \in {"match", "other"}} = {e \in 1..i : ins[e] \in {"match", "other"}}
    BY <2>1
  <2> QED BY <2>2, <2>3 DEF Entry, RankIn
<1>3. N \in 0..N
  BY <1>1
<1>4. RankIn(all, N + 1) = IF k \in {"match", "other"} THEN RankIn(ins, N) + 1
                                                       ELSE RankIn(ins, N)
  <2>1. RankIn(all, N) = RankIn(ins, N) /\ N + 1 \in Nat /\ (N + 1) - 1 = N
    BY <1>1, <1>2, <1>3
  <2>2. RankIn(all, N + 1) = IF all[N + 1] \in {"match", "other"} THEN RankIn(all, N) + 1
                                                                 ELSE RankIn(all, N)
    BY <1>1, <2>1, RankIs
  <2> QED BY <1>1, <2>1, <2>2
<1>5. CASE k \in Entries
  <2>1. N + 1 \in 1..N + 1 /\ N + 1 \in Nat
    BY <1>1
  <2>2. N + 1 <= Entry(all, N + 1) /\ Entry(all, N + 1) \in 0..N + 1
    BY <1>1, <1>5, <2>1, EntryIs
  <2>3. Entry(all, N + 1) = N + 1
    BY <1>1, <2>2
  <2> QED BY <1>2, <1>4, <1>5, <2>3
<1>6. CASE k \notin Entries
  <2>1. {e \in 1..N + 1 : all[e] \in Entries} = {e \in 1..N : all[e] \in Entries}
    <3>1. 1..N + 1 = 1..N \cup {N + 1}
      BY <1>1
    <3> QED BY <1>1, <1>6, <3>1
  <2>2. Entry(all, N + 1) = Entry(all, N)
    BY <2>1 DEF Entry
  <2> QED BY <1>2, <1>3, <1>4, <1>6, <2>2
<1> QED BY <1>5, <1>6

----------------------------------------------------------------------------
(* Lines in order *)

\* s lists the lines S, in the order they came.
Lists(s, S) ==
    /\ s \in Seq(Nat)
    /\ Range(s) = S
    /\ \A i, j \in 1..Len(s) : i < j => s[i] < s[j]

\* Later lines can follow.
LEMMA ListsJoin ==
    ASSUME NEW s, NEW S, NEW t, NEW T, Lists(s, S), Lists(t, T),
           \A x \in S, y \in T : x < y
    PROVE  Lists(s \o t, S \cup T)
<1> DEFINE st == s \o t
           n == Len(s)
<1>1. /\ s \in Seq(Nat) /\ t \in Seq(Nat) /\ st \in Seq(Nat)
      /\ Len(st) = n + Len(t) /\ n \in Nat /\ Len(t) \in Nat
  BY DEF Lists
<1>2. (\A i \in 1..n : st[i] = s[i]) /\ (\A i \in 1..Len(t) : st[n + i] = t[i])
  BY <1>1
<1>3. (\A i \in 1..n : s[i] \in S) /\ (\A i \in 1..Len(t) : t[i] \in T)
  BY <1>1 DEF Lists, Range
<1>4. (\A x \in S : \E i \in 1..n : x = s[i]) /\ (\A y \in T : \E i \in 1..Len(t) : y = t[i])
  BY <1>1 DEF Lists, Range
<1> HIDE DEF st, n
<1>5. \A i \in 1..Len(st) : i \in 1..n \/ (i - n \in 1..Len(t) /\ i = n + (i - n) /\ i > n)
  BY <1>1
<1>6. Range(st) = S \cup T
  <2>1. ASSUME NEW i \in 1..Len(st)
        PROVE  st[i] \in S \cup T
    BY <1>2, <1>3, <1>5
  <2>2. ASSUME NEW x \in S
        PROVE  \E i \in 1..Len(st) : x = st[i]
    <3>1. PICK i \in 1..n : x = s[i]
      BY <1>4
    <3>2. i \in 1..Len(st)
      BY <1>1
    <3> QED BY <1>2, <3>1, <3>2
  <2>3. ASSUME NEW y \in T
        PROVE  \E i \in 1..Len(st) : y = st[i]
    <3>1. PICK i \in 1..Len(t) : y = t[i]
      BY <1>4
    <3>2. n + i \in 1..Len(st)
      BY <1>1
    <3> QED BY <1>2, <3>1, <3>2
  <2>4. DOMAIN st = 1..Len(st)
    BY <1>1
  <2> QED BY <2>1, <2>2, <2>3, <2>4 DEF Range
<1>7. ASSUME NEW i \in 1..Len(st), NEW j \in 1..Len(st), i < j
      PROVE  st[i] < st[j]
  <2>1. CASE i \in 1..n /\ j \in 1..n
    BY <1>2, <1>7, <2>1 DEF Lists, n
  <2>2. CASE i \in 1..n /\ j - n \in 1..Len(t)
    <3>1. st[i] \in S
      BY <1>2, <1>3, <2>2
    <3>2. j = n + (j - n)
      BY <1>1
    <3>3. st[j] \in T
      BY <1>2, <1>3, <2>2, <3>2
    <3> QED BY <3>1, <3>3
  <2>3. CASE i - n \in 1..Len(t) /\ j - n \in 1..Len(t)
    <3>1. i - n < j - n /\ i = n + (i - n) /\ j = n + (j - n)
      BY <1>1, <1>7
    <3>2. st[i] = t[i - n] /\ st[j] = t[j - n]
      BY <1>2, <2>3, <3>1
    <3> QED BY <2>3, <3>1, <3>2 DEF Lists
  <2>4. ~(i - n \in 1..Len(t) /\ i > n /\ j \in 1..n)
    BY <1>1, <1>7
  <2> QED BY <1>5, <2>1, <2>2, <2>3, <2>4
<1> QED BY <1>1, <1>6, <1>7 DEF Lists, st

\* One line is in order.
LEMMA ListsOne ==
    ASSUME NEW x \in Nat
    PROVE  Lists(<<x>>, {x})
<1>1. <<x>> \in Seq(Nat) /\ Len(<<x>>) = 1 /\ <<x>>[1] = x /\ DOMAIN <<x>> = {1}
  OBVIOUS
<1>2. Range(<<x>>) = {x}
  BY <1>1 DEF Range
<1> QED BY <1>1, <1>2 DEF Lists

\* So can one later line.
LEMMA ListsAppend ==
    ASSUME NEW s, NEW S, NEW x \in Nat, Lists(s, S), \A y \in S : y < x
    PROVE  Lists(Append(s, x), S \cup {x})
<1>1. Lists(s \o <<x>>, S \cup {x})
  BY ListsOne, ListsJoin
<1>2. Append(s, x) = s \o <<x>>
  BY DEF Lists
<1> QED BY <1>1, <1>2

\* So do parts one after the other.
LEMMA ListsFlatten ==
    ASSUME NEW bs \in Seq(Seq(Nat)), NEW T,
           \A k \in 1..Len(bs) : Lists(bs[k], T[k]),
           \A j, k \in 1..Len(bs) : j < k => \A x \in T[j], y \in T[k] : x < y
    PROVE  Lists(FlattenSeq(bs), UNION {T[k] : k \in 1..Len(bs)})
<1> DEFINE n == Len(bs)
           U(m) == UNION {T[k] : k \in 1..m}
<1>1. PICK f \in [0..n -> Seq(Nat)] :
             /\ FlattenSeq(bs) = f[n]
             /\ f[0] = <<>>
             /\ \A i \in 1..n : f[i] = f[i - 1] \o bs[i]
  BY FlattenIs
<1>2. n \in Nat
  OBVIOUS
<1> DEFINE S == {m \in Nat : m <= n => Lists(f[m], U(m))}
<1>3. 0 \in S
  <2>1. U(0) = {}
    OBVIOUS
  <2>2. Lists(<<>>, {})
    BY DEF Lists, Range
  <2> QED BY <1>1, <2>1, <2>2
<1>4. ASSUME NEW m \in Nat, m \in S
      PROVE  m + 1 \in S
  <2> SUFFICES ASSUME m + 1 <= n
               PROVE  Lists(f[m + 1], U(m + 1))
    OBVIOUS
  <2>1. m + 1 \in 1..n /\ (m + 1) - 1 = m
    BY <1>2
  <2>2. f[m + 1] = f[m] \o bs[m + 1]
    BY <1>1, <2>1
  <2>3. Lists(f[m], U(m))
    BY <1>2, <1>4
  <2>4. U(m + 1) = U(m) \cup T[m + 1]
    <3>1. 1..m + 1 = 1..m \cup {m + 1}
      OBVIOUS
    <3> QED BY <3>1
  <2>5. \A x \in U(m), y \in T[m + 1] : x < y
    <3> TAKE x \in U(m), y \in T[m + 1]
    <3>1. PICK j \in 1..m : x \in T[j]
      OBVIOUS
    <3>2. j \in 1..n /\ j < m + 1
      BY <1>2, <2>1
    <3> QED BY <2>1, <3>1, <3>2
  <2> HIDE DEF U
  <2>6. Lists(bs[m + 1], T[m + 1])
    BY <2>1
  <2>7. Lists(f[m] \o bs[m + 1], U(m) \cup T[m + 1])
    BY <2>3, <2>5, <2>6, ListsJoin
  <2> QED BY <2>2, <2>4, <2>7
<1>5. n \in S
  <2> HIDE DEF S
  <2> QED BY <1>2, <1>3, <1>4, Induction
<1> QED BY <1>1, <1>2, <1>5

\* What was returned: the lines A, those that are not in St in order.
Returned(o, A, St) ==
    LET places == {p \in DOMAIN o : o[p] # Separator}
    IN /\ o \in Seq(Nat)
       /\ {o[p] : p \in places} = A
       /\ \A p, q \in places :
            p < q => /\ o[p] # o[q]
                     /\ o[p] < o[q] \/ o[p] \in St \/ o[q] \in St

\* Lines that came after those, other than the ones in St, may follow them.
LEMMA ReturnedGrows ==
    ASSUME NEW o, NEW A, NEW St, Returned(o, A, St),
           NEW g \in {<<>>, <<Separator>>}, NEW ls, NEW B, Lists(ls, B), 0 \notin B,
           NEW Su, St \subseteq Su,
           \A a \in A, b \in B : a # b /\ (a < b \/ a \in Su \/ b \in Su)
    PROVE  Returned((o \o g) \o ls, A \cup B, Su)
<1> DEFINE og == o \o g
           new == og \o ls
           n == Len(og)
           P(s) == {p \in DOMAIN s : s[p] # Separator}
<1>1. o \in Seq(Nat) /\ ls \in Seq(Nat) /\ g \in Seq(Nat) /\ Separator = 0
  <2>1. o \in Seq(Nat) /\ ls \in Seq(Nat) /\ Separator = 0
    BY DEF Returned, Lists, Separator
  <2>2. CASE g = <<>>
    BY <2>1, <2>2
  <2>3. CASE g = <<Separator>>
    BY <2>1, <2>3
  <2> QED BY <2>2, <2>3
<1>2. og \in Seq(Nat) /\ new \in Seq(Nat)
  BY <1>1
<1>3. /\ Len(og) = Len(o) + Len(g)
      /\ \A i \in 1..Len(o) : og[i] = o[i]
      /\ \A i \in 1..Len(og) : i \in 1..Len(o) \/ og[i] = 0
  <2>1. CASE g = <<>>
    BY <1>1, <2>1
  <2>2. CASE g = <<Separator>>
    BY <1>1, <2>2
  <2> QED BY <2>1, <2>2
<1>4. P(og) = P(o)
  <2>1. DOMAIN og = 1..Len(og) /\ DOMAIN o = 1..Len(o) /\ 1..Len(o) \subseteq 1..Len(og)
    BY <1>1, <1>2, <1>3
  <2> HIDE DEF og
  <2> QED BY <1>1, <1>3, <2>1
<1>5. \A p \in P(o) : og[p] = o[p]
  BY <1>1, <1>3
<1> HIDE DEF og
<1>6. /\ Len(new) = n + Len(ls) /\ n \in Nat /\ Len(ls) \in Nat
      /\ \A i \in 1..n : new[i] = og[i]
      /\ \A i \in 1..Len(ls) : new[n + i] = ls[i]
      /\ DOMAIN new = 1..Len(new) /\ DOMAIN og = 1..n /\ DOMAIN ls = 1..Len(ls)
  BY <1>1, <1>2
<1> HIDE DEF new, n
<1>7. \A i \in 1..Len(ls) : ls[i] \in B /\ ls[i] # 0
  BY <1>6 DEF Lists, Range
<1>8. \A p \in P(new) : p \in P(o) \/ (p - n \in 1..Len(ls) /\ p = n + (p - n) /\ p > n)
  BY <1>4, <1>6
<1>9. \A p \in P(o) : p \in P(new) /\ new[p] = o[p] /\ p \in 1..n
  BY <1>4, <1>5, <1>6
<1>10. \A i \in 1..Len(ls) : n + i \in P(new)
  BY <1>1, <1>6, <1>7
<1>11. {o[p] : p \in P(o)} = A
  BY DEF Returned
<1>12. {new[p] : p \in P(new)} = A \cup B
  <2>1. ASSUME NEW p \in P(new)
        PROVE  new[p] \in A \cup B
    <3>1. CASE p \in P(o)
      <4>1. o[p] \in A
        BY <1>11, <3>1
      <4> QED BY <1>9, <3>1, <4>1
    <3>2. CASE p - n \in 1..Len(ls) /\ p = n + (p - n)
      BY <1>6, <1>7, <3>2
    <3> QED BY <1>8, <3>1, <3>2
  <2>2. ASSUME NEW a \in A
        PROVE  \E p \in P(new) : new[p] = a
    <3>1. PICK p \in P(o) : o[p] = a
      BY <1>11
    <3> QED BY <1>9, <3>1
  <2>3. ASSUME NEW b \in B
        PROVE  \E p \in P(new) : new[p] = b
    <3>1. PICK i \in 1..Len(ls) : ls[i] = b
      BY <1>6 DEF Lists, Range
    <3> QED BY <1>6, <1>10, <3>1
  <2> HIDE DEF P
  <2> QED BY <2>1, <2>2, <2>3
<1>13. ASSUME NEW p \in P(new), NEW q \in P(new), p < q
       PROVE  /\ new[p] # new[q]
              /\ new[p] < new[q] \/ new[p] \in Su \/ new[q] \in Su
  <2>1. CASE p \in P(o) /\ q \in P(o)
    <3>1. o[p] # o[q] /\ (o[p] < o[q] \/ o[p] \in St \/ o[q] \in St)
      BY <1>13, <2>1 DEF Returned
    <3> QED BY <1>9, <2>1, <3>1
  <2>2. CASE p \in P(o) /\ q - n \in 1..Len(ls) /\ q = n + (q - n)
    <3>1. new[p] \in A
      <4>1. o[p] \in A
        BY <1>11, <2>2
      <4> QED BY <1>9, <2>2, <4>1
    <3>2. new[q] \in B
      BY <1>6, <1>7, <2>2
    <3> QED BY <3>1, <3>2
  <2>3. CASE p - n \in 1..Len(ls) /\ p = n + (p - n) /\ q - n \in 1..Len(ls) /\ q = n + (q - n)
    <3>1. p - n < q - n
      BY <1>6, <1>13, <2>3
    <3>2. new[p] = ls[p - n] /\ new[q] = ls[q - n]
      BY <1>6, <2>3
    <3>3. ls[p - n] < ls[q - n] /\ ls[p - n] \in Nat /\ ls[q - n] \in Nat
      BY <1>1, <2>3, <3>1 DEF Lists
    <3> QED BY <3>2, <3>3
  <2>4. ~(p - n \in 1..Len(ls) /\ p > n /\ q \in P(o))
    <3>1. CASE q \in P(o)
      <4>1. q \in 1..n
        BY <1>9, <3>1
      <4> QED BY <1>6, <1>13, <4>1
    <3> QED BY <3>1
  <2> HIDE DEF P
  <2> QED BY <1>8, <2>1, <2>2, <2>3, <2>4
<1> QED BY <1>2, <1>12, <1>13 DEF Returned, new, og

----------------------------------------------------------------------------
(* What is kept, as the input grows *)

Eligible == {"match", "other"}

\* IsStatus, KeptEntry and Kept of the lines ins.
StatusLines(ins) ==
    {i \in 1..Len(ins) : ins[i] = "status" \/ (ins[i] = "indent" /\ Entry(ins, i) = 0)}
KeptEntryIn(ins, c, e) ==
    /\ ins[e] \in Eligible
    /\ \E m \in 1..Len(ins) :
         ins[m] = "match" /\ RankIn(ins, m) - RankIn(ins, e) \in (-c)..c
KeptIn(ins, c) ==
    {i \in 1..Len(ins) :
        /\ ins[i] # "blank"
        /\ i \in StatusLines(ins) \/ (Entry(ins, i) # 0 /\ KeptEntryIn(ins, c, Entry(ins, i)))}

\* The lines of the eligible entry of rank a.
LinesOf(ins, a) ==
    {i \in 1..Len(ins) :
        /\ ins[i] \notin {"blank", "status"}
        /\ Entry(ins, i) # 0
        /\ ins[Entry(ins, i)] \in Eligible
        /\ RankIn(ins, Entry(ins, i)) = a}

\* The lines of the eligible entries from one rank to another.
LinesBetween(ins, lo, hi) == UNION {LinesOf(ins, a) : a \in lo..hi}

\* K is the rank that the context of the last match goes up to.
ReachIs(ins, c, K) ==
    /\ K \in Nat
    /\ \A m \in 1..Len(ins) : ins[m] = "match" => RankIn(ins, m) + c <= K
    /\ \/ K = 0
       \/ \E m \in 1..Len(ins) : ins[m] = "match" /\ K = RankIn(ins, m) + c

\* An entry near the end is kept if the last match reaches it; no entry that
\* it does not reach is kept.
LEMMA KeptIfReached ==
    ASSUME NEW ins \in Seq(Kinds), NEW c \in Nat, NEW K, ReachIs(ins, c, K),
           NEW e \in 1..Len(ins), ins[e] \in Eligible
    PROVE  /\ KeptEntryIn(ins, c, e) => RankIn(ins, e) <= K
           /\ RankIn(ins, e) <= K /\ RankIn(ins, Len(ins)) - c <= RankIn(ins, e) =>
                KeptEntryIn(ins, c, e)
           /\ RankIn(ins, e) \in Nat \ {0}
           /\ RankIn(ins, e) <= RankIn(ins, Len(ins))
<1> DEFINE r(i) == RankIn(ins, i)
           N == Len(ins)
<1>1. N \in Nat /\ \A i \in 0..N : r(i) \in Nat /\ r(i) <= r(N)
  <2>1. N \in Nat
    OBVIOUS
  <2>2. \A i \in 0..N : RankIn(ins, i) \in Nat /\ RankIn(ins, i) <= RankIn(ins, N)
    BY <2>1, RankIs, RankRises
  <2> QED BY <2>1, <2>2
<1>2. r(e) \in Nat \ {0}
  <2>1. e \in Nat /\ 0 \in Nat /\ 0 <= e /\ 0 < e /\ ins[e] \in {"match", "other"}
    BY DEF Eligible
  <2>2. RankIn(ins, 0) < RankIn(ins, e)
    BY <2>1, RankRises
  <2>3. RankIn(ins, 0) = 0 /\ RankIn(ins, e) \in Nat
    BY <2>1, RankIs
  <2> QED BY <2>2, <2>3
<1>3. K \in Nat /\ \A m \in 1..N : ins[m] = "match" => r(m) + c <= K
  BY DEF ReachIs
<1>4. K = 0 \/ \E m \in 1..N : ins[m] = "match" /\ K = r(m) + c
  BY DEF ReachIs
<1>5. KeptEntryIn(ins, c, e) <=> \E m \in 1..N : ins[m] = "match" /\ r(m) - r(e) \in (-c)..c
  BY DEF KeptEntryIn
<1> HIDE DEF r, N
<1>6. N \in 0..N /\ e \in 0..N /\ \A m \in 1..N : m \in 0..N
  BY <1>1 DEF N
<1>7. ASSUME NEW m \in 1..N, ins[m] = "match", r(m) - r(e) \in (-c)..c
      PROVE  r(e) <= K
  BY <1>1, <1>3, <1>6, <1>7
<1>8. ASSUME r(e) <= K, r(N) - c <= r(e)
      PROVE  \E m \in 1..N : ins[m] = "match" /\ r(m) - r(e) \in (-c)..c
  <2>1. PICK m \in 1..N : ins[m] = "match" /\ K = r(m) + c
    BY <1>2, <1>3, <1>4, <1>8
  <2>2. r(m) \in Nat /\ r(m) <= r(N) /\ r(N) \in Nat /\ r(e) \in Nat
    BY <1>1, <1>6
  <2>3. r(m) - r(e) \in (-c)..c
    BY <1>8, <2>1, <2>2
  <2> QED BY <2>1, <2>3
<1>9. r(e) <= r(N)
  BY <1>1, <1>6
<1> QED BY <1>2, <1>5, <1>7, <1>8, <1>9 DEF r, N

\* A line that is no match keeps no other line, and is itself kept if it is a
\* status line or its entry is.
LEMMA KeptGrows ==
    ASSUME NEW ins \in Seq(Kinds), NEW c \in Nat, NEW k \in Kinds, k # "match"
    PROVE  /\ \A e \in 1..Len(ins) : KeptEntryIn(Append(ins, k), c, e) = KeptEntryIn(ins, c, e)
           /\ StatusLines(Append(ins, k)) \cap 1..Len(ins) = StatusLines(ins)
           /\ KeptIn(Append(ins, k), c) = KeptIn(ins, c) \cup
                {i \in {Len(ins) + 1} :
                   /\ k # "blank"
                   /\ \/ i \in StatusLines(Append(ins, k))
                      \/ /\ Entry(Append(ins, k), i) # 0
                         /\ KeptEntryIn(Append(ins, k), c, Entry(Append(ins, k), i))}
<1> SUFFICES ASSUME NEW all, all = Append(ins, k),
                    NEW N, N = Len(ins)
             PROVE  /\ \A e \in 1..N : KeptEntryIn(all, c, e) = KeptEntryIn(ins, c, e)
                    /\ StatusLines(all) \cap 1..N = StatusLines(ins)
                    /\ KeptIn(all, c) = KeptIn(ins, c) \cup
                         {i \in {N + 1} :
                            /\ k # "blank"
                            /\ \/ i \in StatusLines(all)
                               \/ Entry(all, i) # 0 /\ KeptEntryIn(all, c, Entry(all, i))}
  OBVIOUS
<1>1. /\ N \in Nat /\ all \in Seq(Kinds) /\ Len(all) = N + 1
      /\ all[N + 1] = k /\ \A i \in 1..N : all[i] = ins[i]
  OBVIOUS
<1>2. \A i \in 0..N : Entry(all, i) = Entry(ins, i) /\ RankIn(all, i) = RankIn(ins, i)
                      /\ Entry(ins, i) \in 0..i
  <2>1. \A i \in 0..N : Entry(all, i) = Entry(ins, i) /\ RankIn(all, i) = RankIn(ins, i)
    BY EntryGrows
  <2>2. \A i \in 0..N : Entry(ins, i) \in 0..i
    BY <1>1, EntryIs
  <2> QED BY <2>1, <2>2
<1>3. 1..N + 1 = 1..N \cup {N + 1} /\ \A i \in 1..N : i \in 0..N
  BY <1>1
<1>4. ASSUME NEW e \in 1..N
      PROVE  KeptEntryIn(all, c, e) = KeptEntryIn(ins, c, e)
  <2>1. \A m \in 1..N : all[m] = ins[m] /\ RankIn(all, m) = RankIn(ins, m)
    BY <1>1, <1>2, <1>3
  <2>2. (\E m \in 1..N + 1 : all[m] = "match" /\ RankIn(all, m) - RankIn(all, e) \in (-c)..c)
        <=> \E m \in 1..N : ins[m] = "match" /\ RankIn(ins, m) - RankIn(ins, e) \in (-c)..c
    BY <1>1, <1>3, <2>1
  <2>3. all[e] = ins[e]
    BY <1>1
  <2> QED BY <1>1, <2>2, <2>3 DEF KeptEntryIn
<1>5. StatusLines(all) \cap 1..N = StatusLines(ins)
  <2>1. ASSUME NEW i \in 1..N
        PROVE  i \in StatusLines(all) <=> i \in StatusLines(ins)
    <3>1. all[i] = ins[i] /\ Entry(all, i) = Entry(ins, i) /\ i \in 1..N + 1
      BY <1>1, <1>2, <1>3
    <3> QED BY <1>1, <3>1 DEF StatusLines
  <2>2. StatusLines(ins) \subseteq 1..N
    BY DEF StatusLines
  <2> QED BY <2>1, <2>2
<1>6. ASSUME NEW i \in 1..N
      PROVE  i \in KeptIn(all, c) <=> i \in KeptIn(ins, c)
  <2>1. all[i] = ins[i] /\ Entry(all, i) = Entry(ins, i) /\ i \in 1..N + 1
    BY <1>1, <1>2, <1>3
  <2>2. i \in StatusLines(all) <=> i \in StatusLines(ins)
    BY <1>5
  <2>3. Entry(ins, i) # 0 => KeptEntryIn(all, c, Entry(ins, i)) = KeptEntryIn(ins, c, Entry(ins, i))
    <3>1. Entry(ins, i) # 0 => Entry(ins, i) \in 1..N
      BY <1>1, <1>2, <1>3
    <3> QED BY <1>4, <3>1
  <2> QED BY <1>1, <2>1, <2>2, <2>3 DEF KeptIn
<1>7. N + 1 \in KeptIn(all, c) <=>
        /\ k # "blank"
        /\ \/ N + 1 \in StatusLines(all)
           \/ Entry(all, N + 1) # 0 /\ KeptEntryIn(all, c, Entry(all, N + 1))
  <2>1. N + 1 \in 1..Len(all)
    BY <1>1
  <2> QED BY <1>1, <2>1 DEF KeptIn
<1>8. KeptIn(all, c) \subseteq 1..N \cup {N + 1} /\ KeptIn(ins, c) \subseteq 1..N
  BY <1>1, <1>3 DEF KeptIn
<1> QED BY <1>4, <1>5, <1>6, <1>7, <1>8

\* A match keeps itself and the entries that precede it by no more than the
\* context.
LEMMA MatchKeeps ==
    ASSUME NEW ins \in Seq(Kinds), NEW c \in Nat
    PROVE  /\ StatusLines(Append(ins, "match")) = StatusLines(ins)
           /\ KeptIn(Append(ins, "match"), c) = (KeptIn(ins, c)
                \cup UNION {LinesOf(ins, a) :
                        a \in {b \in 1..RankIn(ins, Len(ins)) : b >= RankIn(ins, Len(ins)) + 1 - c}})
                \cup {Len(ins) + 1}
<1> SUFFICES ASSUME NEW all, all = Append(ins, "match"),
                    NEW N, N = Len(ins),
                    NEW r, r = RankIn(ins, N)
             PROVE  /\ StatusLines(all) = StatusLines(ins)
                    /\ KeptIn(all, c) = (KeptIn(ins, c)
                         \cup UNION {LinesOf(ins, a) : a \in {b \in 1..r : b >= r + 1 - c}})
                         \cup {N + 1}
  OBVIOUS
<1>0. "match" \in Kinds /\ "match" \in Entries /\ "match" \in {"match", "other"}
  BY DEF Kinds, Entries
<1>1. /\ N \in Nat /\ all \in Seq(Kinds) /\ Len(all) = N + 1
      /\ all[N + 1] = "match" /\ \A i \in 1..N : all[i] = ins[i]
  BY DEF Kinds
<1>2. \A i \in 0..N : Entry(all, i) = Entry(ins, i) /\ RankIn(all, i) = RankIn(ins, i)
                      /\ Entry(ins, i) \in 0..i /\ RankIn(ins, i) \in Nat
  <2>1. \A i \in 0..N : Entry(all, i) = Entry(ins, i) /\ RankIn(all, i) = RankIn(ins, i)
    BY <1>0, EntryGrows
  <2>2. \A i \in 0..N : i \in Nat
    BY <1>1
  <2>3. \A i \in 0..N : Entry(ins, i) \in 0..i /\ RankIn(ins, i) \in Nat
    BY <2>2, EntryIs, RankIs
  <2> QED BY <2>1, <2>3
<1>3. 1..N + 1 = 1..N \cup {N + 1} /\ (\A i \in 1..N : i \in 0..N) /\ N \in 0..N
  BY <1>1
<1>4. Entry(all, N + 1) = N + 1 /\ RankIn(all, N + 1) = r + 1 /\ r \in Nat
  BY <1>0, <1>2, <1>3, EntryGrows
<1>5. StatusLines(all) = StatusLines(ins)
  <2>1. ASSUME NEW i \in 1..N
        PROVE  i \in StatusLines(all) <=> i \in StatusLines(ins)
    <3>1. all[i] = ins[i] /\ Entry(all, i) = Entry(ins, i) /\ i \in 1..N + 1
      BY <1>1, <1>2, <1>3
    <3> QED BY <1>1, <3>1 DEF StatusLines
  <2>2. StatusLines(ins) \subseteq 1..N /\ StatusLines(all) \subseteq 1..N \cup {N + 1}
    BY <1>1, <1>3 DEF StatusLines
  <2>3. N + 1 \notin StatusLines(all)
    BY <1>1 DEF StatusLines
  <2> QED BY <2>1, <2>2, <2>3
<1>6. ASSUME NEW e \in 1..N, ins[e] \in Eligible
      PROVE  KeptEntryIn(all, c, e) <=> KeptEntryIn(ins, c, e) \/ RankIn(ins, e) >= r + 1 - c
  <2>1. RankIn(ins, e) \in Nat /\ RankIn(ins, e) <= r /\ RankIn(all, e) = RankIn(ins, e)
        /\ all[e] = ins[e]
    BY <1>1, <1>2, <1>3, RankRises
  <2>2. \A m \in 1..N : all[m] = ins[m] /\ RankIn(all, m) = RankIn(ins, m)
    BY <1>1, <1>2, <1>3
  <2>3. KeptEntryIn(all, c, e) <=>
          \E m \in 1..N + 1 : all[m] = "match" /\ RankIn(all, m) - RankIn(ins, e) \in (-c)..c
    BY <1>1, <1>6, <2>1 DEF KeptEntryIn
  <2>4. KeptEntryIn(ins, c, e) <=>
          \E m \in 1..N : all[m] = "match" /\ RankIn(all, m) - RankIn(ins, e) \in (-c)..c
    BY <1>6, <2>2 DEF KeptEntryIn
  <2>5. KeptEntryIn(all, c, e) <=>
          KeptEntryIn(ins, c, e) \/ (r + 1) - RankIn(ins, e) \in (-c)..c
    BY <1>1, <1>3, <1>4, <2>3, <2>4
  <2>6. (r + 1) - RankIn(ins, e) \in (-c)..c <=> RankIn(ins, e) >= r + 1 - c
    BY <1>4, <2>1
  <2> QED BY <2>5, <2>6
<1> DEFINE Near == UNION {LinesOf(ins, a) : a \in {b \in 1..r : b >= r + 1 - c}}
<1>7. ASSUME NEW i \in 1..N
      PROVE  i \in KeptIn(all, c) <=> i \in KeptIn(ins, c) \/ i \in Near
  <2> DEFINE e == Entry(ins, i)
  <2>1. all[i] = ins[i] /\ Entry(all, i) = e /\ i \in 1..N + 1 /\ e \in 0..N
    BY <1>1, <1>2, <1>3
  <2>2. i \in StatusLines(all) <=> i \in StatusLines(ins)
    BY <1>5
  <2>3. i \in KeptIn(all, c) <=>
          /\ ins[i] # "blank"
          /\ i \in StatusLines(ins) \/ (e # 0 /\ KeptEntryIn(all, c, e))
    BY <1>1, <2>1, <2>2 DEF KeptIn
  <2>4. i \in KeptIn(ins, c) <=>
          /\ ins[i] # "blank"
          /\ i \in StatusLines(ins) \/ (e # 0 /\ KeptEntryIn(ins, c, e))
    BY DEF KeptIn
  <2>5. i \in Near <=>
          /\ ins[i] \notin {"blank", "status"}
          /\ e # 0 /\ ins[e] \in Eligible /\ RankIn(ins, e) >= r + 1 - c
    <3>1. e # 0 /\ ins[e] \in Eligible => RankIn(ins, e) \in 1..r
      <4>1. ASSUME e # 0, ins[e] \in Eligible
            PROVE  RankIn(ins, e) \in 1..r
        <5>1. e \in 1..N /\ e \in Nat /\ 0 \in Nat /\ 0 < e /\ e <= N
          BY <1>1, <2>1, <4>1
        <5>2. RankIn(ins, e) <= r
          BY <1>1, <5>1, RankRises
        <5>3. RankIn(ins, 0) = 0 /\ RankIn(ins, e) \in Nat
          BY <5>1, RankIs
        <5>4. RankIn(ins, 0) < RankIn(ins, e)
          BY <4>1, <5>1, RankRises DEF Eligible
        <5> QED BY <1>4, <5>2, <5>3, <5>4
      <4> QED BY <4>1
    <3>2. i \in Near <=> \E a \in 1..r : a >= r + 1 - c /\ i \in LinesOf(ins, a)
      OBVIOUS
    <3> QED BY <3>1, <3>2 DEF LinesOf
  <2>6. e # 0 /\ ins[e] \in Eligible =>
          (KeptEntryIn(all, c, e) <=> KeptEntryIn(ins, c, e) \/ RankIn(ins, e) >= r + 1 - c)
    <3>1. e # 0 => e \in 1..N
      BY <1>1, <2>1
    <3> QED BY <1>6, <3>1
  <2>7. e # 0 /\ ins[e] \notin Eligible => ~KeptEntryIn(all, c, e) /\ ~KeptEntryIn(ins, c, e)
    <3>1. e # 0 => all[e] = ins[e]
      BY <1>1, <2>1
    <3> QED BY <3>1 DEF KeptEntryIn
  <2>8. ins[i] = "status" => i \in StatusLines(ins)
    BY DEF StatusLines
  <2> HIDE DEF e, Near
  <2> QED BY <2>3, <2>4, <2>5, <2>6, <2>7, <2>8
<1>8. N + 1 \in KeptIn(all, c)
  <2>1. N + 1 \in 1..Len(all) /\ N + 1 # 0
    BY <1>1
  <2>2. KeptEntryIn(all, c, N + 1)
    <3>1. RankIn(all, N + 1) - RankIn(all, N + 1) \in (-c)..c
      BY <1>4
    <3> QED BY <1>1, <2>1, <3>1 DEF KeptEntryIn, Eligible
  <2> QED BY <1>1, <1>4, <2>1, <2>2 DEF KeptIn
<1>9. KeptIn(all, c) \subseteq 1..N \cup {N + 1} /\ KeptIn(ins, c) \subseteq 1..N
      /\ Near \subseteq 1..N
  BY <1>1, <1>3 DEF KeptIn, LinesOf
<1> HIDE DEF Near
<1> QED BY <1>5, <1>7, <1>8, <1>9 DEF Near

\* The lines of an entry stay what they are, but for those that still come to
\* the last one.
LEMMA LinesGrow ==
    ASSUME NEW ins \in Seq(Kinds), NEW k \in Kinds, NEW a
    PROVE  LinesOf(Append(ins, k), a) =
             IF /\ k \notin {"blank", "status"}
                /\ Entry(Append(ins, k), Len(ins) + 1) # 0
                /\ Append(ins, k)[Entry(Append(ins, k), Len(ins) + 1)] \in Eligible
                /\ RankIn(Append(ins, k), Entry(Append(ins, k), Len(ins) + 1)) = a
             THEN LinesOf(ins, a) \cup {Len(ins) + 1}
             ELSE LinesOf(ins, a)
<1> SUFFICES ASSUME NEW all, all = Append(ins, k),
                    NEW N, N = Len(ins)
             PROVE  LinesOf(all, a) =
                      IF /\ k \notin {"blank", "status"}
                         /\ Entry(all, N + 1) # 0
                         /\ all[Entry(all, N + 1)] \in Eligible
                         /\ RankIn(all, Entry(all, N + 1)) = a
                      THEN LinesOf(ins, a) \cup {N + 1}
                      ELSE LinesOf(ins, a)
  OBVIOUS
<1>1. /\ N \in Nat /\ all \in Seq(Kinds) /\ Len(all) = N + 1
      /\ all[N + 1] = k /\ \A i \in 1..N : all[i] = ins[i]
  OBVIOUS
<1>2. \A i \in 0..N : Entry(all, i) = Entry(ins, i) /\ RankIn(all, i) = RankIn(ins, i)
                      /\ Entry(ins, i) \in 0..i
  <2>1. \A i \in 0..N : Entry(all, i) = Entry(ins, i) /\ RankIn(all, i) = RankIn(ins, i)
    BY EntryGrows
  <2>2. \A i \in 0..N : Entry(ins, i) \in 0..i
    BY <1>1, EntryIs
  <2> QED BY <2>1, <2>2
<1>3. 1..N + 1 = 1..N \cup {N + 1} /\ \A i \in 1..N : i \in 0..N
  BY <1>1
<1>4. ASSUME NEW i \in 1..N
      PROVE  i \in LinesOf(all, a) <=> i \in LinesOf(ins, a)
  <2>1. all[i] = ins[i] /\ Entry(all, i) = Entry(ins, i) /\ i \in 1..N + 1
    BY <1>1, <1>2, <1>3
  <2>2. Entry(ins, i) # 0 => /\ all[Entry(ins, i)] = ins[Entry(ins, i)]
                             /\ RankIn(all, Entry(ins, i)) = RankIn(ins, Entry(ins, i))
    <3>1. Entry(ins, i) # 0 => Entry(ins, i) \in 1..N
      BY <1>1, <1>2, <1>3
    <3> QED BY <1>1, <1>2, <1>3, <3>1
  <2> QED BY <1>1, <2>1, <2>2 DEF LinesOf
<1>5. N + 1 \in LinesOf(all, a) <=>
        /\ k \notin {"blank", "status"}
        /\ Entry(all, N + 1) # 0
        /\ all[Entry(all, N + 1)] \in Eligible
        /\ RankIn(all, Entry(all, N + 1)) = a
  <2>1. N + 1 \in 1..Len(all)
    BY <1>1
  <2> QED BY <1>1, <2>1 DEF LinesOf
<1>6. LinesOf(all, a) \subseteq 1..N \cup {N + 1} /\ LinesOf(ins, a) \subseteq 1..N
  BY <1>1, <1>3 DEF LinesOf
<1> DEFINE S == LinesOf(all, a)
           T == LinesOf(ins, a)
<1>7. ASSUME N + 1 \in S PROVE S = T \cup {N + 1}
  BY <1>4, <1>6, <1>7
<1>8. ASSUME N + 1 \notin S PROVE S = T
  BY <1>1, <1>4, <1>6, <1>8
<1> HIDE DEF S, T
<1>9. S = IF N + 1 \in S THEN T \cup {N + 1} ELSE T
  BY <1>7, <1>8
<1> QED BY <1>5, <1>9 DEF S, T

\* Lines of a later entry are later.
LEMMA LinesInOrder ==
    ASSUME NEW ins \in Seq(Kinds), NEW i \in 1..Len(ins), NEW j \in 1..Len(ins),
           Entry(ins, i) # 0, Entry(ins, j) # 0,
           RankIn(ins, Entry(ins, i)) < RankIn(ins, Entry(ins, j))
    PROVE  i < j
<1> DEFINE e == Entry(ins, i)
           f == Entry(ins, j)
<1>1. e \in Nat /\ f \in Nat /\ e \in 1..i /\ f \in 1..j
      /\ ins[e] \in Entries /\ \A d \in 1..j : ins[d] \in Entries => d <= f
  BY EntryIs
<1> HIDE DEF e, f
<1>2. RankIn(ins, e) < RankIn(ins, f) /\ RankIn(ins, e) \in Nat /\ RankIn(ins, f) \in Nat
  BY <1>1, RankIs DEF e, f
<1>3. ~(f <= e)
  <2>1. f <= e => RankIn(ins, f) <= RankIn(ins, e)
    BY <1>1, RankRises
  <2> QED BY <1>2, <2>1
<1>4. CASE j <= i
  <2>1. f \in 1..i /\ ins[f] \in Entries
    BY <1>1, <1>4, EntryIs DEF f
  <2>2. e \in 1..j => e <= f
    BY <1>1
  <2>3. f <= e
    <3>1. \A d \in 1..i : ins[d] \in Entries => d <= e
      BY EntryIs DEF e
    <3> QED BY <2>1, <3>1
  <2> QED BY <1>3, <2>3
<1> QED BY <1>4

----------------------------------------------------------------------------
(* The parts of the inductive invariant, for the lines ins *)

\* The held blocks are those of the last entries that no match reaches, as
\* many of them as the context asks for.
HeldIs(ins, c, K, bs) ==
    LET r == RankIn(ins, Len(ins))
    IN /\ bs \in Seq(Seq(Nat))
       /\ Len(bs) = IF r <= K THEN 0 ELSE IF r - K < c THEN r - K ELSE c
       /\ \A k \in 1..Len(bs) : Lists(bs[k], LinesOf(ins, r - Len(bs) + k))

\* The decision for the current entry.
StateIs(ins, K, st) ==
    LET e == Entry(ins, Len(ins))
        r == RankIn(ins, Len(ins))
    IN /\ st \in {"keep", "buffer", "drop"}
       /\ st = "keep" => e # 0 /\ ins[e] \in Eligible /\ r <= K
       /\ st = "buffer" => e # 0 /\ ins[e] \in Eligible /\ r > K
       /\ st = "drop" => e = 0 \/ ins[e] \notin Eligible

\* The last L numbers up to r, counted from the first of them.
LEMMA FromEnd ==
    ASSUME NEW r \in Nat, NEW L \in 0..r, NEW a \in (r - L + 1)..r
    PROVE  \E k \in 1..L : a = r - L + k
<1>1. a - (r - L) \in 1..L /\ a = r - L + (a - (r - L))
  OBVIOUS
<1> QED BY <1>1

\* What is held, flattened: the lines of the last entries beyond the reach.
LEMMA HeldLists ==
    ASSUME NEW ins \in Seq(Kinds), NEW c \in Nat, NEW K \in Nat, NEW bs, HeldIs(ins, c, K, bs),
           NEW r, r = RankIn(ins, Len(ins)), NEW L, L = Len(bs)
    PROVE  /\ r \in Nat /\ L \in 0..r
           /\ Lists(FlattenSeq(bs), LinesBetween(ins, r - L + 1, r))
<1> DEFINE T == [k \in 1..L |-> LinesOf(ins, r - L + k)]
<1>1. r \in Nat
  BY RankIs
<1>2. /\ bs \in Seq(Seq(Nat))
      /\ L = IF r <= K THEN 0 ELSE IF r - K < c THEN r - K ELSE c
      /\ \A k \in 1..L : Lists(bs[k], LinesOf(ins, r - L + k))
  BY DEF HeldIs
<1>3. L \in 0..r
  BY <1>1, <1>2
<1>4. \A k \in 1..Len(bs) : Lists(bs[k], T[k])
  BY <1>2
<1>5. \A j, k \in 1..Len(bs) : j < k => \A x \in T[j], y \in T[k] : x < y
  <2> SUFFICES ASSUME NEW j \in 1..L, NEW k \in 1..L, j < k, NEW x \in T[j], NEW y \in T[k]
               PROVE  x < y
    OBVIOUS
  <2>1. x \in LinesOf(ins, r - L + j) /\ y \in LinesOf(ins, r - L + k)
    OBVIOUS
  <2>2. /\ x \in 1..Len(ins) /\ y \in 1..Len(ins) /\ Entry(ins, x) # 0 /\ Entry(ins, y) # 0
        /\ RankIn(ins, Entry(ins, x)) = r - L + j /\ RankIn(ins, Entry(ins, y)) = r - L + k
    BY <2>1 DEF LinesOf
  <2>3. r - L + j < r - L + k
    BY <1>1, <1>3
  <2> QED BY <2>2, <2>3, LinesInOrder
<1>6. Lists(FlattenSeq(bs), UNION {T[k] : k \in 1..Len(bs)})
  <2> HIDE DEF T
  <2> QED BY <1>2, <1>4, <1>5, ListsFlatten
<1>7. UNION {T[k] : k \in 1..Len(bs)} = LinesBetween(ins, r - L + 1, r)
  <2>1. ASSUME NEW k \in 1..L
        PROVE  r - L + k \in (r - L + 1)..r /\ T[k] = LinesOf(ins, r - L + k)
    BY <1>1, <1>3
  <2>2. ASSUME NEW a \in (r - L + 1)..r
        PROVE  \E k \in 1..L : T[k] = LinesOf(ins, a)
    <3>1. PICK k \in 1..L : a = r - L + k
      BY <1>1, <1>3, FromEnd
    <3> QED BY <3>1
  <2> DEFINE U == UNION {T[k] : k \in 1..L}
             S == UNION {LinesOf(ins, a) : a \in (r - L + 1)..r}
  <2> HIDE DEF T
  <2>3. ASSUME NEW x \in U PROVE x \in S
    <3>1. PICK k \in 1..L : x \in T[k]
      OBVIOUS
    <3>2. r - L + k \in (r - L + 1)..r /\ x \in LinesOf(ins, r - L + k)
      BY <2>1, <3>1
    <3> QED BY <3>2
  <2>4. ASSUME NEW x \in S PROVE x \in U
    <3>1. PICK a \in (r - L + 1)..r : x \in LinesOf(ins, a)
      OBVIOUS
    <3> QED BY <2>2, <3>1
  <2>5. U = S
    <3> HIDE DEF U, S
    <3> QED BY <2>3, <2>4
  <2> QED BY <2>5 DEF LinesBetween
<1> QED BY <1>1, <1>3, <1>6, <1>7

\* No line belongs to an entry that has not come.
LEMMA NoLinesAhead ==
    ASSUME NEW ins \in Seq(Kinds), NEW a, a > RankIn(ins, Len(ins)), a \in Nat
    PROVE  LinesOf(ins, a) = {}
<1> SUFFICES ASSUME NEW i \in LinesOf(ins, a) PROVE FALSE
  OBVIOUS
<1>1. /\ i \in 1..Len(ins) /\ Entry(ins, i) # 0 /\ RankIn(ins, Entry(ins, i)) = a
      /\ Len(ins) \in Nat /\ i \in Nat
  BY DEF LinesOf
<1>2. Entry(ins, i) \in 0..i
  BY <1>1, EntryIs
<1>3. Entry(ins, i) \in Nat /\ Entry(ins, i) <= Len(ins)
  BY <1>1, <1>2
<1>4. a <= RankIn(ins, Len(ins)) /\ RankIn(ins, Len(ins)) \in Nat
  BY <1>1, <1>3, RankRises, RankIs
<1> QED BY <1>4

\* A line that is no match moves no match's reach.
LEMMA ReachStays ==
    ASSUME NEW ins \in Seq(Kinds), NEW c \in Nat, NEW K, ReachIs(ins, c, K),
           NEW k \in Kinds, k # "match"
    PROVE  ReachIs(Append(ins, k), c, K)
<1> SUFFICES ASSUME NEW all, all = Append(ins, k), NEW N, N = Len(ins)
             PROVE  ReachIs(all, c, K)
  OBVIOUS
<1>1. /\ N \in Nat /\ Len(all) = N + 1 /\ all[N + 1] = k /\ \A i \in 1..N : all[i] = ins[i]
      /\ 1..N + 1 = 1..N \cup {N + 1} /\ \A i \in 1..N : i \in 0..N
  OBVIOUS
<1>2. \A i \in 1..N : RankIn(all, i) = RankIn(ins, i)
  BY <1>1, EntryGrows
<1>3. \A m \in 1..N + 1 : all[m] = "match" =>
        m \in 1..N /\ ins[m] = "match" /\ RankIn(all, m) = RankIn(ins, m)
  BY <1>1, <1>2
<1>4. \A m \in 1..N : ins[m] = "match" =>
        m \in 1..N + 1 /\ all[m] = "match" /\ RankIn(all, m) = RankIn(ins, m)
  BY <1>1, <1>2
<1> QED BY <1>1, <1>3, <1>4 DEF ReachIs

\* A match reaches as far as the context from itself.
LEMMA ReachMoves ==
    ASSUME NEW ins \in Seq(Kinds), NEW c \in Nat
    PROVE  ReachIs(Append(ins, "match"), c, RankIn(ins, Len(ins)) + 1 + c)
<1> SUFFICES ASSUME NEW all, all = Append(ins, "match"), NEW N, N = Len(ins),
                    NEW r, r = RankIn(ins, N)
             PROVE  ReachIs(all, c, r + 1 + c)
  OBVIOUS
<1>1. N \in Nat /\ N + 1 \in Nat /\ Len(all) = N + 1 /\ all[N + 1] = "match"
  OBVIOUS
<1>2. RankIn(all, N + 1) = r + 1
  BY EntryGrows DEF Kinds
<1>3. r \in Nat
  BY <1>1, RankIs
<1>4. ASSUME NEW m \in 1..N + 1
      PROVE  RankIn(all, m) + c <= r + 1 + c
  <2>1. m \in Nat /\ m <= N + 1
    BY <1>1
  <2>2. RankIn(all, m) <= RankIn(all, N + 1) /\ RankIn(all, m) \in Nat
    BY <1>1, <2>1, RankIs, RankRises
  <2> QED BY <1>2, <1>3, <2>2
<1>5. N + 1 \in 1..N + 1 /\ r + 1 + c \in Nat /\ r + 1 + c = RankIn(all, N + 1) + c
  BY <1>1, <1>2, <1>3
<1> QED BY <1>1, <1>4, <1>5 DEF ReachIs

\* A line that is no entry, and no continuation of one that is held, leaves the
\* held blocks as they were.
LEMMA HeldStays ==
    ASSUME NEW ins \in Seq(Kinds), NEW c \in Nat, NEW K \in Nat, NEW bs, HeldIs(ins, c, K, bs),
           NEW k \in Kinds \ Eligible,
           \/ k \in {"blank", "status"}
           \/ Entry(Append(ins, k), Len(ins) + 1) = 0
           \/ Append(ins, k)[Entry(Append(ins, k), Len(ins) + 1)] \notin Eligible
           \/ RankIn(ins, Len(ins)) <= K
           \/ c = 0
    PROVE  HeldIs(Append(ins, k), c, K, bs)
<1> SUFFICES ASSUME NEW all, all = Append(ins, k), NEW N, N = Len(ins),
                    NEW r, r = RankIn(ins, N)
             PROVE  HeldIs(all, c, K, bs)
  OBVIOUS
<1>1. N \in Nat /\ Len(all) = N + 1
  OBVIOUS
<1>2. RankIn(all, N + 1) = r /\ r \in Nat
  BY <1>1, EntryGrows, RankIs DEF Eligible
<1>3. /\ bs \in Seq(Seq(Nat))
      /\ Len(bs) = IF r <= K THEN 0 ELSE IF r - K < c THEN r - K ELSE c
      /\ \A j \in 1..Len(bs) : Lists(bs[j], LinesOf(ins, r - Len(bs) + j))
  BY DEF HeldIs
<1>4. CASE r <= K \/ c = 0
  <2>1. Len(bs) = 0 /\ 1..Len(bs) = {}
    BY <1>2, <1>3, <1>4
  <2>2. RankIn(all, Len(all)) = r
    BY <1>1, <1>2
  <2> QED BY <1>3, <2>1, <2>2 DEF HeldIs
<1>5. CASE ~(r <= K \/ c = 0)
  <2>1. ~(/\ k \notin {"blank", "status"}
          /\ Entry(all, N + 1) # 0
          /\ all[Entry(all, N + 1)] \in Eligible)
    BY <1>5
  <2>2. ASSUME NEW a
        PROVE  LinesOf(all, a) = LinesOf(ins, a)
    BY <2>1, LinesGrow
  <2>3. RankIn(all, Len(all)) = r
    BY <1>1, <1>2
  <2> QED BY <1>3, <2>2, <2>3 DEF HeldIs
<1> QED BY <1>4, <1>5

\* A line that is no entry leaves the decision as it was.
LEMMA StateStays ==
    ASSUME NEW ins \in Seq(Kinds), NEW K, NEW st, StateIs(ins, K, st),
           NEW k \in Kinds \ Entries
    PROVE  StateIs(Append(ins, k), K, st)
<1> SUFFICES ASSUME NEW all, all = Append(ins, k), NEW N, N = Len(ins),
                    NEW e, e = Entry(ins, N)
             PROVE  StateIs(all, K, st)
  OBVIOUS
<1>1. N \in Nat /\ Len(all) = N + 1 /\ \A i \in 1..N : all[i] = ins[i]
  OBVIOUS
<1>2. RankIn(all, N + 1) = RankIn(ins, N) /\ Entry(all, N + 1) = e
  BY EntryGrows DEF Entries
<1>3. e # 0 => all[e] = ins[e]
  <2>1. e \in 0..N
    BY <1>1, EntryIs
  <2> QED BY <1>1, <2>1
<1> QED BY <1>1, <1>2, <1>3 DEF StateIs

\* More status lines leave what was returned as it should be.
LEMMA ReturnedStays ==
    ASSUME NEW o, NEW A, NEW St, Returned(o, A, St), NEW Su, St \subseteq Su
    PROVE  Returned(o, A, Su)
BY DEF Returned

\* The rank of the current entry, if it is eligible, is the last one.
LEMMA LastRank ==
    ASSUME NEW ins \in Seq(Kinds), NEW e, e = Entry(ins, Len(ins)), e # 0
    PROVE  e \in 1..Len(ins) /\ RankIn(ins, e) = RankIn(ins, Len(ins))
<1>1. Len(ins) \in Nat
  OBVIOUS
<1>2. e \in 1..Len(ins) /\ \A d \in 1..Len(ins) : ins[d] \in Entries => d <= e
  BY <1>1, EntryIs
<1>3. \A d \in e + 1..Len(ins) : ins[d] \notin {"match", "other"}
  <2> TAKE d \in e + 1..Len(ins)
  <2>1. d \in 1..Len(ins) /\ ~(d <= e)
    BY <1>1, <1>2
  <2>2. ins[d] \notin Entries
    BY <1>2, <2>1
  <2> QED BY <2>2 DEF Entries
<1>4. e \in Nat /\ e <= Len(ins)
  BY <1>1, <1>2
<1> QED BY <1>1, <1>2, <1>3, <1>4, RankRises

----------------------------------------------------------------------------
(* The inductive invariant *)

FilterInvK(K) ==
    /\ context \in Nat
    /\ input \in Seq(Kinds)
    /\ ReachIs(input, context, K)
    /\ after = IF RankIn(input, Len(input)) < K THEN K - RankIn(input, Len(input)) ELSE 0
    /\ HeldIs(input, context, K, before)
    /\ StateIs(input, K, state)
    /\ seen_entry = (Entry(input, Len(input)) # 0)
    /\ Returned(out, KeptIn(input, context), StatusLines(input))

FilterInv == \E K \in Nat : FilterInvK(K)

LEMMA FilterInvInit == FilterInit => FilterInv
<1> SUFFICES ASSUME FilterInit PROVE FilterInvK(0)
  BY DEF FilterInv
<1>1. context \in Nat /\ input = <<>> /\ input \in Seq(Kinds) /\ Len(input) = 0
  BY ContextsAreNat DEF FilterInit
<1>2. Entry(input, 0) = 0 /\ RankIn(input, 0) = 0
  <2>1. Entry(input, 0) \in 0..0
    BY EntryIs
  <2>2. 0 \in Nat
    OBVIOUS
  <2> QED BY <2>1, <2>2, RankIs
<1>3. KeptIn(input, context) = {} /\ StatusLines(input) = {}
  BY <1>1 DEF KeptIn, StatusLines
<1>4. ReachIs(input, context, 0)
  BY <1>1 DEF ReachIs
<1>5. HeldIs(input, context, 0, before)
  <2>1. before = <<>> /\ before \in Seq(Seq(Nat)) /\ Len(before) = 0
    BY DEF FilterInit
  <2> QED BY <1>1, <1>2, <2>1 DEF HeldIs
<1>6. StateIs(input, 0, state)
  BY <1>1, <1>2 DEF FilterInit, StateIs
<1>7. Returned(out, {}, {})
  <2>1. out = <<>> /\ out \in Seq(Nat) /\ DOMAIN out = {}
    BY DEF FilterInit
  <2> QED BY <2>1 DEF Returned
<1>8. after = IF RankIn(input, Len(input)) < 0 THEN 0 - RankIn(input, Len(input)) ELSE 0
  BY <1>1, <1>2 DEF FilterInit
<1>9. seen_entry = (Entry(input, Len(input)) # 0)
  BY <1>1, <1>2 DEF FilterInit
<1>10. Returned(out, KeptIn(input, context), StatusLines(input))
  BY <1>3, <1>7
<1> QED BY <1>1, <1>4, <1>5, <1>6, <1>8, <1>9, <1>10 DEF FilterInvK

\* A line that keeps nothing new and changes nothing that is held.
LEMMA QuietInv ==
    ASSUME NEW K \in Nat, FilterInvK(K), NEW k \in Kinds, k # "match", Fed(k),
           UNCHANGED out,
           after' = IF RankIn(input', Len(input')) < K THEN K - RankIn(input', Len(input')) ELSE 0,
           seen_entry' = (Entry(input', Len(input')) # 0),
           StateIs(input', K, state'),
           \/ k = "blank"
           \/ /\ k # "status"
              /\ k = "indent" => Entry(input', Len(input')) # 0
              /\ ~KeptEntryIn(input', context, Entry(input', Len(input'))),
           HeldIs(input', context, K, before')
    PROVE  FilterInv'
<1> DEFINE all == Append(input, k)
           N == Len(input)
<1>1. /\ input' = all /\ context' = context /\ input \in Seq(Kinds) /\ context \in Nat
      /\ all \in Seq(Kinds) /\ Len(all) = N + 1 /\ N \in Nat
      /\ all[N + 1] = k
  BY DEF Fed, FilterInvK
<1>3. ReachIs(all, context, K)
  BY <1>1, ReachStays DEF FilterInvK
<1>5. Returned(out, KeptIn(all, context), StatusLines(all))
  <2>1. KeptIn(all, context) = KeptIn(input, context)
    <3> DEFINE Come == {i \in {N + 1} :
                          /\ k # "blank"
                          /\ \/ i \in StatusLines(all)
                             \/ Entry(all, i) # 0 /\ KeptEntryIn(all, context, Entry(all, i))}
    <3>1. ~(/\ k # "blank"
            /\ \/ N + 1 \in StatusLines(all)
               \/ Entry(all, N + 1) # 0 /\ KeptEntryIn(all, context, Entry(all, N + 1)))
      BY <1>1 DEF StatusLines
    <3>2. Come = {}
      BY <3>1
    <3>3. KeptIn(all, context) = KeptIn(input, context) \cup Come
      BY <1>1, KeptGrows
    <3> QED BY <3>2, <3>3
  <2>2. StatusLines(input) \subseteq StatusLines(all)
    BY <1>1, KeptGrows
  <2> QED BY <2>1, <2>2, ReturnedStays DEF FilterInvK
<1>6. FilterInvK(K)'
  BY <1>1, <1>3, <1>5 DEF FilterInvK
<1> QED BY <1>6 DEF FilterInv

\* A line that is returned at once, for itself or for its entry.
LEMMA ReturnedInv ==
    ASSUME NEW K \in Nat, FilterInvK(K), NEW k \in Kinds, k # "match", k # "blank", Fed(k),
           Emit(<<Line>>),
           after' = IF RankIn(input', Len(input')) < K THEN K - RankIn(input', Len(input')) ELSE 0,
           seen_entry' = (Entry(input', Len(input')) # 0),
           StateIs(input', K, state'),
           \/ Len(input') \in StatusLines(input')
           \/ /\ Entry(input', Len(input')) # 0
              /\ KeptEntryIn(input', context, Entry(input', Len(input'))),
           HeldIs(input', context, K, before')
    PROVE  FilterInv'
<1> DEFINE all == Append(input, k)
           N == Len(input)
           A == KeptIn(input, context)
<1>1. /\ input' = all /\ context' = context /\ input \in Seq(Kinds) /\ context \in Nat
      /\ all \in Seq(Kinds) /\ Len(all) = N + 1 /\ N \in Nat
      /\ all[N + 1] = k
  BY DEF Fed, FilterInvK
<1>2. ReachIs(all, context, K)
  BY <1>1, ReachStays DEF FilterInvK
<1>3. KeptIn(all, context) = A \cup {N + 1} /\ StatusLines(input) \subseteq StatusLines(all)
  <2>1. /\ k # "blank"
        /\ \/ N + 1 \in StatusLines(all)
           \/ Entry(all, N + 1) # 0 /\ KeptEntryIn(all, context, Entry(all, N + 1))
    BY <1>1
  <2> QED BY <1>1, <2>1, KeptGrows
<1>4. Returned(out, A, StatusLines(input))
  BY DEF FilterInvK
<1>5. Returned(out', A \cup {N + 1}, StatusLines(all))
  <2>1. out' = (out \o Gap) \o <<N + 1>> /\ Gap \in {<<>>, <<Separator>>}
    BY DEF Emit, Line, Gap
  <2>2. Lists(<<N + 1>>, {N + 1}) /\ 0 \notin {N + 1}
    BY <1>1, ListsOne
  <2>3. A \subseteq 1..N
    BY DEF KeptIn
  <2>4. \A a \in A, b \in {N + 1} : a # b /\ a < b
    BY <1>1, <2>3
  <2> HIDE DEF A, N, all
  <2> QED BY <1>3, <1>4, <2>1, <2>2, <2>4, ReturnedGrows
<1>6. FilterInvK(K)'
  BY <1>1, <1>2, <1>3, <1>5 DEF FilterInvK
<1> QED BY <1>6 DEF FilterInv

----------------------------------------------------------------------------
(* Every action keeps the invariant *)

\* What is fed is the next line; what the invariant says is said of it.
LEMMA Feeds ==
    ASSUME NEW K \in Nat, FilterInvK(K), NEW k \in Kinds, Fed(k)
    PROVE  /\ input' = Append(input, k) /\ context' = context
           /\ input \in Seq(Kinds) /\ Append(input, k) \in Seq(Kinds)
           /\ context \in Nat /\ Len(input) \in Nat /\ RankIn(input, Len(input)) \in Nat
           /\ Len(Append(input, k)) = Len(input) + 1
           /\ Append(input, k)[Len(input) + 1] = k
           /\ \A i \in 1..Len(input) : Append(input, k)[i] = input[i]
           /\ Entry(Append(input, k), Len(input) + 1) =
                IF k \in Entries THEN Len(input) + 1 ELSE Entry(input, Len(input))
           /\ RankIn(Append(input, k), Len(input) + 1) =
                IF k \in Eligible THEN RankIn(input, Len(input)) + 1
                                  ELSE RankIn(input, Len(input))
<1>1. input' = Append(input, k) /\ context' = context /\ input \in Seq(Kinds) /\ context \in Nat
  BY DEF Fed, FilterInvK
<1>2. RankIn(input, Len(input)) \in Nat
  BY <1>1, RankIs
<1> QED BY <1>1, <1>2, EntryGrows DEF Eligible

LEMMA BlankInv == ASSUME FilterInv, Blank PROVE FilterInv'
<1>1. PICK K \in Nat : FilterInvK(K)
  BY DEF FilterInv
<1> DEFINE all == Append(input, "blank")
           N == Len(input)
<1>2. "blank" \in Kinds /\ "blank" # "match" /\ "blank" \notin Entries /\ "blank" \notin Eligible
  BY DEF Kinds, Entries, Eligible
<1>3. Fed("blank") /\ UNCHANGED <<out, before, after, state, seen_entry>>
  BY DEF Blank, Nothing
<1>4. /\ input' = all /\ input \in Seq(Kinds) /\ context \in Nat /\ Len(all) = N + 1
      /\ Entry(all, N + 1) = Entry(input, N) /\ RankIn(all, N + 1) = RankIn(input, N)
  BY <1>1, <1>2, <1>3, Feeds
<1>5. StateIs(all, K, state)
  BY <1>1, <1>2, <1>4, StateStays DEF FilterInvK
<1>6. HeldIs(all, context, K, before)
  BY <1>1, <1>2, <1>4, HeldStays DEF FilterInvK
<1>7. /\ after' = IF RankIn(all, N + 1) < K THEN K - RankIn(all, N + 1) ELSE 0
      /\ seen_entry' = (Entry(all, N + 1) # 0)
  BY <1>1, <1>3, <1>4 DEF FilterInvK
<1> HIDE DEF all
<1> QED BY <1>1, <1>2, <1>3, <1>4, <1>5, <1>6, <1>7, QuietInv

LEMMA IneligibleInv == ASSUME FilterInv, Ineligible PROVE FilterInv'
<1>1. PICK K \in Nat : FilterInvK(K)
  BY DEF FilterInv
<1> DEFINE all == Append(input, "ineligible")
           N == Len(input)
<1>2. /\ "ineligible" \in Kinds /\ "ineligible" # "match" /\ "ineligible" \in Entries
      /\ "ineligible" \notin Eligible
  BY DEF Kinds, Entries, Eligible
<1>3. Fed("ineligible") /\ UNCHANGED <<out, before, after>> /\ state' = "drop" /\ seen_entry' = TRUE
  BY DEF Ineligible, Nothing
<1>4. /\ input' = all /\ input \in Seq(Kinds) /\ context \in Nat /\ Len(all) = N + 1
      /\ Entry(all, N + 1) = N + 1 /\ RankIn(all, N + 1) = RankIn(input, N)
      /\ all[N + 1] = "ineligible" /\ N \in Nat /\ N + 1 # 0
  BY <1>1, <1>2, <1>3, Feeds
<1>5. StateIs(all, K, "drop")
  BY <1>2, <1>4 DEF StateIs
<1>6. HeldIs(all, context, K, before)
  <2>1. all[Entry(all, N + 1)] \notin Eligible
    BY <1>2, <1>4
  <2> QED BY <1>1, <1>2, <1>4, <2>1, HeldStays DEF FilterInvK
<1>7. /\ after' = IF RankIn(all, N + 1) < K THEN K - RankIn(all, N + 1) ELSE 0
      /\ seen_entry' = (Entry(all, N + 1) # 0)
  BY <1>1, <1>3, <1>4 DEF FilterInvK
<1>8. ~KeptEntryIn(all, context, Entry(all, N + 1))
  BY <1>2, <1>4 DEF KeptEntryIn
<1> HIDE DEF all
<1> QED BY <1>1, <1>2, <1>3, <1>4, <1>5, <1>6, <1>7, <1>8, QuietInv

LEMMA StatusInv == ASSUME FilterInv, Status PROVE FilterInv'
<1>1. PICK K \in Nat : FilterInvK(K)
  BY DEF FilterInv
<1> SUFFICES ASSUME NEW k \in {"status", "indent"}, Fed(k),
                    k = "indent" => ~seen_entry
             PROVE  FilterInv'
  BY DEF Status
<1> DEFINE all == Append(input, k)
           N == Len(input)
<1>2. k \in Kinds /\ k # "match" /\ k # "blank" /\ k \notin Entries /\ k \notin Eligible
  BY DEF Kinds, Entries, Eligible
<1>3. Emit(<<Line>>) /\ UNCHANGED <<before, after, state, seen_entry>>
  BY DEF Status
<1>4. /\ input' = all /\ input \in Seq(Kinds) /\ context \in Nat /\ Len(all) = N + 1
      /\ Entry(all, N + 1) = Entry(input, N) /\ RankIn(all, N + 1) = RankIn(input, N)
      /\ all[N + 1] = k /\ N \in Nat
  BY <1>1, <1>2, Feeds
<1>5. StateIs(all, K, state)
  BY <1>1, <1>2, <1>4, StateStays DEF FilterInvK
<1>6. k = "indent" => Entry(all, N + 1) = 0
  BY <1>1, <1>4 DEF FilterInvK
<1>7. HeldIs(all, context, K, before)
  <2>1. k = "status" \/ Entry(all, N + 1) = 0
    BY <1>6
  <2> QED BY <1>1, <1>2, <1>4, <2>1, HeldStays DEF FilterInvK
<1>8. /\ after' = IF RankIn(all, N + 1) < K THEN K - RankIn(all, N + 1) ELSE 0
      /\ seen_entry' = (Entry(all, N + 1) # 0)
  BY <1>1, <1>3, <1>4 DEF FilterInvK
<1>9. N + 1 \in StatusLines(all)
  <2>1. N + 1 \in 1..Len(all)
    BY <1>4
  <2> QED BY <1>4, <1>6, <2>1 DEF StatusLines
<1> HIDE DEF all
<1> QED BY <1>1, <1>2, <1>3, <1>4, <1>5, <1>7, <1>8, <1>9, ReturnedInv

\* The three fates of a continuation line.
LEMMA ContinuationInv == ASSUME FilterInv, Continuation PROVE FilterInv'
<1>1. PICK K \in Nat : FilterInvK(K)
  BY DEF FilterInv
<1> DEFINE all == Append(input, "indent")
           N == Len(input)
           r == RankIn(input, N)
           e == Entry(input, N)
<1>2. /\ "indent" \in Kinds /\ "indent" # "match" /\ "indent" # "blank" /\ "indent" # "status"
      /\ "indent" \notin Entries /\ "indent" \notin Eligible
  BY DEF Kinds, Entries, Eligible
<1>3. seen_entry /\ Fed("indent") /\ UNCHANGED <<seen_entry, after, state>>
  BY DEF Continuation
<1>4. /\ input' = all /\ input \in Seq(Kinds) /\ all \in Seq(Kinds) /\ context \in Nat
      /\ Len(all) = N + 1 /\ Entry(all, N + 1) = e /\ RankIn(all, N + 1) = r
      /\ all[N + 1] = "indent" /\ N \in Nat /\ r \in Nat
      /\ \A i \in 1..N : all[i] = input[i]
  BY <1>1, <1>2, <1>3, Feeds
<1>5. StateIs(all, K, state) /\ StateIs(input, K, state)
  BY <1>1, <1>2, <1>4, StateStays DEF FilterInvK
<1>6. e # 0 /\ seen_entry' = (Entry(all, N + 1) # 0)
  BY <1>1, <1>3, <1>4 DEF FilterInvK
<1>7. e \in 1..N /\ RankIn(input, e) = r /\ all[e] = input[e]
  BY <1>4, <1>6, LastRank
<1>8. RankIn(all, e) = r
  <2>1. e \in 0..Len(input)
    BY <1>4, <1>7
  <2> QED BY <1>2, <1>4, <1>7, <2>1, EntryGrows
<1>9. after' = IF RankIn(all, N + 1) < K THEN K - RankIn(all, N + 1) ELSE 0
  BY <1>1, <1>3, <1>4 DEF FilterInvK
<1>10. ReachIs(all, context, K) /\ HeldIs(input, context, K, before)
  BY <1>1, <1>2, <1>4, ReachStays DEF FilterInvK
<1>11. e \in 1..Len(all)
  BY <1>4, <1>7
<1> HIDE DEF all, N, r, e
<1>12. CASE state = "keep"
  <2>1. input[e] \in Eligible /\ r <= K
    BY <1>5, <1>12 DEF StateIs, e, N, r
  <2>2. KeptEntryIn(all, context, e)
    <3>1. RankIn(all, e) <= K /\ RankIn(all, Len(all)) - context <= RankIn(all, e)
      BY <1>4, <1>8, <2>1
    <3> QED BY <1>4, <1>7, <1>10, <1>11, <2>1, <3>1, KeptIfReached
  <2>3. HeldIs(all, context, K, before)
    BY <1>2, <1>4, <1>10, <2>1, HeldStays DEF all, N, r
  <2>4. Emit(<<Line>>) /\ UNCHANGED before
    BY <1>12 DEF Continuation
  <2> QED BY <1>1, <1>2, <1>3, <1>4, <1>5, <1>6, <1>9, <2>2, <2>3, <2>4, ReturnedInv
<1>13. CASE state = "buffer"
  <2>1. input[e] \in Eligible /\ r > K
    BY <1>5, <1>13 DEF StateIs, e, N, r
  <2>2. ~KeptEntryIn(all, context, e)
    <3>1. ~(RankIn(all, e) <= K)
      BY <1>4, <1>8, <2>1
    <3> QED BY <1>4, <1>7, <1>10, <1>11, <2>1, <3>1, KeptIfReached
  <2>3. UNCHANGED out
    BY <1>13 DEF Continuation
  <2>4. HeldIs(all, context, K, before')
    <3>1. CASE context = 0
      <4>1. UNCHANGED before
        BY <1>13, <3>1 DEF Continuation
      <4> QED BY <1>2, <1>4, <1>10, <3>1, <4>1, HeldStays DEF all, N, r
    <3>2. CASE context # 0
      <4> DEFINE L == Len(before)
      <4>1. before' = [before EXCEPT ![L] = Append(@, N + 1)]
        BY <1>4, <1>13, <3>2 DEF Continuation, Line, N
      <4>2. /\ before \in Seq(Seq(Nat))
            /\ L = IF r - K < context THEN r - K ELSE context
            /\ \A j \in 1..L : Lists(before[j], LinesOf(input, r - L + j))
        <5>1. ~(r <= K)
          BY <1>4, <2>1
        <5> QED BY <1>10, <5>1 DEF HeldIs, r, N
      <4>3. L \in Nat \ {0} /\ L \in 1..L
        BY <1>4, <2>1, <3>2, <4>2
      <4> HIDE DEF L
      <4>4. /\ before' \in Seq(Seq(Nat)) /\ Len(before') = L
            /\ before'[L] = Append(before[L], N + 1)
            /\ \A j \in 1..L : j # L => before'[j] = before[j]
        BY <1>4, <4>1, <4>2, <4>3 DEF L
      <4>6. LinesOf(all, r) = LinesOf(input, r) \cup {N + 1}
        <5>1. /\ "indent" \notin {"blank", "status"} /\ Entry(all, N + 1) # 0
              /\ all[Entry(all, N + 1)] \in Eligible /\ RankIn(all, Entry(all, N + 1)) = r
          BY <1>4, <1>6, <1>7, <1>8, <2>1
        <5> QED BY <1>2, <1>4, <5>1, LinesGrow DEF all, N
      <4>7. ASSUME NEW a, a # r
            PROVE  LinesOf(all, a) = LinesOf(input, a)
        <5>1. RankIn(all, Entry(all, N + 1)) # a
          BY <1>4, <1>8, <4>7
        <5> QED BY <1>2, <1>4, <5>1, LinesGrow DEF all, N
      <4>8. ASSUME NEW j \in 1..L
            PROVE  Lists(before'[j], LinesOf(all, r - L + j))
        <5>1. CASE j = L
          <6>1. r - L + j = r
            BY <1>4, <4>3, <5>1
          <6>2. \A y \in LinesOf(input, r) : y < N + 1
            BY <1>4 DEF LinesOf, N
          <6>3. Lists(before[j], LinesOf(input, r - L + j))
            BY <4>2, <4>8
          <6>4. Lists(before[L], LinesOf(input, r)) /\ N + 1 \in Nat
            BY <1>4, <5>1, <6>1, <6>3
          <6>5. Lists(Append(before[L], N + 1), LinesOf(input, r) \cup {N + 1})
            BY <6>2, <6>4, ListsAppend
          <6> QED BY <4>4, <4>6, <5>1, <6>1, <6>5
        <5>2. CASE j # L
          <6>1. r - L + j # r
            BY <1>4, <4>3, <5>2
          <6> QED BY <4>2, <4>4, <4>7, <5>2, <6>1
        <5> QED BY <5>1, <5>2
      <4>9. Len(before') = IF r <= K THEN 0 ELSE IF r - K < context THEN r - K ELSE context
        <5>1. ~(r <= K)
          BY <1>4, <2>1
        <5> QED BY <4>2, <4>4, <5>1
      <4> QED BY <1>4, <4>4, <4>8, <4>9 DEF HeldIs
    <3> QED BY <3>1, <3>2
  <2> QED BY <1>1, <1>2, <1>3, <1>4, <1>5, <1>6, <1>9, <2>2, <2>3, <2>4, QuietInv
<1>14. CASE state = "drop"
  <2>1. input[e] \notin Eligible
    BY <1>5, <1>6, <1>14 DEF StateIs, e, N
  <2>2. ~KeptEntryIn(all, context, e)
    BY <1>7, <2>1 DEF KeptEntryIn
  <2>3. HeldIs(all, context, K, before)
    <3>1. all[Entry(all, N + 1)] \notin Eligible
      BY <1>4, <1>7, <2>1
    <3> QED BY <1>2, <1>4, <1>10, <3>1, HeldStays DEF all, N
  <2>4. UNCHANGED <<out, before>>
    BY <1>14 DEF Continuation, Nothing
  <2> QED BY <1>1, <1>2, <1>3, <1>4, <1>5, <1>6, <1>9, <2>2, <2>3, <2>4, QuietInv
<1> QED BY <1>5, <1>12, <1>13, <1>14 DEF StateIs

LEMMA TrailingInv == ASSUME FilterInv, Trailing PROVE FilterInv'
<1>1. PICK K \in Nat : FilterInvK(K)
  BY DEF FilterInv
<1> DEFINE all == Append(input, "other")
           N == Len(input)
           r == RankIn(input, N)
<1>2. /\ "other" \in Kinds /\ "other" # "match" /\ "other" # "blank"
      /\ "other" \in Entries /\ "other" \in Eligible
  BY DEF Kinds, Entries, Eligible
<1>3. /\ Fed("other") /\ after > 0 /\ after' = after - 1 /\ seen_entry' = TRUE
      /\ state' = "keep" /\ Emit(<<Line>>) /\ UNCHANGED before
  BY DEF Trailing
<1>4. /\ input' = all /\ input \in Seq(Kinds) /\ all \in Seq(Kinds) /\ context \in Nat
      /\ Len(all) = N + 1 /\ Entry(all, N + 1) = N + 1 /\ RankIn(all, N + 1) = r + 1
      /\ all[N + 1] = "other" /\ N \in Nat /\ r \in Nat /\ N + 1 # 0 /\ N + 1 \in 1..Len(all)
  BY <1>1, <1>2, <1>3, Feeds
<1>5. after = IF r < K THEN K - r ELSE 0
  BY <1>1 DEF FilterInvK
<1>6. ReachIs(all, context, K) /\ HeldIs(input, context, K, before)
  BY <1>1, <1>2, <1>4, ReachStays DEF FilterInvK
<1> HIDE DEF all, r
<1>7. r < K /\ r + 1 <= K
  BY <1>3, <1>4, <1>5
<1>8. after' = IF RankIn(all, N + 1) < K THEN K - RankIn(all, N + 1) ELSE 0
  BY <1>3, <1>4, <1>5, <1>7
<1>9. StateIs(all, K, "keep")
  BY <1>2, <1>4, <1>7 DEF StateIs
<1>10. KeptEntryIn(all, context, N + 1)
  <2>1. RankIn(all, N + 1) <= K /\ RankIn(all, Len(all)) - context <= RankIn(all, N + 1)
    BY <1>4, <1>7
  <2> QED BY <1>2, <1>4, <1>6, <2>1, KeptIfReached
<1>11. HeldIs(all, context, K, before)
  <2>1. before \in Seq(Seq(Nat)) /\ Len(before) = 0 /\ 1..Len(before) = {}
    <3>1. /\ before \in Seq(Seq(Nat))
          /\ Len(before) = IF r <= K THEN 0 ELSE IF r - K < context THEN r - K ELSE context
      BY <1>6 DEF HeldIs, r
    <3>2. r <= K
      BY <1>4, <1>7
    <3> QED BY <3>1, <3>2
  <2>2. RankIn(all, Len(all)) <= K
    BY <1>4, <1>7
  <2> QED BY <2>1, <2>2 DEF HeldIs
<1>12. seen_entry' = (Entry(all, N + 1) # 0)
  BY <1>3, <1>4
<1> QED BY <1>1, <1>2, <1>3, <1>4, <1>8, <1>9, <1>10, <1>11, <1>12, ReturnedInv

LEMMA HoldInv == ASSUME FilterInv, Hold PROVE FilterInv'
<1>1. PICK K \in Nat : FilterInvK(K)
  BY DEF FilterInv
<1> DEFINE all == Append(input, "other")
           N == Len(input)
           r == RankIn(input, N)
<1>2. /\ "other" \in Kinds /\ "other" # "match" /\ "other" # "blank" /\ "other" # "status"
      /\ "other" # "indent" /\ "other" \in Entries /\ "other" \in Eligible
  BY DEF Kinds, Entries, Eligible
<1>3. /\ Fed("other") /\ after = 0 /\ after' = after /\ seen_entry' = TRUE
      /\ state' = "buffer" /\ UNCHANGED out
  BY DEF Hold
<1>4. /\ input' = all /\ input \in Seq(Kinds) /\ all \in Seq(Kinds) /\ context \in Nat
      /\ Len(all) = N + 1 /\ Entry(all, N + 1) = N + 1 /\ RankIn(all, N + 1) = r + 1
      /\ all[N + 1] = "other" /\ N \in Nat /\ r \in Nat /\ N + 1 # 0 /\ N + 1 \in 1..Len(all)
  BY <1>1, <1>2, <1>3, Feeds
<1>5. after = IF r < K THEN K - r ELSE 0
  BY <1>1 DEF FilterInvK
<1>6. ReachIs(all, context, K) /\ HeldIs(input, context, K, before)
  BY <1>1, <1>2, <1>4, ReachStays DEF FilterInvK
<1> HIDE DEF all, r, N
<1>7. ~(r < K) /\ r + 1 > K /\ ~(r + 1 <= K)
  BY <1>3, <1>4, <1>5
<1>8. after' = IF RankIn(all, N + 1) < K THEN K - RankIn(all, N + 1) ELSE 0
  BY <1>3, <1>4, <1>7
<1>9. StateIs(all, K, "buffer")
  BY <1>2, <1>4, <1>7 DEF StateIs
<1>10. ~KeptEntryIn(all, context, N + 1)
  <2>1. ~(RankIn(all, N + 1) <= K)
    BY <1>4, <1>7
  <2> QED BY <1>2, <1>4, <1>6, <2>1, KeptIfReached
<1>11. HeldIs(all, context, K, before')
  <2> DEFINE L == Len(before)
  <2>1. /\ before \in Seq(Seq(Nat)) /\ L \in Nat
        /\ L = IF r - K < context THEN r - K ELSE context
        /\ \A j \in 1..L : Lists(before[j], LinesOf(input, r - L + j))
    <3>1. /\ before \in Seq(Seq(Nat)) /\ L \in Nat
          /\ L = IF r <= K THEN 0 ELSE IF r - K < context THEN r - K ELSE context
          /\ \A j \in 1..L : Lists(before[j], LinesOf(input, r - L + j))
      BY <1>6 DEF HeldIs, r, N
    <3>2. L = IF r - K < context THEN r - K ELSE context
      BY <1>4, <1>7, <3>1
    <3> QED BY <3>1, <3>2
  <2> HIDE DEF L
  <2>2. CASE context = 0
    <3>1. before' = before /\ Len(before) = 0 /\ 1..Len(before) = {}
      BY <1>4, <1>7, <2>1, <2>2 DEF Hold, L
    <3>2. Len(before) = IF RankIn(all, Len(all)) <= K THEN 0
                        ELSE IF RankIn(all, Len(all)) - K < context
                               THEN RankIn(all, Len(all)) - K ELSE context
      BY <1>4, <1>7, <2>2, <3>1
    <3> QED BY <2>1, <3>1, <3>2 DEF HeldIs
  <2>3. CASE context # 0
    <3> DEFINE b == Append(before, <<N + 1>>)
    <3>1. /\ b \in Seq(Seq(Nat)) /\ Len(b) = L + 1
          /\ b[L + 1] = <<N + 1>> /\ \A j \in 1..L : b[j] = before[j]
      BY <1>4, <2>1 DEF L
    <3>2. before' = IF Len(b) > context THEN Tail(b) ELSE b
      BY <1>4, <2>3 DEF Hold, Overfull, Line, N
    <3> HIDE DEF b
    <3>3. \A j \in 1..L + 1 : Lists(b[j], LinesOf(all, r - L + j))
      <4> TAKE j \in 1..L + 1
      <4>1. CASE j \in 1..L
        <5>1. r - L + j # r + 1
          BY <1>4, <2>1, <4>1
        <5>2. RankIn(all, Entry(all, N + 1)) # r - L + j
          BY <1>4, <5>1
        <5>3. LinesOf(all, r - L + j) = LinesOf(input, r - L + j)
          BY <1>2, <1>4, <5>2, LinesGrow DEF all, N
        <5> QED BY <2>1, <3>1, <4>1, <5>3
      <4>2. CASE j = L + 1
        <5>1. r - L + j = r + 1
          BY <1>4, <2>1, <4>2
        <5>2. LinesOf(input, r + 1) = {}
          <6>1. r + 1 \in Nat /\ r + 1 > RankIn(input, Len(input))
            BY <1>4 DEF r, N
          <6> QED BY <1>4, <6>1, NoLinesAhead
        <5>3. LinesOf(all, r + 1) = LinesOf(input, r + 1) \cup {N + 1}
          <6>1. /\ "other" \notin {"blank", "status"} /\ Entry(all, N + 1) # 0
                /\ all[Entry(all, N + 1)] \in Eligible
                /\ RankIn(all, Entry(all, N + 1)) = r + 1
            BY <1>2, <1>4
          <6> QED BY <1>2, <1>4, <6>1, LinesGrow DEF all, N
        <5>4. LinesOf(all, r - L + j) = {N + 1} /\ b[j] = <<N + 1>>
          BY <3>1, <4>2, <5>1, <5>2, <5>3
        <5>5. Lists(<<N + 1>>, {N + 1})
          BY <1>4, ListsOne
        <5> QED BY <5>4, <5>5
      <4> QED BY <2>1, <4>1, <4>2
    <3>4. CASE ~(Len(b) > context)
      <4>1. before' = b
        BY <3>2, <3>4
      <4>2. Len(b) = IF r + 1 <= K THEN 0 ELSE IF (r + 1) - K < context THEN (r + 1) - K ELSE context
        BY <1>4, <1>7, <2>1, <3>1, <3>4
      <4>3. \A j \in 1..Len(b) : Lists(b[j], LinesOf(all, (r + 1) - Len(b) + j))
        <5> TAKE j \in 1..Len(b)
        <5>1. j \in 1..L + 1 /\ (r + 1) - Len(b) + j = r - L + j
          BY <1>4, <2>1, <3>1
        <5> QED BY <3>3, <5>1
      <4> QED BY <1>4, <3>1, <4>1, <4>2, <4>3 DEF HeldIs
    <3>5. CASE Len(b) > context
      <4> DEFINE t == Tail(b)
      <4>1. /\ before' = t /\ t \in Seq(Seq(Nat)) /\ Len(t) = L
            /\ \A j \in 1..L : t[j] = b[j + 1]
        BY <2>1, <3>1, <3>2, <3>5
      <4> HIDE DEF t
      <4>2. Len(t) = IF r + 1 <= K THEN 0 ELSE IF (r + 1) - K < context THEN (r + 1) - K ELSE context
        BY <1>4, <1>7, <2>1, <3>1, <3>5, <4>1
      <4>3. \A j \in 1..Len(t) : Lists(t[j], LinesOf(all, (r + 1) - Len(t) + j))
        <5> TAKE j \in 1..Len(t)
        <5>0. j \in 1..L
          BY <4>1
        <5>1. j + 1 \in 1..L + 1 /\ (r + 1) - Len(t) + j = r - L + (j + 1)
          BY <1>4, <2>1, <4>1, <5>0
        <5>2. Lists(b[j + 1], LinesOf(all, r - L + (j + 1)))
          BY <3>3, <5>1
        <5> QED BY <4>1, <5>1, <5>2
      <4> QED BY <1>4, <4>1, <4>2, <4>3 DEF HeldIs
    <3> QED BY <3>4, <3>5
  <2> QED BY <2>2, <2>3
<1>12. seen_entry' = (Entry(all, N + 1) # 0)
  BY <1>3, <1>4
<1> QED BY <1>1, <1>2, <1>3, <1>4, <1>8, <1>9, <1>10, <1>11, <1>12, QuietInv

\* What a match returns is what it keeps.
LEMMA MatchReturns ==
    ASSUME NEW ins \in Seq(Kinds), NEW c \in Nat, NEW K \in Nat, NEW bs, NEW o, NEW g,
           ReachIs(ins, c, K), HeldIs(ins, c, K, bs),
           Returned(o, KeptIn(ins, c), StatusLines(ins)),
           g \in {<<>>, <<Separator>>}
    PROVE  Returned((o \o g) \o Append(FlattenSeq(bs), Len(ins) + 1),
                    KeptIn(Append(ins, "match"), c), StatusLines(Append(ins, "match")))
<1> DEFINE N == Len(ins)
           r == RankIn(ins, N)
           L == Len(bs)
           B == LinesBetween(ins, r - L + 1, r)
           A == KeptIn(ins, c)
           St == StatusLines(ins)
           Near == UNION {LinesOf(ins, a) : a \in {b \in 1..r : b >= r + 1 - c}}
<1>1. N \in Nat /\ r \in Nat
  <2>1. N \in Nat
    OBVIOUS
  <2> QED BY <2>1, RankIs
<1>2. L \in 0..r /\ L = IF r <= K THEN 0 ELSE IF r - K < c THEN r - K ELSE c
  BY HeldLists DEF HeldIs
<1>3. /\ StatusLines(Append(ins, "match")) = St
      /\ KeptIn(Append(ins, "match"), c) = (A \cup Near) \cup {N + 1}
  BY MatchKeeps
<1>4. /\ \A a \in (r - L + 1)..r : a \in 1..r /\ a > K /\ a >= r + 1 - c
      /\ \A a \in 1..r : a > K /\ a >= r + 1 - c => a \in (r - L + 1)..r
  <2> HIDE DEF L, r
  <2> QED BY <1>1, <1>2
<1> HIDE DEF N, r, L
<1>5. A \subseteq 1..N /\ B \subseteq 1..N /\ Near \subseteq 1..N
  BY DEF KeptIn, LinesOf, LinesBetween, N
<1>6. ASSUME NEW i \in B
      PROVE  /\ i \in 1..N /\ i \notin St /\ Entry(ins, i) # 0 /\ ins[Entry(ins, i)] \in Eligible
             /\ RankIn(ins, Entry(ins, i)) \in 1..r /\ RankIn(ins, Entry(ins, i)) > K
             /\ RankIn(ins, Entry(ins, i)) >= r + 1 - c
  <2>1. PICK a \in (r - L + 1)..r : i \in LinesOf(ins, a)
    BY <1>6 DEF LinesBetween
  <2>2. /\ i \in 1..N /\ ins[i] # "status" /\ Entry(ins, i) # 0 /\ ins[Entry(ins, i)] \in Eligible
        /\ RankIn(ins, Entry(ins, i)) = a
    BY <2>1 DEF LinesOf, N
  <2>3. i \notin St
    BY <2>2 DEF StatusLines
  <2> QED BY <1>4, <2>2, <2>3
<1>7. ASSUME NEW i \in A
      PROVE  i \in 1..N /\ (i \in St \/ (Entry(ins, i) # 0 /\ RankIn(ins, Entry(ins, i)) <= K))
  <2>1. i \in 1..N /\ (i \in St \/ (Entry(ins, i) # 0 /\ KeptEntryIn(ins, c, Entry(ins, i))))
    BY <1>7 DEF KeptIn, N
  <2>2. ASSUME Entry(ins, i) # 0, KeptEntryIn(ins, c, Entry(ins, i))
        PROVE  RankIn(ins, Entry(ins, i)) <= K
    <3>1. i \in Nat /\ Entry(ins, i) \in 0..i
      BY <1>1, <2>1, EntryIs
    <3>2. Entry(ins, i) \in 1..Len(ins) /\ ins[Entry(ins, i)] \in Eligible
      BY <1>1, <2>1, <2>2, <3>1 DEF KeptEntryIn, N
    <3> QED BY <2>2, <3>2, KeptIfReached
  <2> QED BY <2>1, <2>2
<1>8. A \cup Near = A \cup B
  <2>1. ASSUME NEW i \in B
        PROVE  i \in Near
    <3>1. PICK a \in (r - L + 1)..r : i \in LinesOf(ins, a)
      BY <2>1 DEF LinesBetween
    <3>2. a \in {b \in 1..r : b >= r + 1 - c}
      BY <1>4
    <3> QED BY <3>1, <3>2
  <2>2. ASSUME NEW i \in Near
        PROVE  i \in A \/ i \in B
    <3>1. PICK a \in 1..r : a >= r + 1 - c /\ i \in LinesOf(ins, a)
      BY <2>2
    <3>2. /\ i \in 1..N /\ ins[i] # "blank" /\ Entry(ins, i) # 0 /\ ins[Entry(ins, i)] \in Eligible
          /\ RankIn(ins, Entry(ins, i)) = a
      BY <3>1 DEF LinesOf, N
    <3>3. CASE a > K
      <4>1. a \in (r - L + 1)..r
        BY <1>4, <3>1, <3>3
      <4> QED BY <3>1, <4>1 DEF LinesBetween
    <3>4. CASE ~(a > K)
      <4>1. i \in Nat /\ Entry(ins, i) \in 0..i
        BY <1>1, <3>2, EntryIs
      <4>2. Entry(ins, i) \in 1..Len(ins)
        BY <1>1, <3>2, <4>1 DEF N
      <4>3. RankIn(ins, Entry(ins, i)) <= K /\ RankIn(ins, Len(ins)) - c <= RankIn(ins, Entry(ins, i))
        BY <1>1, <3>1, <3>2, <3>4 DEF r, N
      <4>4. KeptEntryIn(ins, c, Entry(ins, i))
        BY <3>2, <4>2, <4>3, KeptIfReached
      <4>5. i \in A
        BY <3>2, <4>4 DEF KeptIn, N
      <4> QED BY <4>5
    <3> QED BY <3>3, <3>4
  <2> HIDE DEF A, B, Near
  <2> QED BY <2>1, <2>2
<1>9. Lists(FlattenSeq(bs), B)
  BY HeldLists DEF r, N, L
<1>10. Lists(Append(FlattenSeq(bs), N + 1), B \cup {N + 1})
  <2> HIDE DEF B
  <2>1. N + 1 \in Nat /\ \A y \in B : y < N + 1
    BY <1>1, <1>5
  <2> QED BY <1>9, <2>1, ListsAppend
<1>11. ASSUME NEW a \in A, NEW b \in B \cup {N + 1}
       PROVE  a # b /\ (a < b \/ a \in St \/ b \in St)
  <2>1. CASE b = N + 1
    BY <1>1, <1>5, <2>1
  <2>2. CASE b \in B
    <3>1. /\ b \in 1..N /\ b \notin St /\ Entry(ins, b) # 0
          /\ RankIn(ins, Entry(ins, b)) > K /\ RankIn(ins, Entry(ins, b)) \in Nat
      BY <1>6, <2>2
    <3>2. a \in 1..N /\ (a \in St \/ (Entry(ins, a) # 0 /\ RankIn(ins, Entry(ins, a)) <= K))
      BY <1>7
    <3>3. CASE a \in St
      BY <3>1, <3>3
    <3>4. CASE a \notin St
      <4>1. Entry(ins, a) # 0 /\ RankIn(ins, Entry(ins, a)) <= K
        BY <3>2, <3>4
      <4>2. RankIn(ins, Entry(ins, a)) \in Nat
        <5>1. a \in Nat /\ Entry(ins, a) \in 0..a
          BY <1>1, <3>2, EntryIs
        <5> QED BY <5>1, RankIs
      <4>3. RankIn(ins, Entry(ins, a)) < RankIn(ins, Entry(ins, b))
        BY <3>1, <4>1, <4>2
      <4>4. a < b
        BY <3>1, <3>2, <4>1, <4>3, LinesInOrder DEF N
      <4> QED BY <1>1, <3>1, <3>2, <4>4
    <3> QED BY <3>3, <3>4
  <2> QED BY <2>1, <2>2
<1>12. 0 \notin B \cup {N + 1}
  <2> HIDE DEF B
  <2> QED BY <1>1, <1>5
<1> HIDE DEF A, B, St, Near
<1>13. Returned((o \o g) \o Append(FlattenSeq(bs), N + 1), A \cup (B \cup {N + 1}), St)
  <2>1. Returned(o, A, St)
    BY DEF A, St
  <2> QED BY <1>10, <1>11, <1>12, <2>1, ReturnedGrows
<1>14. A \cup (B \cup {N + 1}) = (A \cup Near) \cup {N + 1}
  BY <1>8
<1> QED BY <1>3, <1>13, <1>14 DEF N

LEMMA MatchInv == ASSUME FilterInv, Match PROVE FilterInv'
<1>1. PICK K \in Nat : FilterInvK(K)
  BY DEF FilterInv
<1> DEFINE all == Append(input, "match")
           N == Len(input)
           r == RankIn(input, N)
<1>2. "match" \in Kinds /\ "match" \in Entries /\ "match" \in Eligible
  BY DEF Kinds, Entries, Eligible
<1>3. /\ Fed("match") /\ after' = context /\ seen_entry' = TRUE /\ state' = "keep"
      /\ before' = <<>> /\ out' = (out \o Gap) \o Append(FlattenSeq(before), N + 1)
  BY DEF Match, HeldGone, Window, Emit, Line
<1>4. /\ input' = all /\ context' = context /\ input \in Seq(Kinds) /\ all \in Seq(Kinds)
      /\ context \in Nat
      /\ Len(all) = N + 1 /\ Entry(all, N + 1) = N + 1 /\ RankIn(all, N + 1) = r + 1
      /\ all[N + 1] = "match" /\ N \in Nat /\ r \in Nat /\ N + 1 # 0
  BY <1>1, <1>2, <1>3, Feeds
<1>0. PICK J \in Nat : J = r + 1 + context
  BY <1>4
<1>5. ReachIs(all, context, J)
  BY <1>0, <1>4, ReachMoves
<1>6. Gap \in {<<>>, <<Separator>>}
  BY DEF Gap
<1>7. Returned(out', KeptIn(all, context), StatusLines(all))
  BY <1>1, <1>3, <1>4, <1>6, MatchReturns DEF FilterInvK
<1> HIDE DEF all, N, r
<1>8. after' = IF RankIn(all, N + 1) < J THEN J - RankIn(all, N + 1) ELSE 0
  <2>1. J - (r + 1) = context /\ (r + 1 < J <=> context > 0)
    BY <1>0, <1>4
  <2>2. after' = context /\ context \in Nat /\ RankIn(all, N + 1) = r + 1
    BY <1>3, <1>4
  <2> QED BY <2>1, <2>2
<1>9. StateIs(all, J, "keep")
  BY <1>0, <1>2, <1>4 DEF StateIs
<1>10. HeldIs(all, context, J, before')
  <2>1. before' \in Seq(Seq(Nat)) /\ Len(before') = 0 /\ 1..Len(before') = {}
    BY <1>3
  <2>2. RankIn(all, Len(all)) <= J
    BY <1>0, <1>4
  <2> QED BY <2>1, <2>2 DEF HeldIs
<1>11. seen_entry' = (Entry(all, N + 1) # 0)
  BY <1>3, <1>4
<1>12. FilterInvK(J)'
  BY <1>3, <1>4, <1>5, <1>7, <1>8, <1>9, <1>10, <1>11 DEF FilterInvK
<1> QED BY <1>12 DEF FilterInv

LEMMA FilterInvNext == FilterInv /\ [FilterNext]_filter_vars => FilterInv'
<1> SUFFICES ASSUME FilterInv, [FilterNext]_filter_vars
             PROVE  FilterInv'
  OBVIOUS
<1>1. CASE Blank
  BY <1>1, BlankInv
<1>2. CASE Ineligible
  BY <1>2, IneligibleInv
<1>3. CASE Match
  BY <1>3, MatchInv
<1>4. CASE Trailing
  BY <1>4, TrailingInv
<1>5. CASE Hold
  BY <1>5, HoldInv
<1>6. CASE Continuation
  BY <1>6, ContinuationInv
<1>7. CASE Status
  BY <1>7, StatusInv
<1>8. CASE UNCHANGED filter_vars
  BY <1>8 DEF FilterInv, FilterInvK, filter_vars
<1> QED BY <1>1, <1>2, <1>3, <1>4, <1>5, <1>6, <1>7, <1>8 DEF FilterNext

\* What the filter holds, has returned and will return, given what it was fed:
\* the inductive invariant behind the theorems below.
THEOREM FilterInvariant == FilterSpec => []FilterInv
<1>1. FilterInit => FilterInv
  BY FilterInvInit
<1>2. FilterInv /\ [FilterNext]_filter_vars => FilterInv'
  BY FilterInvNext
<1> QED BY <1>1, <1>2, PTL DEF FilterSpec

----------------------------------------------------------------------------
(* What it gives *)

LEMMA HeldEntry == FilterInv => HeldEntryIsThere
<1> SUFFICES ASSUME FilterInv, state = "buffer", context > 0
             PROVE  before # <<>>
  BY DEF HeldEntryIsThere
<1>1. PICK K \in Nat : FilterInvK(K)
  BY DEF FilterInv
<1> DEFINE r == RankIn(input, Len(input))
<1>2. context \in Nat /\ input \in Seq(Kinds) /\ HeldIs(input, context, K, before)
      /\ StateIs(input, K, state)
  BY <1>1 DEF FilterInvK
<1>3. r \in Nat
  BY <1>2, RankIs
<1>4. r > K /\ Len(before) = IF r <= K THEN 0 ELSE IF r - K < context THEN r - K ELSE context
  BY <1>2 DEF HeldIs, StateIs
<1> HIDE DEF r
<1>5. Len(before) # 0
  BY <1>2, <1>3, <1>4
<1> QED BY <1>5

\* No sequence of lines makes a continuation look for an entry that is not
\* held: _before[-1] of _hold is never an IndexError.
THEOREM HeldEntryHolds == FilterSpec => []HeldEntryIsThere
<1>1. FilterInv => HeldEntryIsThere
  BY HeldEntry
<1> QED BY <1>1, FilterInvariant, PTL

\* MCLogFilter's operators are those of the invariant, for the input.
LEMMA KeptIsKeptIn ==
    /\ Kept = KeptIn(input, context)
    /\ \A i \in Kept : IsStatus(i) <=> i \in StatusLines(input)
<1>1. \A i : EntryOf(i) = Entry(input, i)
  BY DEF EntryOf, Entry
<1>2. \A i : Rank(i) = RankIn(input, i)
  BY DEF Rank, RankIn
<1>3. \A e : KeptEntry(e) <=> KeptEntryIn(input, context, e)
  BY <1>2 DEF KeptEntry, KeptEntryIn, Eligible
<1>4. \A i \in 1..Len(input) : IsStatus(i) <=> i \in StatusLines(input)
  BY <1>1 DEF IsStatus, StatusLines
<1> QED BY <1>1, <1>3, <1>4 DEF Kept, KeptIn

LEMMA KeptRight == FilterInv => KeptExactly
<1> SUFFICES ASSUME FilterInv PROVE KeptExactly
  OBVIOUS
<1>1. Returned(out, KeptIn(input, context), StatusLines(input))
  BY DEF FilterInv, FilterInvK
<1>2. {out[p] : p \in Places} = Kept
  BY <1>1, KeptIsKeptIn DEF Returned, Places
<1>3. ASSUME NEW p \in Places, NEW q \in Places, p < q
      PROVE  /\ out[p] # out[q]
             /\ out[p] < out[q] \/ IsStatus(out[p]) \/ IsStatus(out[q])
  <2>1. out[p] \in Kept /\ out[q] \in Kept
    BY <1>2
  <2>2. /\ out[p] # out[q]
        /\ out[p] < out[q] \/ out[p] \in StatusLines(input) \/ out[q] \in StatusLines(input)
    BY <1>1, <1>3 DEF Returned, Places
  <2> QED BY <2>1, <2>2, KeptIsKeptIn
<1> QED BY <1>2, <1>3 DEF KeptExactly

\* The filter returns the lines it promises, whatever it is fed: those within
\* context eligible entries of a match, with their continuations, and the
\* status lines; each once, those of entries in the order they came
\* (LogFilter.feed, _emit and _hold).
THEOREM KeptIsExact == FilterSpec => []KeptExactly
<1>1. FilterInv => KeptExactly
  BY KeptRight
<1> QED BY <1>1, FilterInvariant, PTL

\* Every variable keeps its shape (LogFilter.__init__ and what feed assigns).
THEOREM FilterTypeCorrect == FilterSpec => []FilterTypeOK
<1>1. FilterInit => FilterTypeOK
  <2> SUFFICES ASSUME FilterInit PROVE FilterTypeOK
    OBVIOUS
  <2>1. context \in Contexts /\ context \in Nat
    BY ContextsAreNat DEF FilterInit
  <2>2. after \in 0..context /\ before \in Seq(Seq(Nat)) /\ out \in Seq(Nat) /\ input \in Seq(Kinds)
    BY <2>1 DEF FilterInit
  <2>3. state \in {"keep", "buffer", "drop"} /\ seen_entry \in BOOLEAN /\ discarded \in BOOLEAN
        /\ returned \in Nat
    BY DEF FilterInit
  <2> QED BY <2>1, <2>2, <2>3 DEF FilterTypeOK
<1>2. FilterTypeOK /\ [FilterNext]_filter_vars => FilterTypeOK'
  <2> SUFFICES ASSUME FilterTypeOK, [FilterNext]_filter_vars
               PROVE  FilterTypeOK'
    OBVIOUS
  <2> USE DEF FilterTypeOK
  <2>1. context \in Nat /\ Line \in Nat /\ Gap \in Seq(Nat) /\ after \in 0..context
    BY ContextsAreNat DEF Line, Gap, Separator
  <2>2. ASSUME NEW k \in Kinds, Fed(k)
        PROVE  input' \in Seq(Kinds) /\ context' = context
    BY <2>2 DEF Fed
  <2>3. ASSUME NEW ls \in Seq(Nat), Emit(ls)
        PROVE  out' \in Seq(Nat) /\ returned' \in Nat /\ discarded' \in BOOLEAN
    <3>1. \A s, t \in Seq(Nat) : s \o t \in Seq(Nat)
      OBVIOUS
    <3>2. out \o Gap \in Seq(Nat) /\ Len(ls) \in Nat /\ returned \in Nat
      BY <2>1, <3>1
    <3>3. (out \o Gap) \o ls \in Seq(Nat)
      BY <3>1, <3>2
    <3>4. out' = (out \o Gap) \o ls /\ returned' = returned + Len(ls) /\ discarded' = FALSE
      BY <2>3 DEF Emit
    <3>5. out' \in Seq(Nat)
      BY <3>3, <3>4
    <3>6. returned' \in Nat
      BY <3>2, <3>4
    <3>7. discarded' \in BOOLEAN
      BY <3>4
    <3> QED BY <3>5, <3>6, <3>7
  <2>4. FlattenSeq(before) \in Seq(Nat)
    <3>1. PICK f \in [0..Len(before) -> Seq(Nat)] : FlattenSeq(before) = f[Len(before)]
      BY FlattenIs
    <3>2. Len(before) \in 0..Len(before)
      OBVIOUS
    <3> QED BY <3>1, <3>2
  <2>5. \A s \in Seq(Nat) : Append(s, Line) \in Seq(Nat)
    BY <2>1
  <2>6. <<Line>> \in Seq(Nat) /\ Append(before, <<Line>>) \in Seq(Seq(Nat))
    BY <2>1
  <2>7. /\ "match" \in Kinds /\ "other" \in Kinds /\ "ineligible" \in Kinds
        /\ "indent" \in Kinds /\ "status" \in Kinds /\ "blank" \in Kinds
    BY DEF Kinds
  <2>8. CASE Blank
    BY <2>2, <2>7, <2>8 DEF Blank, Nothing
  <2>9. CASE Ineligible
    BY <2>2, <2>7, <2>9 DEF Ineligible, Nothing
  <2>10. CASE Match
    <3>1. out' \in Seq(Nat) /\ returned' \in Nat /\ discarded' \in BOOLEAN
      BY <2>3, <2>4, <2>5, <2>10 DEF Match
    <3> QED BY <2>1, <2>2, <2>7, <2>10, <3>1 DEF Match, HeldGone, Window
  <2>11. CASE Trailing
    <3>1. out' \in Seq(Nat) /\ returned' \in Nat /\ discarded' \in BOOLEAN
      BY <2>3, <2>6, <2>11 DEF Trailing
    <3>2. after' \in 0..context
      BY <2>1, <2>11 DEF Trailing
    <3> QED BY <2>2, <2>7, <2>11, <3>1, <3>2 DEF Trailing
  <2>12. CASE Hold
    <3>1. input' \in Seq(Kinds) /\ context' = context /\ UNCHANGED <<out, returned, after>>
          /\ state' = "buffer" /\ seen_entry' = TRUE
      BY <2>2, <2>7, <2>12 DEF Hold
    <3>2. before' \in Seq(Seq(Nat)) /\ discarded' \in BOOLEAN
      <4>1. CASE context = 0
        BY <4>1, <2>12 DEF Hold
      <4>2. CASE context # 0
        <5>1. \A b \in Seq(Seq(Nat)) : Len(b) > 0 => Tail(b) \in Seq(Seq(Nat))
          OBVIOUS
        <5>2. Len(Append(before, <<Line>>)) > 0
          BY <2>1
        <5> QED BY <2>6, <2>12, <4>2, <5>1, <5>2 DEF Hold, Overfull
      <4> QED BY <4>1, <4>2
    <3> QED BY <3>1, <3>2
  <2>13. CASE Continuation
    <3>1. input' \in Seq(Kinds) /\ context' = context /\ UNCHANGED <<seen_entry, after, state>>
      BY <2>2, <2>7, <2>13 DEF Continuation
    <3>2. out' \in Seq(Nat) /\ returned' \in Nat /\ discarded' \in BOOLEAN
      BY <2>3, <2>6, <2>13 DEF Continuation, Nothing
    <3>3. before' \in Seq(Seq(Nat))
      <4>1. CASE UNCHANGED before
        BY <4>1
      <4>2. CASE before' = [before EXCEPT ![Len(before)] = Append(@, Line)]
        <5>1. \A i \in DOMAIN before : before[i] \in Seq(Nat)
          OBVIOUS
        <5>2. \A i \in DOMAIN before : before'[i] \in Seq(Nat)
          BY <2>5, <4>2, <5>1
        <5>3. DOMAIN before' = DOMAIN before /\ before' = [i \in DOMAIN before |-> before'[i]]
          BY <4>2
        <5>4. DOMAIN before = 1..Len(before) /\ Len(before) \in Nat
          OBVIOUS
        <5>5. \A n \in Nat : \A g : (\A i \in 1..n : g[i] \in Seq(Nat)) =>
                [i \in 1..n |-> g[i]] \in Seq(Seq(Nat))
          OBVIOUS
        <5>6. [i \in 1..Len(before) |-> before'[i]] \in Seq(Seq(Nat))
          BY <5>2, <5>4, <5>5
        <5> QED BY <5>3, <5>4, <5>6
      <4> QED BY <2>13, <4>1, <4>2 DEF Continuation
    <3> QED BY <3>1, <3>2, <3>3
  <2>14. CASE Status
    <3>1. out' \in Seq(Nat) /\ returned' \in Nat /\ discarded' \in BOOLEAN
      BY <2>3, <2>6, <2>14 DEF Status
    <3> QED BY <2>2, <2>7, <2>14, <3>1 DEF Status
  <2>15. CASE UNCHANGED filter_vars
    BY <2>15 DEF filter_vars
  <2> QED BY <2>8, <2>9, <2>10, <2>11, <2>12, <2>13, <2>14, <2>15 DEF FilterNext
<1> QED BY <1>1, <1>2, PTL DEF FilterSpec

----------------------------------------------------------------------------
(* Where separators stand *)

\* The rank of a line's entry; lines of entries with others between them.
At(ins, i) == RankIn(ins, Entry(ins, i))
ApartIn(ins, c, i, j) == c > 0 /\ At(ins, j) - At(ins, i) > 1

\* There is an entry for every rank.
LEMMA RankReached ==
    ASSUME NEW ins \in Seq(Kinds), NEW a \in 1..RankIn(ins, Len(ins))
    PROVE  \E e \in 1..Len(ins) : e \in LinesOf(ins, a)
<1> DEFINE N == Len(ins)
           r(i) == RankIn(ins, i)
           S == {i \in 0..N : r(i) >= a}
<1>0. \A i \in Nat : RankIn(ins, i) \in Nat
  BY RankIs
<1>1. N \in Nat /\ \A i \in Nat : r(i) \in Nat
  BY <1>0
<1>2. N \in S /\ S \subseteq Nat
  BY <1>1
<1>3. PICK e \in S : \A k \in S : e <= k
  <2>1. S # {}
    BY <1>2
  <2> HIDE DEF S
  <2> QED BY <1>2, <2>1, LeastNat
<1>4. e # 0
  <2>1. r(0) = 0
    BY <1>1, RankIs
  <2> QED BY <1>1, <2>1
<1>5. e \in 1..N /\ e - 1 \in Nat /\ (e - 1) + 1 = e /\ e - 1 \in 0..N
  BY <1>1, <1>4
<1>6. r(e - 1) < a
  <2>1. e - 1 \notin S
    BY <1>3, <1>5
  <2> QED BY <1>1, <1>5, <2>1
<1>7. r(e) = IF ins[e] \in {"match", "other"} THEN r(e - 1) + 1 ELSE r(e - 1)
  <2>1. RankIn(ins, (e - 1) + 1) = IF ins[(e - 1) + 1] \in {"match", "other"}
                                     THEN RankIn(ins, e - 1) + 1 ELSE RankIn(ins, e - 1)
    BY <1>5, RankIs
  <2> QED BY <1>5, <2>1
<1>8. ins[e] \in Eligible /\ r(e) = a
  <2>1. r(e - 1) \in Nat /\ r(e) >= a
    BY <1>1, <1>3, <1>5
  <2>2. a \in Nat
    OBVIOUS
  <2> QED BY <1>6, <1>7, <2>1, <2>2 DEF Eligible
<1>9. Entry(ins, e) = e
  <2>1. e \in Nat /\ e \in 1..e /\ ins[e] \in Entries
    <3>1. e \in Nat /\ e \in 1..e
      BY <1>1, <1>5
    <3> QED BY <1>8, <3>1 DEF Entries, Eligible
  <2>2. Entry(ins, e) \in 0..e /\ e <= Entry(ins, e)
    BY <2>1, EntryIs
  <2> QED BY <2>1, <2>2
<1>10. ins[e] \notin {"blank", "status"}
  BY <1>8 DEF Eligible
<1>11. e \in LinesOf(ins, a)
  BY <1>5, <1>8, <1>9, <1>10 DEF LinesOf
<1> QED BY <1>5, <1>11

\* The reach of the last match is one number.
LEMMA ReachUnique ==
    ASSUME NEW ins \in Seq(Kinds), NEW c \in Nat,
           NEW J, ReachIs(ins, c, J), NEW K, ReachIs(ins, c, K)
    PROVE  J = K
<1>1. \A m \in 1..Len(ins) : RankIn(ins, m) \in Nat
  BY RankIs
<1>2. \A m \in 1..Len(ins) : ins[m] = "match" => RankIn(ins, m) # 0
  <2> SUFFICES ASSUME NEW m \in 1..Len(ins), ins[m] = "match"
               PROVE  RankIn(ins, m) # 0
    OBVIOUS
  <2>1. ins[m] \in Eligible
    BY DEF Eligible
  <2> QED BY <2>1, KeptIfReached
<1> QED BY <1>1, <1>2 DEF ReachIs

\* The lines of the entries from one rank to another: the first and the last
\* belong to these entries, and no entry is passed over.
LEMMA RunOfLines ==
    ASSUME NEW ins \in Seq(Kinds), NEW r, r = RankIn(ins, Len(ins)),
           NEW lo \in 1..r, NEW hi \in lo..r,
           NEW ls, Lists(ls, LinesBetween(ins, lo, hi))
    PROVE  /\ ls \in Seq(Nat \ {0}) /\ Len(ls) > 0
           /\ At(ins, ls[1]) = lo /\ At(ins, ls[Len(ls)]) = hi
           /\ \A i \in 1..(Len(ls) - 1) : ~(At(ins, ls[i + 1]) - At(ins, ls[i]) > 1)
<1> DEFINE n == Len(ls)
           S == LinesBetween(ins, lo, hi)
<1>1. r \in Nat /\ lo \in Nat /\ hi \in Nat /\ 1 <= lo /\ lo <= hi /\ hi <= r
  BY RankIs
<1>2. ls \in Seq(Nat) /\ n \in Nat /\ \A i, j \in 1..n : i < j => ls[i] < ls[j]
  BY DEF Lists
<1>3. (\A i \in 1..n : ls[i] \in S) /\ \A x \in S : \E i \in 1..n : x = ls[i]
  BY <1>2 DEF Lists, Range
<1>4. ASSUME NEW x \in S
      PROVE  /\ x \in 1..Len(ins) /\ x # 0 /\ Entry(ins, x) # 0
             /\ At(ins, x) \in lo..hi
  BY DEF LinesOf, LinesBetween, At
<1>5. ASSUME NEW a \in lo..hi
      PROVE  \E x \in S : At(ins, x) = a
  <2>1. a \in 1..RankIn(ins, Len(ins))
    BY <1>1
  <2>2. PICK x \in 1..Len(ins) : x \in LinesOf(ins, a)
    BY <2>1, RankReached
  <2>3. At(ins, x) = a
    BY <2>2 DEF LinesOf, At
  <2> QED BY <2>2, <2>3 DEF LinesBetween
<1>6. ASSUME NEW x \in S, NEW y \in S, At(ins, x) < At(ins, y)
      PROVE  x < y
  <2>1. /\ x \in 1..Len(ins) /\ y \in 1..Len(ins)
        /\ Entry(ins, x) # 0 /\ Entry(ins, y) # 0
    BY <1>4
  <2> QED BY <1>6, <2>1, LinesInOrder DEF At
<1> HIDE DEF S, n
<1>7. ASSUME NEW a \in lo..hi
      PROVE  \E i \in 1..n : At(ins, ls[i]) = a
  BY <1>3, <1>5
<1>8. ASSUME NEW i \in 1..n, NEW j \in 1..n, At(ins, ls[i]) < At(ins, ls[j])
      PROVE  i < j
  <2>1. ls[i] < ls[j] /\ ls[i] \in Nat /\ ls[j] \in Nat
    BY <1>2, <1>3, <1>6, <1>8 DEF n
  <2> QED BY <1>2, <2>1
<1>9. \A i \in 1..n : At(ins, ls[i]) \in lo..hi
  BY <1>3, <1>4
<1>10. n > 0
  <2>1. PICK i \in 1..n : At(ins, ls[i]) = lo
    BY <1>1, <1>7
  <2> QED BY <1>2, <2>1
<1>11. At(ins, ls[1]) = lo
  <2>1. PICK i \in 1..n : At(ins, ls[i]) = lo
    BY <1>1, <1>7
  <2>2. 1 \in 1..n /\ ~(i < 1)
    BY <1>2, <1>10, <2>1
  <2>3. ~(At(ins, ls[i]) < At(ins, ls[1]))
    BY <1>8, <2>2
  <2> QED BY <1>1, <1>9, <2>1, <2>2, <2>3
<1>12. At(ins, ls[n]) = hi
  <2>1. PICK i \in 1..n : At(ins, ls[i]) = hi
    BY <1>1, <1>7
  <2>2. n \in 1..n /\ ~(n < i)
    BY <1>2, <1>10, <2>1
  <2>3. ~(At(ins, ls[n]) < At(ins, ls[i]))
    BY <1>8, <2>2
  <2> QED BY <1>1, <1>9, <2>1, <2>2, <2>3
<1>13. ASSUME NEW i \in 1..(n - 1)
       PROVE  ~(At(ins, ls[i + 1]) - At(ins, ls[i]) > 1)
  <2>1. i \in 1..n /\ i + 1 \in 1..n
    BY <1>2
  <2>2. PICK a, b : /\ a = At(ins, ls[i]) /\ b = At(ins, ls[i + 1])
                    /\ a \in lo..hi /\ b \in lo..hi
    BY <1>9, <2>1
  <2> SUFFICES ASSUME b - a > 1 PROVE FALSE
    BY <2>2
  <2>3. a + 1 \in lo..hi /\ a < a + 1 /\ a + 1 < b
    BY <1>1, <2>2
  <2>4. PICK j \in 1..n : At(ins, ls[j]) = a + 1
    BY <1>7, <2>3
  <2>5. i < j /\ j < i + 1
    BY <1>8, <2>1, <2>2, <2>3, <2>4
  <2> QED BY <2>5
<1>14. ls \in Seq(Nat \ {0})
  <2>1. \A i \in 1..Len(ls) : ls[i] \in Nat \ {0}
    BY <1>2, <1>3, <1>4 DEF n
  <2> QED BY <1>2, <2>1
<1> QED BY <1>10, <1>11, <1>12, <1>13, <1>14 DEF n

\* A separator stands where lines are apart, and nowhere else.
Spaced(o, ins, c) ==
    /\ \A p \in DOMAIN o :
         IF o[p] = Separator
           THEN /\ p > 1 /\ p < Len(o)
                /\ o[p - 1] # Separator /\ o[p + 1] # Separator
                /\ ApartIn(ins, c, o[p - 1], o[p + 1])
           ELSE p < Len(o) /\ o[p + 1] # Separator => ~ApartIn(ins, c, o[p], o[p + 1])
    /\ o # <<>> => o[Len(o)] # Separator

\* More lines of neighbouring entries follow, with a separator before them if
\* the first is apart from the last line returned.
LEMMA SpacedGrows ==
    ASSUME NEW ins, NEW c \in Nat, NEW o \in Seq(Nat), Spaced(o, ins, c),
           NEW ls \in Seq(Nat \ {0}), Len(ls) > 0,
           \A i \in 1..(Len(ls) - 1) : ~(At(ins, ls[i + 1]) - At(ins, ls[i]) > 1),
           NEW g,
           g = IF o # <<>> /\ ApartIn(ins, c, o[Len(o)], ls[1]) THEN <<Separator>> ELSE <<>>
    PROVE  /\ Spaced((o \o g) \o ls, ins, c)
           /\ (o \o g) \o ls # <<>>
           /\ ((o \o g) \o ls)[Len((o \o g) \o ls)] = ls[Len(ls)]
<1> DEFINE n == Len(o)
           m == Len(ls)
           d == Len(g)
           og == o \o g
           new == og \o ls
<1>1. /\ n \in Nat /\ m \in Nat \ {0} /\ d \in {0, 1} /\ g \in Seq(Nat)
      /\ d = 1 => g[1] = 0 /\ n # 0
      /\ Separator = 0
  BY DEF Separator
<1>2. /\ og \in Seq(Nat) /\ Len(og) = n + d
      /\ \A p \in 1..n : og[p] = o[p]
      /\ d = 1 => og[n + 1] = 0
  BY <1>1
<1>3. ls \in Seq(Nat) /\ \A i \in 1..m : ls[i] \in Nat /\ ls[i] # 0
  OBVIOUS
<1> HIDE DEF og
<1>4. /\ new \in Seq(Nat) /\ Len(new) = n + d + m
      /\ \A p \in 1..(n + d) : new[p] = og[p]
      /\ \A i \in 1..m : new[n + d + i] = ls[i]
  <2>0. og \in Seq(Nat) /\ ls \in Seq(Nat)
    BY <1>2, <1>3
  <2>1. new \in Seq(Nat) /\ Len(new) = Len(og) + Len(ls)
    BY <2>0
  <2>2. \A p \in 1..Len(og) : new[p] = og[p]
    BY <2>0
  <2>3. \A i \in 1..Len(ls) : new[Len(og) + i] = ls[i]
    BY <2>0
  <2> HIDE DEF new
  <2> QED BY <1>2, <2>1, <2>2, <2>3
<1>5. /\ \A p \in 1..n : new[p] = o[p]
      /\ d = 1 => new[n + 1] = 0
  <2>1. \A p \in 1..n : p \in 1..(n + d)
    BY <1>1
  <2>2. d = 1 => n + 1 \in 1..(n + d)
    BY <1>1
  <2> QED BY <1>2, <1>4, <2>1, <2>2
<1>6. d = 1 <=> o # <<>> /\ ApartIn(ins, c, o[n], ls[1])
  <2>1. Len(<<Separator>>) = 1 /\ Len(<<>>) = 0
    OBVIOUS
  <2> QED BY <2>1
<1>7. n # 0 => o # <<>> /\ o[n] # 0
  <2>1. n # 0 => o # <<>>
    OBVIOUS
  <2> QED BY <1>1, <2>1 DEF Spaced
<1>8. \A p \in 1..n : IF o[p] = 0
           THEN /\ p > 1 /\ p < n
                /\ o[p - 1] # 0 /\ o[p + 1] # 0
                /\ ApartIn(ins, c, o[p - 1], o[p + 1])
           ELSE p < n /\ o[p + 1] # 0 => ~ApartIn(ins, c, o[p], o[p + 1])
  <2>1. DOMAIN o = 1..n
    OBVIOUS
  <2> QED BY <1>1, <2>1 DEF Spaced
<1> HIDE DEF new, n, m, d
<1>9. ASSUME NEW p \in 1..(n + d + m)
      PROVE  IF new[p] = 0
               THEN /\ p > 1 /\ p < n + d + m
                    /\ new[p - 1] # 0 /\ new[p + 1] # 0
                    /\ ApartIn(ins, c, new[p - 1], new[p + 1])
               ELSE p < n + d + m /\ new[p + 1] # 0 => ~ApartIn(ins, c, new[p], new[p + 1])
  <2>1. CASE p \in 1..(n - 1)
    <3>1. /\ p \in 1..n /\ p + 1 \in 1..n /\ (p > 1 => p - 1 \in 1..n)
          /\ p < n /\ p < n + d + m
      BY <1>1, <2>1
    <3>2. new[p] = o[p] /\ new[p + 1] = o[p + 1] /\ (p > 1 => new[p - 1] = o[p - 1])
      BY <1>5, <3>1
    <3>3. CASE o[p] = 0
      <4>1. p > 1 /\ o[p - 1] # 0 /\ o[p + 1] # 0 /\ ApartIn(ins, c, o[p - 1], o[p + 1])
        BY <1>8, <3>1, <3>3
      <4> QED BY <3>1, <3>2, <3>3, <4>1
    <3>4. CASE o[p] # 0
      <4>1. o[p + 1] # 0 => ~ApartIn(ins, c, o[p], o[p + 1])
        BY <1>8, <3>1, <3>4
      <4> QED BY <3>2, <3>4, <4>1
    <3> QED BY <3>3, <3>4
  <2>2. CASE p = n
    <3>1. n \in 1..n /\ n # 0
      BY <1>1, <2>2
    <3>2. new[n] = o[n] /\ o[n] # 0 /\ o # <<>>
      BY <1>5, <1>7, <3>1
    <3>3. CASE d = 1
      BY <1>5, <2>2, <3>2, <3>3
    <3>4. CASE d = 0
      <4>1. 1 \in 1..m /\ n + d + 1 = n + 1
        BY <1>1, <3>4
      <4>2. new[n + 1] = ls[1]
        BY <1>4, <4>1
      <4> QED BY <1>6, <2>2, <3>2, <3>4, <4>2
    <3> QED BY <1>1, <3>3, <3>4
  <2>3. CASE d = 1 /\ p = n + 1
    <3>1. n \in 1..n /\ 1 \in 1..m /\ n + d + 1 = p + 1 /\ p - 1 = n /\ p > 1 /\ p < n + d + m
      BY <1>1, <2>3
    <3>2. new[p] = 0 /\ new[p + 1] = ls[1] /\ ls[1] # 0 /\ new[p - 1] = o[n] /\ o[n] # 0
      BY <1>1, <1>3, <1>4, <1>5, <1>7, <2>3, <3>1 DEF m
    <3> QED BY <1>6, <2>3, <3>1, <3>2
  <2>4. CASE p > n + d
    <3>1. PICK i \in 1..m : p = n + d + i
      <4>1. p - (n + d) \in 1..m /\ p = n + d + (p - (n + d))
        BY <1>1, <2>4
      <4> QED BY <4>1
    <3>2. new[p] = ls[i] /\ ls[i] # 0
      BY <1>3, <1>4, <3>1 DEF m
    <3>3. ASSUME p < n + d + m
          PROVE  ~ApartIn(ins, c, new[p], new[p + 1])
      <4>1. i + 1 \in 1..m /\ i \in 1..(m - 1) /\ p + 1 = n + d + (i + 1)
        BY <1>1, <3>1, <3>3
      <4>2. new[n + d + (i + 1)] = ls[i + 1]
        BY <1>4, <4>1
      <4>3. ~(At(ins, ls[i + 1]) - At(ins, ls[i]) > 1)
        BY <4>1 DEF m
      <4> QED BY <3>2, <4>1, <4>2, <4>3 DEF ApartIn
    <3> QED BY <3>2, <3>3
  <2> QED BY <1>1, <2>1, <2>2, <2>3, <2>4
<1>10. new # <<>> /\ new[n + d + m] = ls[m] /\ ls[m] # 0
  <2>1. m \in 1..m /\ n + d + m # 0
    BY <1>1
  <2> QED BY <1>3, <1>4, <2>1 DEF m
<1>11. DOMAIN new = 1..(n + d + m)
  BY <1>4
<1>12. Spaced(new, ins, c)
  BY <1>1, <1>4, <1>9, <1>10, <1>11 DEF Spaced
<1> QED BY <1>4, <1>10, <1>12 DEF new, og, m

\* A line more leaves what was said of those before it.
LEMMA SpacedStays ==
    ASSUME NEW ins \in Seq(Kinds), NEW k \in Kinds, NEW c, NEW o \in Seq(Nat),
           \A p \in DOMAIN o : o[p] \in 0..Len(ins)
    PROVE  /\ Spaced(o, Append(ins, k), c) <=> Spaced(o, ins, c)
           /\ o # <<>> => At(Append(ins, k), o[Len(o)]) = At(ins, o[Len(o)])
<1> DEFINE all == Append(ins, k)
<1>1. \A i \in 0..Len(ins) : At(all, i) = At(ins, i)
  <2> TAKE i \in 0..Len(ins)
  <2>1. Entry(all, i) = Entry(ins, i)
    BY EntryGrows
  <2>2. i \in Nat /\ i <= Len(ins) /\ Len(ins) \in Nat
    OBVIOUS
  <2>3. Entry(ins, i) \in 0..i
    BY <2>2, EntryIs
  <2>4. Entry(ins, i) \in 0..Len(ins)
    BY <2>2, <2>3
  <2>5. RankIn(all, Entry(ins, i)) = RankIn(ins, Entry(ins, i))
    BY <2>4, EntryGrows
  <2> QED BY <2>1, <2>5 DEF At
<1> HIDE DEF all
<1>2. DOMAIN o = 1..Len(o) /\ Len(o) \in Nat
  OBVIOUS
<1>3. \A p, q \in DOMAIN o : ApartIn(all, c, o[p], o[q]) <=> ApartIn(ins, c, o[p], o[q])
  BY <1>1 DEF ApartIn
<1>4. ASSUME NEW p \in DOMAIN o
      PROVE  /\ p > 1 /\ p < Len(o) => p - 1 \in DOMAIN o /\ p + 1 \in DOMAIN o
             /\ p < Len(o) => p + 1 \in DOMAIN o
  BY <1>2
<1>5. ASSUME NEW p \in DOMAIN o
      PROVE  /\ p > 1 /\ p < Len(o) =>
                  (ApartIn(all, c, o[p - 1], o[p + 1]) <=> ApartIn(ins, c, o[p - 1], o[p + 1]))
             /\ p < Len(o) => (ApartIn(all, c, o[p], o[p + 1]) <=> ApartIn(ins, c, o[p], o[p + 1]))
  BY <1>3, <1>4
<1>6. Spaced(o, all, c) <=> Spaced(o, ins, c)
  BY <1>5 DEF Spaced
<1>7. o # <<>> => Len(o) \in DOMAIN o
  BY <1>2
<1>8. o # <<>> => At(all, o[Len(o)]) = At(ins, o[Len(o)])
  BY <1>1, <1>7
<1> QED BY <1>6, <1>8 DEF all

\* The last line returned belongs to the last entry that is within reach, and
\* an entry was dropped since then if more are beyond it than are held.
GrepK(K) ==
    LET r == RankIn(input, Len(input))
    IN /\ returned \in Nat /\ (returned = 0 <=> out = <<>>)
       /\ StatusLines(input) = {} =>
            /\ context > 0 => (discarded <=> r - K > context)
            /\ Spaced(out, input, context)
            /\ out # <<>> => At(input, out[Len(out)]) = IF r < K THEN r ELSE K

GrepInv == \A K \in Nat : FilterInvK(K) => GrepK(K)

LEMMA GrepInit == FilterInit => GrepInv
<1> SUFFICES ASSUME FilterInit, NEW K \in Nat, FilterInvK(K) PROVE GrepK(K)
  BY DEF GrepInv
<1>1. /\ input = <<>> /\ Len(input) = 0 /\ out = <<>> /\ DOMAIN out = {} /\ returned = 0
      /\ discarded = FALSE /\ context \in Nat
  BY ContextsAreNat DEF FilterInit
<1>2. RankIn(input, 0) = 0
  BY RankIs
<1>3. ~(0 - K > context)
  BY <1>1
<1>4. Spaced(out, input, context)
  BY <1>1 DEF Spaced
<1> QED BY <1>1, <1>2, <1>3, <1>4 DEF GrepK

\* What is known before a line of any kind is fed.
LEMMA GrepFeeds ==
    ASSUME NEW K \in Nat, FilterInvK(K), NEW k \in Kinds, Fed(k)
    PROVE  /\ out \in Seq(Nat) /\ \A p \in DOMAIN out : out[p] \in 0..Len(input)
           /\ StatusLines(Append(input, k)) = {} => StatusLines(input) = {}
<1>1. /\ input \in Seq(Kinds) /\ context \in Nat /\ Len(input) \in Nat
      /\ Returned(out, KeptIn(input, context), StatusLines(input))
  BY DEF FilterInvK
<1>2. KeptIn(input, context) \subseteq 1..Len(input)
  BY DEF KeptIn
<1>3. ASSUME NEW p \in DOMAIN out
      PROVE  out[p] \in 0..Len(input)
  <2>1. out[p] = Separator \/ out[p] \in KeptIn(input, context)
    BY <1>1 DEF Returned
  <2> QED BY <1>1, <1>2, <2>1 DEF Separator
<1>4. StatusLines(Append(input, k)) = {} => StatusLines(input) = {}
  <2>1. CASE k = "match"
    BY <1>1, <2>1, MatchKeeps
  <2>2. CASE k # "match"
    <3>1. StatusLines(Append(input, k)) \cap 1..Len(input) = StatusLines(input)
      BY <1>1, <2>2, KeptGrows
    <3> QED BY <3>1
  <2> QED BY <2>1, <2>2
<1> QED BY <1>1, <1>3, <1>4 DEF Returned

\* A line that is no match leaves the reach, and so the invariant to show, as
\* it was.
LEMMA GrepSame ==
    ASSUME NEW K \in Nat, FilterInvK(K), NEW k \in Kinds, k # "match", Fed(k), GrepK(K)'
    PROVE  GrepInv'
<1> SUFFICES ASSUME NEW J \in Nat, FilterInvK(J)' PROVE J = K
  BY DEF GrepInv
<1>1. /\ input' = Append(input, k) /\ context' = context
      /\ input \in Seq(Kinds) /\ Append(input, k) \in Seq(Kinds) /\ context \in Nat
      /\ ReachIs(input, context, K)
  BY DEF Fed, FilterInvK
<1>2. ReachIs(Append(input, k), context, K)
  BY <1>1, ReachStays
<1>3. ReachIs(Append(input, k), context, J)
  BY <1>1 DEF FilterInvK
<1> QED BY <1>1, <1>2, <1>3, ReachUnique

\* A line for which nothing is returned.
LEMMA GrepQuiet ==
    ASSUME NEW K \in Nat, FilterInvK(K), GrepK(K), NEW k \in Kinds, k # "match", Fed(k),
           UNCHANGED <<out, returned>>,
           k \in Eligible => RankIn(input, Len(input)) >= K,
           context > 0 /\ StatusLines(input) = {} =>
              (discarded' <=> RankIn(Append(input, k), Len(input) + 1) - K > context)
    PROVE  GrepInv'
<1> DEFINE all == Append(input, k)
           N == Len(input)
           r == RankIn(input, N)
           s == RankIn(all, N + 1)
<1>1. /\ input' = all /\ context' = context /\ Len(all) = N + 1
      /\ context \in Nat /\ input \in Seq(Kinds) /\ r \in Nat /\ N \in Nat
      /\ s = IF k \in Eligible THEN r + 1 ELSE r
  BY Feeds
<1>2. /\ out \in Seq(Nat) /\ \A p \in DOMAIN out : out[p] \in 0..N
      /\ StatusLines(all) = {} => StatusLines(input) = {}
  BY GrepFeeds
<1>3. /\ Spaced(out, all, context) <=> Spaced(out, input, context)
      /\ out # <<>> => At(all, out[Len(out)]) = At(input, out[Len(out)])
  BY <1>1, <1>2, SpacedStays
<1>4. /\ returned \in Nat /\ (returned = 0 <=> out = <<>>)
      /\ StatusLines(input) = {} =>
            /\ Spaced(out, input, context)
            /\ out # <<>> => At(input, out[Len(out)]) = IF r < K THEN r ELSE K
  BY DEF GrepK
<1>5. (IF r < K THEN r ELSE K) = (IF s < K THEN s ELSE K)
  <2> HIDE DEF r, s
  <2>1. k \in Eligible => r >= K
    BY DEF r
  <2> QED BY <1>1, <2>1
<1> HIDE DEF all, r, s
<1>6. RankIn(input', Len(input')) = s
  BY <1>1 DEF s
<1>7. StatusLines(all) = {} =>
         /\ context > 0 => (discarded' <=> s - K > context)
         /\ Spaced(out, all, context)
         /\ out # <<>> => At(all, out[Len(out)]) = IF s < K THEN s ELSE K
  BY <1>2, <1>3, <1>4, <1>5 DEF s, all
<1>8. GrepK(K)'
  BY <1>1, <1>4, <1>6, <1>7 DEF GrepK
<1> QED BY <1>8, GrepSame

\* The lines ls, returned with a line of kind k after which the reach is J, join
\* what was returned before: they are neighbours, they end at the reach or at the
\* last entry, and discarded says whether the first is next to the last returned.
Joins(ls, k, K, J) ==
    LET all == Append(input, k)
        r == RankIn(input, Len(input))
        s == RankIn(all, Len(all))
    IN  /\ ls \in Seq(Nat \ {0}) /\ Len(ls) > 0
        /\ \A i \in 1..(Len(ls) - 1) : ~(At(all, ls[i + 1]) - At(all, ls[i]) > 1)
        /\ At(all, ls[Len(ls)]) = IF s < J THEN s ELSE J
        /\ ~(s - J > context)
        /\ (r - K > context) <=> (At(all, ls[1]) - (IF r < K THEN r ELSE K) > 1)

\* Lines returned together, the last of which belongs to the last entry within
\* the reach J.
LEMMA GrepReturns ==
    ASSUME NEW K \in Nat, FilterInvK(K), GrepK(K), NEW k \in Kinds, Fed(k), NEW J \in Nat,
           NEW ls, Joins(ls, k, K, J), Emit(ls)
    PROVE  GrepK(J)'
<1>1. PICK all, r, s : /\ all = Append(input, k)
                       /\ r = RankIn(input, Len(input)) /\ s = RankIn(all, Len(all))
  OBVIOUS
<1>2. /\ ls \in Seq(Nat \ {0}) /\ Len(ls) > 0
      /\ \A i \in 1..(Len(ls) - 1) : ~(At(all, ls[i + 1]) - At(all, ls[i]) > 1)
      /\ At(all, ls[Len(ls)]) = IF s < J THEN s ELSE J
      /\ ~(s - J > context)
      /\ (r - K > context) <=> (At(all, ls[1]) - (IF r < K THEN r ELSE K) > 1)
  BY <1>1 DEF Joins
<1>3. /\ input' = all /\ context' = context
      /\ context \in Nat /\ input \in Seq(Kinds)
  BY <1>1, Feeds
<1>4. /\ out \in Seq(Nat) /\ \A p \in DOMAIN out : out[p] \in 0..Len(input)
      /\ StatusLines(all) = {} => StatusLines(input) = {}
  BY <1>1, GrepFeeds
<1>5. returned \in Nat /\ (returned = 0 <=> out = <<>>)
  BY DEF GrepK
<1>6. out' = (out \o Gap) \o ls /\ returned' = returned + Len(ls) /\ discarded' = FALSE
  BY DEF Emit
<1>7. returned' \in Nat /\ returned' # 0
  BY <1>5, <1>6, <1>2
<1>8. out' # <<>>
  <2>1. Gap \in Seq(Nat) /\ Len(out') = Len(out \o Gap) + Len(ls)
    BY <1>4, <1>6, <1>2 DEF Gap, Separator
  <2>2. Len(out \o Gap) \in Nat
    BY <1>4, <2>1
  <2> QED BY <1>2, <2>1, <2>2
<1>9. ASSUME StatusLines(all) = {}
      PROVE  Spaced(out', all, context) /\ At(all, out'[Len(out')]) = IF s < J THEN s ELSE J
  <2>1. /\ context > 0 => (discarded <=> r - K > context)
        /\ Spaced(out, input, context)
        /\ out # <<>> => At(input, out[Len(out)]) = IF r < K THEN r ELSE K
    BY <1>1, <1>4, <1>9 DEF GrepK
  <2>2. /\ Spaced(out, all, context)
        /\ out # <<>> => At(all, out[Len(out)]) = IF r < K THEN r ELSE K
    BY <1>1, <1>3, <1>4, <2>1, SpacedStays
  <2>3. ASSUME out # <<>>, context > 0
        PROVE  discarded <=> ApartIn(all, context, out[Len(out)], ls[1])
    BY <1>2, <2>1, <2>2, <2>3 DEF ApartIn
  <2>4. Gap = IF out # <<>> /\ ApartIn(all, context, out[Len(out)], ls[1])
                THEN <<Separator>> ELSE <<>>
    <3>1. ~(context > 0) => ~ApartIn(all, context, out[Len(out)], ls[1])
      BY DEF ApartIn
    <3>2. returned > 0 <=> out # <<>>
      BY <1>5
    <3>3. (discarded /\ context > 0 /\ returned > 0) <=>
            (out # <<>> /\ ApartIn(all, context, out[Len(out)], ls[1]))
      BY <2>3, <3>1, <3>2, Zenon
    <3> QED BY <3>3, Zenon DEF Gap
  <2>5. PICK g : g = Gap
    OBVIOUS
  <2>6. /\ Spaced((out \o g) \o ls, all, context)
        /\ ((out \o g) \o ls)[Len((out \o g) \o ls)] = ls[Len(ls)]
    BY <1>3, <1>4, <1>2, <2>2, <2>4, <2>5, SpacedGrows
  <2> QED BY <1>6, <1>2, <2>5, <2>6
<1>10. discarded' <=> s - J > context
  BY <1>6, <1>2
<1> QED BY <1>1, <1>3, <1>7, <1>8, <1>9, <1>10 DEF GrepK

\* What a match returns: the lines of the held entries and of its own.
LEMMA MatchLists ==
    ASSUME NEW ins \in Seq(Kinds), NEW c \in Nat, NEW K \in Nat, NEW bs, HeldIs(ins, c, K, bs),
           NEW r, r = RankIn(ins, Len(ins)), NEW L, L = Len(bs),
           NEW all, all = Append(ins, "match")
    PROVE  Lists(Append(FlattenSeq(bs), Len(ins) + 1),
                 LinesBetween(all, r - L + 1, r + 1))
<1> DEFINE N == Len(ins)
           S == LinesBetween(ins, r - L + 1, r)
<1>1. r \in Nat /\ L \in 0..r /\ Lists(FlattenSeq(bs), S)
  BY HeldLists
<1>2. /\ N \in Nat /\ Len(all) = N + 1 /\ all[N + 1] = "match" /\ "match" \in Kinds
      /\ "match" \in Entries /\ "match" \in Eligible
  BY DEF Kinds, Entries, Eligible
<1>3. Entry(all, N + 1) = N + 1 /\ RankIn(all, N + 1) = r + 1
  BY <1>2, EntryGrows DEF Eligible
<1>4. ASSUME NEW a
      PROVE  LinesOf(all, a) = IF a = r + 1 THEN LinesOf(ins, a) \cup {N + 1} ELSE LinesOf(ins, a)
  <2>1. /\ "match" \notin {"blank", "status"} /\ Entry(all, N + 1) # 0
        /\ all[Entry(all, N + 1)] \in Eligible
        /\ RankIn(all, Entry(all, N + 1)) = r + 1
    BY <1>2, <1>3
  <2> QED BY <1>2, <2>1, LinesGrow
<1>5. LinesOf(ins, r + 1) = {}
  <2>1. r + 1 \in Nat /\ r + 1 > RankIn(ins, Len(ins))
    BY <1>1
  <2> QED BY <2>1, NoLinesAhead
<1>6. S \cup {N + 1} = LinesBetween(all, r - L + 1, r + 1)
  <2>1. (r - L + 1)..(r + 1) = ((r - L + 1)..r) \cup {r + 1} /\ r + 1 \notin (r - L + 1)..r
    BY <1>1
  <2>2. \A a \in (r - L + 1)..r : LinesOf(all, a) = LinesOf(ins, a)
    BY <1>4, <2>1
  <2>3. LinesOf(all, r + 1) = {N + 1}
    BY <1>4, <1>5
  <2> QED BY <2>1, <2>2, <2>3 DEF LinesBetween
<1>7. \A y \in S : y < N + 1
  BY <1>2 DEF LinesOf, LinesBetween
<1> HIDE DEF S
<1>8. Lists(Append(FlattenSeq(bs), N + 1), S \cup {N + 1})
  <2>1. N + 1 \in Nat
    BY <1>2
  <2> QED BY <1>1, <1>7, <2>1, ListsAppend
<1> QED BY <1>6, <1>8

----------------------------------------------------------------------------
(* Every action keeps it *)

LEMMA GrepMatch == ASSUME FilterInv, GrepInv, Match PROVE GrepInv'
<1>1. PICK K \in Nat : FilterInvK(K)
  BY DEF FilterInv
<1>2. GrepK(K)
  BY <1>1 DEF GrepInv
<1>0. PICK all, N, r, L, ls :
         /\ all = Append(input, "match") /\ N = Len(input) /\ r = RankIn(input, Len(input))
         /\ L = Len(before) /\ ls = Append(FlattenSeq(before), Len(input) + 1)
  OBVIOUS
<1>3. Fed("match") /\ Emit(ls) /\ "match" \in Kinds /\ "match" \in Eligible /\ "match" \in Entries
  BY <1>0 DEF Match, Line, Kinds, Eligible, Entries
<1>4. /\ input' = all /\ context' = context /\ input \in Seq(Kinds) /\ all \in Seq(Kinds)
      /\ context \in Nat /\ N \in Nat /\ r \in Nat /\ Len(all) = N + 1 /\ all[N + 1] = "match"
      /\ RankIn(all, N + 1) = r + 1
  BY <1>0, <1>1, <1>3, Feeds
<1>5. HeldIs(input, context, K, before)
  BY <1>1 DEF FilterInvK
<1>6. L \in 0..r /\ L = IF r <= K THEN 0 ELSE IF r - K < context THEN r - K ELSE context
  <2>1. L \in 0..r
    BY <1>0, <1>4, <1>5, HeldLists
  <2> QED BY <1>0, <1>5, <2>1 DEF HeldIs
<1>7. PICK lo, hi : lo = r - L + 1 /\ hi = r + 1
  OBVIOUS
<1>8. Lists(ls, LinesBetween(all, lo, hi))
  <2>1. Lists(ls, LinesBetween(all, r - L + 1, r + 1))
    BY <1>0, <1>4, <1>5, MatchLists
  <2> QED BY <1>7, <2>1
<1>9. lo \in 1..hi /\ hi \in lo..hi /\ hi = RankIn(all, Len(all))
  BY <1>4, <1>6, <1>7
<1>10. /\ ls \in Seq(Nat \ {0}) /\ Len(ls) > 0
       /\ At(all, ls[1]) = lo /\ At(all, ls[Len(ls)]) = hi
       /\ \A i \in 1..(Len(ls) - 1) : ~(At(all, ls[i + 1]) - At(all, ls[i]) > 1)
  <2>1. hi \in lo..hi /\ lo \in 1..hi
    BY <1>9
  <2> QED BY <1>4, <1>8, <1>9, <2>1, RunOfLines
<1>11. PICK J \in Nat : J = r + 1 + context
  BY <1>4
<1>12. (r - K > context) <=> (lo - (IF r < K THEN r ELSE K) > 1)
  BY <1>4, <1>6, <1>7
<1>13. /\ At(all, ls[Len(ls)]) = IF hi < J THEN hi ELSE J
       /\ ~(hi - J > context)
  BY <1>4, <1>7, <1>10, <1>11
<1>14. GrepK(J)'
  <2>1. (r - K > context) <=> (At(all, ls[1]) - (IF r < K THEN r ELSE K) > 1)
    BY <1>10, <1>12
  <2>2. Joins(ls, "match", K, J)
    BY <1>0, <1>9, <1>10, <1>13, <2>1 DEF Joins
  <2> QED BY <1>1, <1>2, <1>3, <1>11, <2>2, GrepReturns
<1>15. ASSUME NEW M \in Nat, FilterInvK(M)'
       PROVE  M = J
  <2>1. ReachIs(all, context, J)
    BY <1>0, <1>4, <1>11, ReachMoves
  <2>2. ReachIs(all, context, M)
    BY <1>4, <1>15 DEF FilterInvK
  <2> QED BY <1>4, <2>1, <2>2, ReachUnique
<1> QED BY <1>14, <1>15 DEF GrepInv

\* One line of the current entry, which is within reach.
LEMMA GrepOne ==
    ASSUME NEW K \in Nat, FilterInvK(K), GrepK(K), NEW k \in Kinds, k # "match", Fed(k),
           Emit(<<Line>>),
           Entry(Append(input, k), Len(input) + 1) # 0,
           RankIn(Append(input, k), Len(input) + 1) <= K
    PROVE  GrepInv'
<1> DEFINE N == Len(input)
<1>1. PICK all, r, s, ls : /\ all = Append(input, k) /\ ls = <<N + 1>>
                           /\ r = RankIn(input, N) /\ s = RankIn(all, Len(all))
  OBVIOUS
<1>2. /\ context \in Nat /\ all \in Seq(Kinds) /\ N \in Nat /\ r \in Nat /\ Len(all) = N + 1
      /\ s = IF k \in Eligible THEN r + 1 ELSE r
  BY <1>1, Feeds
<1>3. At(all, N + 1) = s
  BY <1>1, <1>2, LastRank DEF At
<1>4. s <= K
  BY <1>1, <1>2
<1>5. /\ ls \in Seq(Nat \ {0}) /\ Len(ls) = 1 /\ ls[1] = N + 1
      /\ 1..(Len(ls) - 1) = {} /\ Len(ls) > 0
  BY <1>1, <1>2
<1>6. /\ s = IF s < K THEN s ELSE K
      /\ ~(s - K > context)
      /\ (r - K > context) <=> (s - (IF r < K THEN r ELSE K) > 1)
  BY <1>2, <1>4
<1>7. Emit(ls)
  BY <1>1 DEF Line
<1>8. \A i \in 1..(Len(ls) - 1) : ~(At(all, ls[i + 1]) - At(all, ls[i]) > 1)
  BY <1>5
<1>9. At(all, ls[1]) = s /\ At(all, ls[Len(ls)]) = IF s < K THEN s ELSE K
  BY <1>3, <1>5, <1>6
<1>10. (r - K > context) <=> (At(all, ls[1]) - (IF r < K THEN r ELSE K) > 1)
  BY <1>6, <1>9
<1>11. GrepK(K)'
  <2>1. ~(s - K > context) /\ Len(ls) > 0 /\ ls \in Seq(Nat \ {0})
    BY <1>5, <1>6
  <2>2. Joins(ls, k, K, K)
    BY <1>1, <1>8, <1>9, <1>10, <2>1 DEF Joins
  <2> QED BY <1>7, <2>2, GrepReturns
<1> QED BY <1>11, GrepSame

LEMMA GrepOthers ==
    ASSUME FilterInv, GrepInv,
           Blank \/ Ineligible \/ Trailing \/ Hold \/ Continuation \/ Status
    PROVE  GrepInv'
<1>1. PICK K \in Nat : FilterInvK(K)
  BY DEF FilterInv
<1>2. GrepK(K)
  BY <1>1 DEF GrepInv
<1> DEFINE N == Len(input)
           r == RankIn(input, N)
<1>3. /\ context \in Nat /\ input \in Seq(Kinds) /\ N \in Nat /\ r \in Nat
      /\ ReachIs(input, context, K) /\ HeldIs(input, context, K, before)
      /\ StateIs(input, K, state)
      /\ after = (IF r < K THEN K - r ELSE 0)
      /\ seen_entry = (Entry(input, N) # 0)
  BY <1>1, RankIs DEF FilterInvK
<1>4. StatusLines(input) = {} /\ context > 0 => (discarded <=> r - K > context)
  BY <1>2 DEF GrepK
<1>5. ASSUME NEW k \in Kinds, Fed(k)
      PROVE  /\ RankIn(Append(input, k), N + 1) = IF k \in Eligible THEN r + 1 ELSE r
             /\ Entry(Append(input, k), N + 1) = IF k \in Entries THEN N + 1 ELSE Entry(input, N)
  BY <1>1, <1>5, Feeds
<1> HIDE DEF r
<1>6. CASE Blank \/ Ineligible
  <2>1. PICK k \in {"blank", "ineligible"} : Fed(k) /\ UNCHANGED <<out, returned, discarded>>
    BY <1>6 DEF Blank, Ineligible, Nothing
  <2>2. k \in Kinds /\ k # "match" /\ k \notin Eligible
    BY DEF Kinds, Eligible
  <2> QED BY <1>1, <1>2, <1>4, <1>5, <2>1, <2>2, GrepQuiet
<1>7. CASE Trailing
  <2>1. Fed("other") /\ after > 0 /\ Emit(<<Line>>)
    BY <1>7 DEF Trailing
  <2>2. "other" \in Kinds /\ "other" # "match" /\ "other" \in Eligible /\ "other" \in Entries
    BY DEF Kinds, Eligible, Entries
  <2>3. r + 1 <= K
    BY <1>3, <2>1
  <2>4. Entry(Append(input, "other"), N + 1) # 0 /\ RankIn(Append(input, "other"), N + 1) <= K
    BY <1>3, <1>5, <2>1, <2>2, <2>3
  <2> QED BY <1>1, <1>2, <2>1, <2>2, <2>4, GrepOne
<1>8. CASE Hold
  <2>1. Fed("other") /\ after = 0 /\ UNCHANGED <<out, returned>>
    BY <1>8 DEF Hold
  <2>2. "other" \in Kinds /\ "other" # "match" /\ "other" \in Eligible
    BY DEF Kinds, Eligible
  <2>3. r >= K
    BY <1>3, <2>1
  <2>4. ASSUME context > 0, StatusLines(input) = {}
        PROVE  discarded' <=> (r + 1) - K > context
    <3> DEFINE b == Append(before, <<N + 1>>)
    <3>1. discarded' = (discarded \/ Len(b) > context)
      BY <1>3, <1>8, <2>4 DEF Hold, Overfull, Line
    <3>2. before \in Seq(Seq(Nat)) /\ Len(b) = Len(before) + 1
      BY <1>3 DEF HeldIs
    <3>3. PICK L : /\ L = Len(before)
                   /\ L = IF r <= K THEN 0 ELSE IF r - K < context THEN r - K ELSE context
      BY <1>3 DEF HeldIs, r
    <3>4. (r - K > context \/ L + 1 > context) <=> (r + 1) - K > context
      BY <1>3, <2>3, <2>4, <3>3
    <3> HIDE DEF b
    <3> QED BY <1>4, <2>4, <3>1, <3>2, <3>3, <3>4
  <2> QED BY <1>1, <1>2, <1>5, <2>1, <2>2, <2>3, <2>4, GrepQuiet DEF r
<1>9. CASE Continuation
  <2>1. seen_entry /\ Fed("indent")
    BY <1>9 DEF Continuation
  <2>2. /\ "indent" \in Kinds /\ "indent" # "match" /\ "indent" \notin Eligible
        /\ "indent" \notin Entries
    BY DEF Kinds, Eligible, Entries
  <2>3. CASE state = "keep"
    <3>1. r <= K /\ Entry(input, N) # 0
      BY <1>3, <2>3 DEF StateIs, r
    <3>2. Emit(<<Line>>)
      BY <1>9, <2>3 DEF Continuation
    <3>3. Entry(Append(input, "indent"), N + 1) # 0 /\ RankIn(Append(input, "indent"), N + 1) <= K
      BY <1>5, <2>1, <2>2, <3>1
    <3> QED BY <1>1, <1>2, <2>1, <2>2, <3>2, <3>3, GrepOne
  <2>4. CASE state # "keep"
    <3>1. UNCHANGED <<out, returned>> /\ (context > 0 => discarded' = discarded)
      BY <1>3, <1>9, <2>4 DEF Continuation, Nothing
    <3> QED BY <1>1, <1>2, <1>4, <1>5, <2>1, <2>2, <3>1, GrepQuiet
  <2> QED BY <2>3, <2>4
<1>10. CASE Status
  <2>1. PICK k \in {"status", "indent"} : Fed(k) /\ (k = "indent" => ~seen_entry)
    BY <1>10 DEF Status
  <2>2. k \in Kinds /\ k # "match" /\ k \notin Entries
    BY DEF Kinds, Entries
  <2>3. /\ input' = Append(input, k) /\ Len(Append(input, k)) = N + 1
        /\ Append(input, k)[N + 1] = k
    BY <1>1, <2>1, <2>2, Feeds
  <2>4. N + 1 \in StatusLines(Append(input, k))
    <3>1. k = "indent" => Entry(Append(input, k), N + 1) = 0
      BY <1>3, <1>5, <2>1, <2>2
    <3> QED BY <1>3, <2>3, <3>1 DEF StatusLines
  <2>5. out' = (out \o Gap) \o <<N + 1>> /\ returned' = returned + 1
    BY <1>10 DEF Status, Emit, Line
  <2>6. out \in Seq(Nat) /\ returned \in Nat
    BY <1>1, <1>2, <2>1, <2>2, GrepFeeds DEF GrepK
  <2>7. returned' \in Nat /\ returned' # 0
    BY <2>5, <2>6
  <2>8. out' # <<>>
    <3>0. Gap \in Seq(Nat)
      BY DEF Gap, Separator
    <3>1. PICK g, o : g = Gap /\ o = out /\ g \in Seq(Nat) /\ o \in Seq(Nat)
      BY <2>6, <3>0
    <3>2. Len((o \o g) \o <<N + 1>>) = Len(o) + Len(g) + 1
      BY <1>3, <3>1
    <3> QED BY <2>5, <3>1, <3>2
  <2>9. GrepK(K)'
    BY <2>3, <2>4, <2>7, <2>8 DEF GrepK
  <2> QED BY <1>1, <2>1, <2>2, <2>9, GrepSame
<1> QED BY <1>6, <1>7, <1>8, <1>9, <1>10

LEMMA GrepNext == FilterInv /\ GrepInv /\ [FilterNext]_filter_vars => GrepInv'
<1>1. ASSUME GrepInv, UNCHANGED filter_vars
      PROVE  GrepInv'
  BY <1>1 DEF GrepInv, GrepK, FilterInvK, filter_vars
<1> QED BY <1>1, GrepMatch, GrepOthers DEF FilterNext

LEMMA GrepRight == FilterInv /\ GrepInv => AsGrep
<1> SUFFICES ASSUME FilterInv, GrepInv, \A i \in 1..Len(input) : ~IsStatus(i),
                    NEW p \in DOMAIN out
             PROVE  IF out[p] = Separator
                      THEN {p - 1, p + 1} \subseteq Places /\ Apart(out[p - 1], out[p + 1])
                      ELSE p + 1 \in Places => ~Apart(out[p], out[p + 1])
  BY DEF AsGrep
<1>1. PICK K \in Nat : FilterInvK(K) /\ GrepK(K)
  BY DEF FilterInv, GrepInv
<1>2. \A i \in 1..Len(input) : IsStatus(i) <=> i \in StatusLines(input)
  BY DEF IsStatus, EntryOf, StatusLines, Entry
<1>3. StatusLines(input) = {}
  BY <1>2 DEF StatusLines
<1>4. Spaced(out, input, context)
  BY <1>1, <1>3 DEF GrepK
<1>5. DOMAIN out = 1..Len(out) /\ Len(out) \in Nat
  BY <1>1 DEF FilterInvK, Returned
<1>6. \A i, j : Apart(i, j) <=> ApartIn(input, context, i, j)
  <2>1. \A i : EntryOf(i) = Entry(input, i)
    BY DEF EntryOf, Entry
  <2>2. \A i : Rank(i) = RankIn(input, i)
    BY DEF Rank, RankIn
  <2> QED BY <2>1, <2>2 DEF Apart, ApartIn, At
<1>7. CASE out[p] = Separator
  <2>1. /\ p > 1 /\ p < Len(out)
        /\ out[p - 1] # Separator /\ out[p + 1] # Separator
        /\ ApartIn(input, context, out[p - 1], out[p + 1])
    BY <1>4, <1>7 DEF Spaced
  <2> QED BY <1>5, <1>6, <1>7, <2>1 DEF Places
<1>8. CASE out[p] # Separator
  <2>1. p + 1 \in Places => p < Len(out) /\ out[p + 1] # Separator
    BY <1>5 DEF Places
  <2> QED BY <1>4, <1>6, <1>8, <2>1 DEF Spaced
<1> QED BY <1>7, <1>8

\* Without status lines, the filter's output is that of grep -C: a separator
\* stands between lines whose entries are not neighbours, and nowhere else
\* (LogFilter._emit and _hold: discarded says just when the next line kept is
\* not next to the last).
THEOREM OutputAsGrep == FilterSpec => []AsGrep
<1>1. FilterInv /\ GrepInv => AsGrep
  BY GrepRight
<1> QED BY <1>1, FilterInvInit, GrepInit, FilterInvNext, GrepNext, PTL DEF FilterSpec

----------------------------------------------------------------------------
(* async_capture *)

USE MaxLinesPositive, BurstPositive, MaxRawIsNat

\* Keeping the lines of one feed appends at most a burst of them, and nothing
\* once the capture is full.
LEMMA KeepAppends ==
    ASSUME TypeOK, NEW n \in 0..Burst, Len(delivered) < MaxRaw
    PROVE  /\ Keep(n) \in Seq(1..MaxRaw)
           /\ Len(Keep(n)) = IF full THEN Len(lines) ELSE Len(lines) + n
           /\ \A i \in 1..Len(lines) : Keep(n)[i] = lines[i]
           /\ full \/ n = 0 => Keep(n) = lines
<1> DEFINE burst == [i \in 1..n |-> Len(delivered) + 1]
<1>1. Len(delivered) \in Nat /\ n \in Nat
  BY DEF TypeOK
<1>2. burst \in Seq(1..MaxRaw) /\ Len(burst) = n
  BY <1>1
<1>3. CASE full
  BY <1>3 DEF TypeOK, Keep
<1>4. CASE ~full
  <2>1. Keep(n) = lines \o burst
    BY <1>4 DEF Keep
  <2>2. lines \in Seq(1..MaxRaw)
    BY DEF TypeOK
  <2> HIDE DEF burst
  <2>3. Keep(n) \in Seq(1..MaxRaw) /\ Len(Keep(n)) = Len(lines) + n
    BY <2>1, <2>2, <1>2, ConcatProperties
  <2>4. \A i \in 1..Len(lines) : Keep(n)[i] = lines[i]
    BY <2>1, <2>2, <1>2
  <2>5. n = 0 => Keep(n) = lines
    BY <2>1, <2>2, <1>2
  <2> QED
    BY <1>4, <2>3, <2>4, <2>5
<1> QED
  BY <1>3, <1>4 DEF TypeOK

----------------------------------------------------------------------------
(* The inductive invariant *)

\* Where the caller is says where the stream task can be: only the caller
\* cancels it, and only on leaving its wait.
PhaseInv ==
    /\ caller \in {"waiting", "cancelled"} =>
         stream \in {"starting", "open", "window", "closed", "failed"}
    /\ caller = "winding" =>
         /\ stream \in {"aborting", "cancelling", "cancelled", "failed"}
         /\ end_reason \in {"max_lines", "stopped"}
         /\ truncated
    /\ caller = "returned" => stream \in Done /\ end_reason # "none"
    /\ caller = "raised" => stream = "failed"

\* The reason given is the true one.
ReasonInv ==
    /\ end_reason = "max_lines" => full
    /\ end_reason = "stopped" => stop
    /\ end_reason \in {"window", "closed"} => caller = "returned" /\ stream = end_reason
    /\ caller = "returned" /\ stream = "failed" => end_reason = "max_lines"
    /\ caller = "returned" /\ ~truncated => end_reason = "closed" /\ ~full

\* full says exactly that the limit is reached, and it is passed by less than
\* a burst.
CountInv ==
    /\ full <=> Len(lines) >= MaxLines
    /\ Len(lines) < MaxLines + Burst

IInv == TypeOK /\ PhaseInv /\ ReasonInv /\ CountInv

LEMMA InitIInv == Init => IInv
<1> SUFFICES ASSUME Init PROVE IInv
  OBVIOUS
<1>1. TypeOK
  <2>1. <<>> \in Seq(0..Burst) /\ <<>> \in Seq(1..MaxRaw)
    OBVIOUS
  <2> QED
    BY <2>1 DEF Init, TypeOK, Streams, Callers, Reasons
<1>2. PhaseInv /\ ReasonInv
  BY DEF Init, PhaseInv, ReasonInv
<1>3. Len(lines) = 0
  BY DEF Init
<1>4. CountInv
  BY <1>3 DEF Init, CountInv
<1> QED
  BY <1>1, <1>2, <1>4 DEF IInv

LEMMA RawLineIInv ==
    ASSUME IInv, NEW n \in 0..Burst, RawLine(n)
    PROVE  IInv'
<1> USE DEF IInv
<1>1. /\ lines' = Keep(n)
      /\ full' = (full \/ Len(Keep(n)) >= MaxLines)
      /\ delivered' = Append(delivered, n)
      /\ Len(delivered) < MaxRaw
      /\ UNCHANGED <<stop, stream, caller, end_reason, truncated>>
      /\ stream \in {"open", "cancelling"}
  BY DEF RawLine
<1>2. Len(lines) \in Nat
  BY DEF TypeOK
<1>3. TypeOK'
  <2>1. delivered' \in Seq(0..Burst)
    BY <1>1 DEF TypeOK
  <2>2. lines' \in Seq(1..MaxRaw)
    BY <1>1, KeepAppends
  <2> QED
    BY <1>1, <2>1, <2>2 DEF TypeOK
<1>4. CountInv'
  <2>1. Len(lines') = IF full THEN Len(lines) ELSE Len(lines) + n
    BY <1>1, KeepAppends
  <2>2. full' = (full \/ Len(lines') >= MaxLines)
    BY <1>1
  <2>3. CASE full
    BY <2>1, <2>2, <2>3 DEF CountInv
  <2>4. CASE ~full
    <3>1. Len(lines) < MaxLines /\ Len(lines') = Len(lines) + n
      BY <1>2, <2>1, <2>4 DEF CountInv
    <3>2. Len(lines') < MaxLines + Burst
      BY <1>2, <3>1
    <3>3. full' = (Len(lines') >= MaxLines)
      BY <2>2, <2>4
    <3> QED
      BY <3>2, <3>3 DEF CountInv
  <2> QED
    BY <2>3, <2>4
<1>5. PhaseInv'
  BY <1>1 DEF PhaseInv
<1>6. ReasonInv'
  BY <1>1 DEF ReasonInv, PhaseInv, Done
<1> QED
  BY <1>3, <1>4, <1>5, <1>6

LEMMA StreamIInv ==
    ASSUME IInv,
           \/ StreamOpens \/ StreamFails \/ StreamUnwinds \/ AskStop
           \/ \E how \in {"window", "closed"} : StreamEnds(how)
    PROVE  IInv'
<1> USE DEF IInv, StreamOpens, StreamFails, StreamUnwinds, AskStop, StreamEnds
<1>1. TypeOK'
  BY DEF TypeOK, Streams
<1>2. PhaseInv'
  BY DEF PhaseInv, Done
<1>3. ReasonInv'
  BY DEF ReasonInv, PhaseInv, Done
<1>4. CountInv'
  BY DEF CountInv
<1> QED
  BY <1>1, <1>2, <1>3, <1>4

LEMMA CallerIInv ==
    ASSUME IInv, WakeFull \/ WakeStreamDone \/ WakeStopped \/ Return \/ OuterCancel
    PROVE  IInv'
<1> USE DEF IInv
<1>1. CASE WakeFull \/ WakeStopped
  <2> USE <1>1 DEF WakeFull, WakeStopped, StopLast, WindDown, Cancelled
  <2>1. TypeOK'
    BY DEF TypeOK, Streams, Callers, Reasons
  <2>2. PhaseInv'
    BY DEF PhaseInv, Done
  <2>3. ReasonInv'
    BY DEF ReasonInv, PhaseInv, Done
  <2>4. CountInv'
    BY DEF CountInv
  <2> QED
    BY <2>1, <2>2, <2>3, <2>4
<1>2. CASE WakeStreamDone
  <2> USE <1>2 DEF WakeStreamDone, Raises, StreamTruncated
  <2>1. TypeOK'
    BY DEF TypeOK, Streams, Callers, Reasons, PhaseInv, Done
  <2>2. PhaseInv'
    BY DEF PhaseInv, Done
  <2>3. ReasonInv'
    BY DEF ReasonInv, PhaseInv, Done
  <2>4. CountInv'
    BY DEF CountInv
  <2> QED
    BY <2>1, <2>2, <2>3, <2>4
<1>3. CASE Return \/ OuterCancel
  <2> USE <1>3 DEF Return, OuterCancel
  <2>1. TypeOK'
    BY DEF TypeOK, Callers
  <2>2. PhaseInv'
    BY DEF PhaseInv, Done
  <2>3. ReasonInv'
    BY DEF ReasonInv, PhaseInv, Done
  <2>4. CountInv'
    BY DEF CountInv
  <2> QED
    BY <2>1, <2>2, <2>3, <2>4
<1> QED
  BY <1>1, <1>2, <1>3

LEMMA NextIInv == IInv /\ [Next]_vars => IInv'
<1> SUFFICES ASSUME IInv, [Next]_vars PROVE IInv'
  OBVIOUS
<1>1. CASE UNCHANGED vars
  BY <1>1 DEF vars, IInv, TypeOK, PhaseInv, ReasonInv, CountInv
<1> QED
  BY <1>1, RawLineIInv, StreamIInv, CallerIInv DEF Next

\* What the stream, the limit and the stop say of a capture in each phase of its
\* caller.
THEOREM InvariantHolds == Spec => []IInv
BY InitIInv, NextIInv, PTL DEF Spec

----------------------------------------------------------------------------
(* Its consequences *)

\* Every variable keeps the shape the code gives it.
THEOREM TypeCorrect == Spec => []TypeOK
<1>1. IInv => TypeOK
  BY DEF IInv
<1> QED
  BY <1>1, InvariantHolds, PTL

\* Whatever the filter releases, max_lines is passed by less than one burst.
THEOREM Overshoot == Spec => []OvershootBounded
<1>1. IInv => OvershootBounded
  BY DEF IInv, CountInv, OvershootBounded
<1> QED
  BY <1>1, InvariantHolds, PTL

\* A stream's failure is raised unless the capture was full.
THEOREM FailuresSurface == Spec => []FailureSurfaces
<1>1. IInv => FailureSurfaces
  BY DEF IInv, ReasonInv, FailureSurfaces
<1> QED
  BY <1>1, InvariantHolds, PTL

\* No result is given while the stream task can still change it.
THEOREM ReturnsAfterStream == Spec => []ReturnedMeansStreamOver
<1>1. IInv => ReturnedMeansStreamOver
  BY DEF IInv, PhaseInv, Done, ReturnedMeansStreamOver
<1> QED
  BY <1>1, InvariantHolds, PTL

\* An untruncated result is the whole stream.
THEOREM ClosedComplete == Spec => []ClosedIsComplete
<1>1. IInv => ClosedIsComplete
  BY DEF IInv, ReasonInv, ClosedIsComplete
<1> QED
  BY <1>1, InvariantHolds, PTL

----------------------------------------------------------------------------
(* The capture implements BoundedCapture *)

LEMMA InitImplements == Init => Abstract!Init
BY DEF Init, Abstract!Init, Outcome, Source, Over

LEMMA RawLineImplements ==
    ASSUME IInv, NEW n \in 0..Burst, RawLine(n)
    PROVE  [Abstract!Next]_(Abstract!vars)
<1> USE DEF IInv
<1>1. /\ lines' = Keep(n)
      /\ Len(delivered) < MaxRaw
      /\ stream \in {"open", "cancelling"}
      /\ UNCHANGED <<stop, Outcome, Source>>
  BY DEF RawLine, Outcome, Source
<1>2. Source = "open" /\ Outcome \in {"pending", "cancelled"}
  BY <1>1 DEF Source, Outcome, PhaseInv, Done, Over, TypeOK, Callers
<1>3. CASE full \/ n = 0
  BY <1>1, <1>3, KeepAppends DEF Abstract!vars
<1>4. CASE ~full /\ n # 0
  <2>1. Len(lines) < MaxLines
    BY <1>4 DEF CountInv, TypeOK
  <2>2. n \in 1..Burst
    BY <1>4
  <2>3. Abstract!Collect
    BY <1>1, <1>2, <1>4, <2>1, <2>2, KeepAppends DEF Abstract!Collect
  <2> QED
    BY <2>3 DEF Abstract!Next
<1> QED
  BY <1>3, <1>4

LEMMA NextImplements ==
    ASSUME IInv, IInv', [Next]_vars
    PROVE  [Abstract!Next]_(Abstract!vars)
<1> USE DEF IInv, TypeOK, Outcome, Source
<1>1. CASE \E n \in 0..Burst : RawLine(n)
  BY <1>1, RawLineImplements
<1>2. CASE StreamOpens \/ StreamFails \/ \E how \in {"window", "closed"} : StreamEnds(how)
  BY <1>2 DEF StreamOpens, StreamFails, StreamEnds, Abstract!vars, Abstract!Next,
              Abstract!SourceEnds, Abstract!Sources
<1>3. CASE StreamUnwinds
  BY <1>3 DEF StreamUnwinds, Abstract!vars, Abstract!Next,
              Abstract!SourceEnds, Abstract!Sources
<1>4. CASE AskStop
  BY <1>4 DEF AskStop, Abstract!Next, Abstract!AskStop
<1>5. CASE WakeFull
  <2>1. full /\ Len(lines) >= MaxLines
    BY <1>5 DEF WakeFull, CountInv
  <2>2. Outcome = "pending" /\ Outcome' \in {"pending", "max_lines"}
    BY <1>5 DEF WakeFull, WindDown, Over
  <2>3. UNCHANGED <<lines, stop, Source>>
    <3>1. stream \in {"starting", "open", "window", "closed", "failed"}
      BY <1>5 DEF WakeFull, PhaseInv
    <3>2. CASE stream \in Done
      BY <1>5, <3>2 DEF WakeFull, WindDown
    <3>3. CASE stream \notin Done
      BY <1>5, <3>1, <3>3 DEF WakeFull, WindDown, Cancelled, Done
    <3> QED
      BY <3>2, <3>3
  <2>4. Outcome' = "max_lines" => Abstract!End("max_lines")
    BY <2>1, <2>2, <2>3 DEF Abstract!End
  <2> QED
    BY <2>2, <2>3, <2>4 DEF Abstract!vars, Abstract!Next, Abstract!Outcomes
<1>6. CASE WakeStopped
  <2>1. stop /\ stream \notin Done
    BY <1>6 DEF WakeStopped, StopLast
  <2>2. UNCHANGED <<lines, stop, Source, Outcome>>
    BY <1>6, <2>1 DEF WakeStopped, WindDown, Cancelled, PhaseInv, Over, Done
  <2> QED
    BY <2>2 DEF Abstract!vars
<1>7. CASE WakeStreamDone
  <2>1. Outcome = "pending" /\ UNCHANGED <<lines, stop, Source>>
    BY <1>7 DEF WakeStreamDone, Over
  <2>2. CASE Raises
    <3>1. Outcome' = "raised" /\ Source = "failed"
      BY <1>7, <2>2 DEF WakeStreamDone, Raises, Over
    <3>2. Abstract!End("raised")
      BY <2>1, <3>1 DEF Abstract!End
    <3> QED
      BY <3>2 DEF Abstract!Next, Abstract!Outcomes
  <2>3. CASE ~Raises
    <3>1. Outcome' = stream /\ Source = stream /\ stream \in {"window", "closed"}
      BY <1>7, <2>3 DEF WakeStreamDone, Raises, PhaseInv, Done
    <3>2. Abstract!End(stream)
      BY <2>1, <3>1 DEF Abstract!End
    <3> QED
      BY <3>1, <3>2 DEF Abstract!Next, Abstract!Outcomes
  <2> QED
    BY <2>2, <2>3
<1>8. CASE Return
  <2>1. Outcome = "pending" /\ UNCHANGED <<lines, stop, Source>>
    BY <1>8 DEF Return, Over
  <2>2. CASE stream = "failed"
    <3>1. Outcome' = "raised" /\ Source = "failed"
      BY <1>8, <2>2 DEF Return, Over
    <3>2. Abstract!End("raised")
      BY <2>1, <3>1 DEF Abstract!End
    <3> QED
      BY <3>2 DEF Abstract!Next, Abstract!Outcomes
  <2>3. CASE stream # "failed"
    <3>1. Outcome' = end_reason /\ end_reason \in {"max_lines", "stopped"}
      BY <1>8, <2>3 DEF Return, PhaseInv
    <3>2. /\ end_reason = "max_lines" => Len(lines) >= MaxLines
          /\ end_reason = "stopped" => stop
      BY DEF ReasonInv, CountInv
    <3>3. Abstract!End(end_reason)
      BY <2>1, <3>1, <3>2 DEF Abstract!End
    <3> QED
      BY <3>1, <3>3 DEF Abstract!Next, Abstract!Outcomes
  <2> QED
    BY <2>2, <2>3
<1>9. CASE OuterCancel
  <2>1. Outcome = "pending" /\ Outcome' = "cancelled" /\ UNCHANGED <<lines, stop, Source>>
    BY <1>9 DEF OuterCancel, Over
  <2>2. Abstract!End("cancelled")
    BY <2>1 DEF Abstract!End
  <2> QED
    BY <2>2 DEF Abstract!Next, Abstract!Outcomes
<1>10. CASE UNCHANGED vars
  BY <1>10 DEF vars, Abstract!vars
<1> QED
  BY <1>1, <1>2, <1>3, <1>4, <1>5, <1>6, <1>7, <1>8, <1>9, <1>10 DEF Next

\* async_capture keeps every promise of BoundedCapture.
THEOREM Refinement == Spec => ImplementsBoundedCapture
<1>1. IInv /\ IInv' /\ [Next]_vars => [Abstract!Next]_(Abstract!vars)
  BY NextImplements
<1> QED
  BY <1>1, InitImplements, InvariantHolds, PTL
     DEF Spec, ImplementsBoundedCapture, Abstract!Spec

----------------------------------------------------------------------------
(* Nothing that was released is lost *)

\* How many lines were released, from the recursion, and after one raw line
\* more.
LEMMA ReleasedIs ==
    ASSUME NEW ds \in Seq(Nat), NEW r, r = Released(ds)
    PROVE  /\ r \in [0..Len(ds) -> Nat]
           /\ r[0] = 0
           /\ \A k \in 1..Len(ds) : r[k] = r[k - 1] + ds[k]
<1> DEFINE n == Len(ds)
           V == Nat
           Put(i, v) == v + ds[i]
           step == [i \in 1..n |-> [v \in V |-> Put(i, v)]]
           Eq(f) == f = [i \in 0..n |-> IF i = 0 THEN 0 ELSE Put(i, f[i - 1])]
<1>1. n \in Nat /\ 0 \in V /\ \A i \in 1..n, v \in V : Put(i, v) \in V
  OBVIOUS
<1>2. r = CHOOSE g : Eq(g)
  BY DEF Released
<1> HIDE DEF Put, n, V
<1>3. step \in Steps(n, V)
  BY <1>1 DEF Steps
<1>4. PICK f \in [0..n -> V] : Runs(f, n, 0, step)
  <2> HIDE DEF step
  <2> QED BY <1>1, <1>3, RecursionHolds
<1>5. \A i \in 1..n : f[i] = Put(i, f[i - 1])
  <2> SUFFICES ASSUME NEW i \in 1..n
               PROVE  f[i] = Put(i, f[i - 1])
    OBVIOUS
  <2>1. i - 1 \in 0..n
    BY <1>1
  <2>2. f[i - 1] \in V
    BY <2>1
  <2> QED BY <1>4, <2>2 DEF Runs
<1>6. Eq(f)
  BY <1>1, <1>4, <1>5 DEF Runs
<1>7. Eq(r)
  <2> HIDE DEF Eq
  <2> QED BY <1>2, <1>6
<1>8. r[0] = 0 /\ \A i \in 1..n : r[i] = Put(i, r[i - 1])
  <2>1. 0 \in 0..n /\ \A i \in 1..n : i \in 0..n /\ i # 0
    BY <1>1
  <2> QED BY <1>7, <2>1, Zenon
<1>9. \A i \in 0..n : r[i] \in V
  <2>1. \A i \in 1..n : r[i - 1] \in V => r[i] \in V
    BY <1>1, <1>8
  <2>2. r[0] \in V
    BY <1>1, <1>8
  <2> HIDE DEF Eq
  <2> QED BY <1>1, <2>1, <2>2, RecursionKeeps
<1>10. r \in [0..n -> V]
  BY <1>7, <1>9
<1> QED BY <1>8, <1>10 DEF Put, n, V

LEMMA ReleasedGrows ==
    ASSUME NEW ds \in Seq(Nat), NEW n \in Nat
    PROVE  /\ \A k \in 0..Len(ds) : Released(Append(ds, n))[k] = Released(ds)[k]
           /\ Released(Append(ds, n))[Len(ds) + 1] = Released(ds)[Len(ds)] + n
<1> DEFINE all == Append(ds, n)
           r == Released(ds)
           q == Released(all)
           N == Len(ds)
<1>1. /\ all \in Seq(Nat) /\ Len(all) = N + 1 /\ N \in Nat
      /\ all[N + 1] = n /\ \A k \in 1..N : all[k] = ds[k]
  OBVIOUS
<1> HIDE DEF all
<1>2. r[0] = 0 /\ \A k \in 1..N : r[k] = r[k - 1] + ds[k]
  BY ReleasedIs
<1>3. q[0] = 0 /\ \A k \in 1..Len(all) : q[k] = q[k - 1] + all[k]
  BY <1>1, ReleasedIs
<1> HIDE DEF r, q, N
<1> DEFINE S == {m \in Nat : m <= N => q[m] = r[m]}
<1>4. 0 \in S
  BY <1>2, <1>3
<1>5. ASSUME NEW m \in Nat, m \in S
      PROVE  m + 1 \in S
  <2> SUFFICES ASSUME m + 1 <= N
               PROVE  q[m + 1] = r[m + 1]
    OBVIOUS
  <2>1. m + 1 \in 1..N /\ m + 1 \in 1..Len(all) /\ (m + 1) - 1 = m
    BY <1>1
  <2>2. q[m] = r[m]
    BY <1>1, <1>5
  <2>3. q[m + 1] = q[m] + all[m + 1] /\ r[m + 1] = r[m] + ds[m + 1]
    BY <1>2, <1>3, <2>1
  <2> QED BY <1>1, <2>1, <2>2, <2>3
<1>6. \A k \in Nat : k \in S
  <2> HIDE DEF S
  <2> QED BY <1>4, <1>5, Induction
<1>7. \A k \in 0..N : q[k] = r[k]
  BY <1>6
<1>8. q[N + 1] = q[N] + n
  <2>1. N + 1 \in 1..Len(all) /\ (N + 1) - 1 = N
    BY <1>1
  <2> QED BY <1>1, <1>3, <2>1
<1>9. N \in 0..N
  BY <1>1
<1> QED BY <1>7, <1>8, <1>9 DEF all, q, r, N

\* The first raw line that reached the limit, if one did.
LEMMA CountedIs ==
    ASSUME NEW ds \in Seq(Nat), NEW r, r = Released(ds), NEW N, N = Len(ds)
    PROVE  \/ /\ \A k \in 0..N : r[k] < MaxLines
              /\ Counted(ds) = N
           \/ /\ Counted(ds) \in 0..N
              /\ r[Counted(ds)] >= MaxLines
              /\ \A k \in 0..N : k < Counted(ds) => r[k] < MaxLines
<1> DEFINE reach == {k \in 0..N : r[k] >= MaxLines}
<1>1. N \in Nat /\ \A k \in 0..N : r[k] \in Nat
  <2>1. r \in [0..N -> Nat]
    BY ReleasedIs
  <2> QED BY <2>1
<1>2. Counted(ds) = IF reach = {} THEN N ELSE Min(reach)
  BY DEF Counted
<1>3. CASE reach = {}
  <2>1. \A k \in 0..N : ~(r[k] >= MaxLines)
    BY <1>3
  <2>2. \A k \in 0..N : r[k] < MaxLines
    BY <1>1, <2>1, MaxLinesPositive
  <2> QED BY <1>2, <1>3, <2>2
<1>4. CASE reach # {}
  <2>1. reach \subseteq Nat
    BY <1>1
  <2>2. \E m \in reach : \A k \in reach : m <= k
    <3> HIDE DEF reach
    <3> QED BY <1>4, <2>1, LeastNat
  <2>3. Min(reach) \in reach /\ \A k \in reach : Min(reach) <= k
    <3> HIDE DEF reach
    <3> QED BY <2>2 DEF Min
  <2>4. Counted(ds) \in reach /\ \A k \in reach : Counted(ds) <= k
    BY <1>2, <1>4, <2>3
  <2>5. ASSUME NEW k \in 0..N, k < Counted(ds)
        PROVE  r[k] < MaxLines
    <3>1. k \in Nat /\ Counted(ds) \in Nat /\ ~(Counted(ds) <= k)
      BY <1>1, <2>1, <2>4, <2>5
    <3>2. k \notin reach
      BY <2>4, <3>1
    <3>3. ~(r[k] >= MaxLines)
      BY <3>2
    <3> QED BY <1>1, <3>3, MaxLinesPositive
  <2> QED BY <2>4, <2>5
<1> QED BY <1>3, <1>4

\* Once the limit is reached more raw lines do not count, before that all do.
LEMMA CountedGrows ==
    ASSUME NEW ds \in Seq(Nat), NEW n \in Nat
    PROVE  /\ Counted(ds) \in 0..Len(ds)
           /\ Released(ds)[Counted(ds)] \in Nat
           /\ IF Released(ds)[Counted(ds)] >= MaxLines
                THEN /\ Counted(Append(ds, n)) = Counted(ds)
                     /\ Released(Append(ds, n))[Counted(ds)] = Released(ds)[Counted(ds)]
                ELSE /\ Counted(ds) = Len(ds)
                     /\ Counted(Append(ds, n)) = Len(ds) + 1
                     /\ Released(Append(ds, n))[Len(ds) + 1] = Released(ds)[Len(ds)] + n
<1> DEFINE all == Append(ds, n)
           N == Len(ds)
           r == Released(ds)
           q == Released(all)
           c == Counted(ds)
           d == Counted(all)
<1>1. all \in Seq(Nat) /\ Len(all) = N + 1 /\ N \in Nat
  OBVIOUS
<1>2. \/ (\A k \in 0..N : r[k] < MaxLines) /\ c = N
      \/ c \in 0..N /\ r[c] >= MaxLines /\ \A k \in 0..N : k < c => r[k] < MaxLines
  BY CountedIs
<1>3. \/ (\A k \in 0..N + 1 : q[k] < MaxLines) /\ d = N + 1
      \/ d \in 0..N + 1 /\ q[d] >= MaxLines /\ \A k \in 0..N + 1 : k < d => q[k] < MaxLines
  <2> HIDE DEF all
  <2> QED BY <1>1, CountedIs
<1>4. (\A k \in 0..N : q[k] = r[k]) /\ q[N + 1] = r[N] + n
  BY ReleasedGrows
<1>5. \A k \in 0..N : r[k] \in Nat
  <2>1. r \in [0..N -> Nat]
    BY ReleasedIs
  <2> QED BY <2>1
<1> HIDE DEF all, N, r, q, c, d
<1>6. c \in 0..N /\ r[c] \in Nat
  BY <1>1, <1>2, <1>5
<1>7. CASE r[c] >= MaxLines
  <2>1. \A k \in 0..N : k < c => r[k] < MaxLines
    BY <1>1, <1>2, <1>5, <1>6, <1>7, MaxLinesPositive
  <2>2. q[c] >= MaxLines /\ c \in 0..N + 1 /\ q[c] \in Nat
    BY <1>1, <1>4, <1>6, <1>7
  <2>3. ~(q[c] < MaxLines)
    BY <2>2, MaxLinesPositive
  <2>4. d \in 0..N + 1 /\ q[d] >= MaxLines /\ ~(c < d)
    BY <1>3, <2>2, <2>3
  <2>5. d \in 0..N /\ (d < c => r[d] < MaxLines) /\ q[d] = r[d] /\ r[d] \in Nat
    BY <1>1, <1>4, <1>5, <1>6, <2>1, <2>4
  <2>6. d = c
    BY <1>6, <2>4, <2>5, MaxLinesPositive
  <2> QED BY <1>4, <1>6, <1>7, <2>6 DEF all, N, r, q, c, d
<1>8. CASE ~(r[c] >= MaxLines)
  <2>1. c = N /\ \A k \in 0..N : r[k] < MaxLines
    BY <1>2, <1>8
  <2>2. d = N + 1
    <3>1. CASE d # N + 1
      <4>1. d \in 0..N + 1 /\ q[d] >= MaxLines
        BY <1>3, <3>1
      <4>2. d \in 0..N
        BY <1>1, <3>1, <4>1
      <4> QED BY <1>4, <1>5, <2>1, <4>1, <4>2, MaxLinesPositive
    <3> QED BY <3>1
  <2> QED BY <1>4, <1>6, <1>8, <2>1, <2>2 DEF all, N, r, q, c, d
<1> QED BY <1>6, <1>7, <1>8 DEF all, N, r, q, c, d

\* Beside what NothingLost says, the kept lines are as many as were released,
\* which tells whether the limit is reached.
LostInv == NothingLost /\ Len(lines) = Released(delivered)[Counted(delivered)]

\* The lines of the first c raw lines.
Parts(ds, c) == [k \in 1..c |-> [i \in 1..ds[k] |-> k]]

\* One raw line more only adds a part.
LEMMA PartsGrow ==
    ASSUME NEW ds \in Seq(Nat), NEW n \in Nat
    PROVE  /\ Parts(Append(ds, n), Len(ds) + 1) =
                Append(Parts(ds, Len(ds)), [i \in 1..n |-> Len(ds) + 1])
           /\ \A c \in 0..Len(ds) : /\ Parts(Append(ds, n), c) = Parts(ds, c)
                                    /\ Parts(ds, c) \in Seq(Seq(Nat))
<1> DEFINE N == Len(ds)
           all == Append(ds, n)
           part == [i \in 1..n |-> N + 1]
           A == Parts(all, N + 1)
           B == Append(Parts(ds, N), part)
<1>1. N \in Nat /\ all[N + 1] = n /\ \A k \in 1..N : all[k] = ds[k] /\ ds[k] \in Nat
  OBVIOUS
<1> HIDE DEF all, N
<1>2. \A c \in 0..N : Parts(ds, c) \in Seq(Seq(Nat)) /\ Len(Parts(ds, c)) = c
  <2> TAKE c \in 0..N
  <2>1. \A k \in 1..c : [i \in 1..ds[k] |-> k] \in Seq(Nat)
    BY <1>1
  <2>2. c \in Nat
    BY <1>1
  <2> QED BY <2>1, <2>2 DEF Parts
<1>3. \A c \in 0..N : Parts(all, c) = Parts(ds, c)
  <2> TAKE c \in 0..N
  <2>1. \A k \in 1..c : k \in 1..N
    BY <1>1
  <2> QED BY <1>1, <2>1 DEF Parts
<1>4. A = B
  <2>1. Parts(ds, N) \in Seq(Seq(Nat)) /\ Len(Parts(ds, N)) = N /\ part \in Seq(Nat)
    BY <1>1, <1>2
  <2> DEFINE P == Parts(ds, N)
  <2>2. /\ DOMAIN A = 1..N + 1
        /\ \A k \in 1..N + 1 : A[k] = [i \in 1..all[k] |-> k]
    BY DEF Parts
  <2>3. \A k \in 1..N : P[k] = [i \in 1..ds[k] |-> k]
    BY DEF Parts
  <2> HIDE DEF P, A, part
  <2>4. /\ B \in Seq(Seq(Nat)) /\ Len(B) = N + 1
        /\ B[N + 1] = part /\ \A k \in 1..N : B[k] = P[k]
    BY <1>1, <2>1 DEF P
  <2>5. ASSUME NEW k \in 1..N + 1
        PROVE  A[k] = B[k]
    <3>1. CASE k \in 1..N
      BY <1>1, <2>2, <2>3, <2>4, <3>1
    <3>2. CASE k = N + 1
      <4>1. A[k] = [i \in 1..n |-> k]
        BY <1>1, <2>2, <3>2
      <4> HIDE DEF B
      <4> QED BY <2>4, <3>2, <4>1 DEF part
    <3>3. k \in 1..N \/ k = N + 1
      BY <1>1
    <3> QED BY <3>1, <3>2, <3>3
  <2>6. B = [k \in 1..N + 1 |-> B[k]]
    <3> HIDE DEF B
    <3> QED BY <2>4
  <2>7. A = [k \in 1..N + 1 |-> A[k]]
    BY DEF A, Parts
  <2> HIDE DEF B
  <2> QED BY <2>5, <2>6, <2>7
<1> QED BY <1>2, <1>3, <1>4 DEF N, all

LEMMA RawLineLostInv ==
    ASSUME IInv, LostInv, NEW n \in 0..Burst, RawLine(n)
    PROVE  LostInv'
<1> DEFINE N == Len(delivered)
           c == Counted(delivered)
           r == Released(delivered)
           part == [i \in 1..n |-> N + 1]
<1>1. /\ lines' = Keep(n)
      /\ delivered' = Append(delivered, n)
  BY DEF RawLine
<1>2. delivered \in Seq(Nat) /\ lines \in Seq(Nat) /\ n \in Nat /\ N \in Nat
  BY BurstPositive, MaxRawIsNat DEF IInv, TypeOK
<1>3. full <=> Len(lines) >= MaxLines
  BY DEF IInv, CountInv
<1>4. lines = FlattenSeq(Parts(delivered, c)) /\ Len(lines) = r[c]
  BY DEF LostInv, NothingLost, Parts
<1>5. LostInv' <=> /\ lines' = FlattenSeq(Parts(delivered', Counted(delivered')))
                   /\ Len(lines') = Released(delivered')[Counted(delivered')]
  BY DEF LostInv, NothingLost, Parts
<1>6. c \in 0..N
  BY <1>2, CountedGrows
<1>7. CASE full
  <2>1. lines' = lines /\ r[c] >= MaxLines
    BY <1>1, <1>3, <1>4, <1>7 DEF Keep
  <2>2. Counted(delivered') = c /\ Released(delivered')[c] = r[c]
    BY <1>1, <1>2, <2>1, CountedGrows
  <2>3. Parts(delivered', c) = Parts(delivered, c)
    BY <1>1, <1>2, <1>6, PartsGrow
  <2> QED BY <1>4, <1>5, <2>1, <2>2, <2>3
<1>8. CASE ~full
  <2>1. lines' = lines \o part /\ ~(r[c] >= MaxLines)
    BY <1>1, <1>3, <1>4, <1>8 DEF Keep
  <2>2. c = N /\ Counted(delivered') = N + 1 /\ Released(delivered')[N + 1] = r[N] + n
    BY <1>1, <1>2, <2>1, CountedGrows
  <2>3. part \in Seq(Nat) /\ Len(part) = n
    BY <1>2
  <2>4. N \in 0..N
    BY <1>2
  <2>5. /\ Parts(delivered', N + 1) = Append(Parts(delivered, N), part)
        /\ Parts(delivered, N) \in Seq(Seq(Nat))
    BY <1>1, <1>2, <2>4, PartsGrow
  <2> HIDE DEF part, N
  <2>6. FlattenSeq(Append(Parts(delivered, N), part)) = FlattenSeq(Parts(delivered, N)) \o part
    BY <2>3, <2>5, FlattenAppend
  <2>7. Len(lines') = Len(lines) + n
    BY <1>2, <2>1, <2>3, ConcatProperties
  <2> QED BY <1>4, <1>5, <2>1, <2>2, <2>5, <2>6, <2>7
<1> QED BY <1>7, <1>8

\* At every moment the kept lines are those released up to the limit.
THEOREM NothingIsLost == Spec => []NothingLost
<1>1. Init => LostInv
  <2> SUFFICES ASSUME Init PROVE LostInv
    OBVIOUS
  <2>1. delivered = <<>> /\ lines = <<>> /\ delivered \in Seq(Nat) /\ Len(delivered) = 0
    BY DEF Init
  <2>2. Counted(delivered) = 0 /\ Released(delivered)[0] = 0
    <3>1. Counted(delivered) \in 0..0
      BY <2>1, CountedGrows
    <3>2. Released(delivered)[0] = 0
      BY <2>1, ReleasedIs
    <3> QED BY <3>1, <3>2
  <2>3. Parts(delivered, 0) = <<>>
    BY DEF Parts
  <2>4. FlattenSeq(<<>>) = <<>>
    BY DEF FlattenSeq
  <2> QED BY <2>1, <2>2, <2>3, <2>4 DEF LostInv, NothingLost, Parts
<1>2. IInv /\ LostInv /\ [Next]_vars => LostInv'
  <2> SUFFICES ASSUME IInv, LostInv, [Next]_vars PROVE LostInv'
    OBVIOUS
  <2>1. CASE UNCHANGED <<delivered, lines>>
    BY <2>1 DEF LostInv, NothingLost
  <2>2. CASE \E n \in 0..Burst : RawLine(n)
    BY <2>2, RawLineLostInv
  <2>3. \/ UNCHANGED <<delivered, lines>>
        \/ \E n \in 0..Burst : RawLine(n)
    BY DEF vars, Next, StreamOpens, StreamFails, StreamUnwinds, AskStop, StreamEnds,
           WakeFull, WakeStopped, WakeStreamDone, Return, OuterCancel
  <2> QED BY <2>1, <2>2, <2>3
<1>3. LostInv => NothingLost
  BY DEF LostInv
<1> QED BY <1>1, <1>2, <1>3, InvariantHolds, PTL DEF Spec
=============================================================================
