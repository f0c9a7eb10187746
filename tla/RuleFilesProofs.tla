--------------------------- MODULE RuleFilesProofs ---------------------------
(* What holds of RuleFiles and RuleSet for every disk, every set of host names and
   destinations, any number of rules and any limits: what the rule match() returns
   has to do with those that are satisfied, and what the exclude list excludes.  *)
EXTENDS RuleFiles, FiniteSetTheorems, FunctionTheorems, SequenceTheorems,
        WellFoundedInduction, TLAPS

-----------------------------------------------------------------------------
(* Sets of naturals.  Induction over them goes through the least counterexample. *)

LEMMA Least ==
    ASSUME NEW T \in SUBSET Nat, T # {} PROVE \E n \in T : \A m \in T : n <= m
<1>1. IsWellFoundedOn(OpToRel(<, Nat), Nat)
  BY NatLessThanWellFounded
<1>2. PICK n \in T : \A m \in T : ~ (<<m, n>> \in OpToRel(<, Nat))
  BY <1>1, WFMin
<1>3. \A m \in T : ~ (m < n)
  BY <1>2 DEF OpToRel
<1> QED
  BY <1>3

LEMMA MinOfSet ==
    ASSUME NEW S \in SUBSET Nat, S # {} PROVE Min(S) \in S
<1>1. \E n \in S : \A m \in S : n <= m
  BY Least
<1> QED
  BY <1>1 DEF Min

LEMMA StepBefore ==
    ASSUME NEW N \in Nat, NEW n \in 1..N
    PROVE  n \in 0..N /\ n - 1 \in 0..N /\ n # 0 /\ n \in Nat /\ n - 1 \in Nat
  OBVIOUS

(* A loop over 1..n: whatever a step makes of what the last one left, there is a
   function that holds what each of them leaves.                              *)
Runs(n, first, step, run) ==
    run[0] = first /\ \A i \in 1..n : run[i] = step[i][run[i - 1]]

LEMMA LoopRuns ==
    ASSUME NEW n \in Nat, NEW X, NEW first \in X, NEW step \in [1..n -> [X -> X]]
    PROVE  \E run \in [0..n -> X] : Runs(n, first, step, run)
<1> DEFINE Bad == {k \in 0..n : ~ \E run \in [0..k -> X] : Runs(k, first, step, run)}
<1> SUFFICES ASSUME Bad # {} PROVE FALSE
  BY DEF Bad
<1>1. PICK k \in Bad : \A i \in Bad : k <= i
  <2>1. Bad \in SUBSET Nat
    OBVIOUS
  <2> QED
    BY <2>1, Least
<1>2. k \in 0..n /\ ~ \E run \in [0..k -> X] : Runs(k, first, step, run)
  BY <1>1
<1>3. k # 0
  <2> SUFFICES ASSUME k = 0 PROVE FALSE
    OBVIOUS
  <2> DEFINE run == [i \in 0..k |-> first]
  <2>1. run \in [0..k -> X] /\ run[0] = first
    OBVIOUS
  <2>2. 1..k = {}
    OBVIOUS
  <2>3. Runs(k, first, step, run)
    BY <2>1, <2>2 DEF Runs
  <2> QED
    BY <1>2, <2>1, <2>3
<1>4. k - 1 \in 0..n /\ k - 1 \notin Bad
  BY <1>1, <1>2, <1>3
<1>5. PICK run \in [0..k - 1 -> X] : Runs(k - 1, first, step, run)
  BY <1>4
<1> HIDE DEF Bad
<1> DEFINE more == [i \in 0..k |-> IF i = k THEN step[k][run[k - 1]] ELSE run[i]]
<1>6. run[k - 1] \in X /\ step[k][run[k - 1]] \in X
  <2>1. k \in 1..n /\ k - 1 \in 0..k - 1
    BY <1>2, <1>3
  <2>2. run[k - 1] \in X /\ step[k] \in [X -> X]
    BY <2>1, <1>5
  <2> QED
    BY <2>2
<1>7. \A i \in 0..k : i # k => i \in 0..k - 1
  BY <1>2
<1>8. more \in [0..k -> X]
  BY <1>6, <1>7
<1>9. Runs(k, first, step, more)
  <2>1. more[0] = first
    <3>1. 0 \in 0..k /\ 0 # k
      BY <1>2, <1>3
    <3> QED
      BY <3>1, <1>5 DEF Runs
  <2>2. ASSUME NEW i \in 1..k PROVE more[i] = step[i][more[i - 1]]
    <3>1. i \in 0..k /\ i - 1 \in 0..k /\ i - 1 # k
      BY <1>2
    <3>2. more[i - 1] = run[i - 1]
      BY <3>1
    <3>3. CASE i = k
      BY <3>1, <3>2, <3>3
    <3>4. CASE i # k
      <4>1. i \in 1..k - 1
        BY <1>2, <3>4
      <4> QED
        BY <3>1, <3>2, <3>4, <4>1, <1>5 DEF Runs
    <3> QED
      BY <3>3, <3>4
  <2> QED
    BY <2>1, <2>2 DEF Runs
<1> QED
  BY <1>2, <1>8, <1>9

(* What holds at first, and again after each step, holds at the end. *)
LEMMA LoopKeeps ==
    ASSUME NEW n \in Nat, NEW Kept \in SUBSET (0..n), 0 \in Kept,
           \A i \in 1..n : i - 1 \in Kept => i \in Kept
    PROVE  \A i \in 0..n : i \in Kept
<1> DEFINE Bad == {i \in 0..n : i \notin Kept}
<1> SUFFICES ASSUME Bad # {} PROVE FALSE
  OBVIOUS
<1>1. PICK i \in Bad : \A k \in Bad : i <= k
  <2>1. Bad \in SUBSET Nat
    OBVIOUS
  <2> QED
    BY <2>1, Least
<1>2. i \in 1..n /\ i - 1 \in 0..n /\ ~(i <= i - 1)
  BY <1>1
<1>3. i - 1 \in Kept
  BY <1>1, <1>2
<1> QED
  BY <1>1, <1>2, <1>3
-----------------------------------------------------------------------------
(* Names *)

LEMMA HostIsSequence ==
    ASSUME NEW h \in Hosts
    PROVE  /\ h \in Seq(Labels) /\ Len(h) \in Nat
           /\ \A n \in 1..Len(h) : Len(h[n]) \in Nat \ {0}
<1>1. h \in Seq(Labels)
  BY HostsAssumption DEF HostsAssumption
<1>2. \A l \in Labels : l \in Seq(Characters) /\ l # <<>>
  BY HostsAssumption DEF HostsAssumption
<1>3. \A l \in Labels : Len(l) \in Nat \ {0}
  <2> SUFFICES ASSUME NEW l \in Labels PROVE Len(l) \in Nat \ {0}
    OBVIOUS
  <2>1. l \in Seq(Characters) /\ l # <<>>
    BY <1>2
  <2> QED
    BY <2>1, EmptySeq, LenProperties
<1>4. Len(h) \in Nat /\ \A n \in 1..Len(h) : h[n] \in Labels
  BY <1>1, ElementOfSeq, LenProperties
<1> QED
  BY <1>1, <1>3, <1>4

IsConsumed(h, upto) ==
    upto = [n \in 0..Len(h) |->
                IF n = 0 THEN 0
                ELSE upto[n - 1] + Len(h[n]) + (IF upto[n - 1] = 0 THEN 0 ELSE 1)]

(* The bytes consumed grow by a label, and a dot before any but the first. *)
LEMMA ConsumedSteps ==
    ASSUME NEW h \in Hosts
    PROVE  /\ Consumed[h] \in [0..Len(h) -> Nat]
           /\ Consumed[h][0] = 0
           /\ \A n \in 1..Len(h) : Consumed[h][n] = Consumed[h][n - 1] + Len(h[n])
                                        + (IF Consumed[h][n - 1] = 0 THEN 0 ELSE 1)
<1> DEFINE N == Len(h)
           After(n) == [x \in Nat |-> x + Len(h[n]) + (IF x = 0 THEN 0 ELSE 1)]
           step == [n \in 1..N |-> After(n)]
<1>1. N \in Nat /\ \A n \in 1..N : Len(h[n]) \in Nat \ {0}
  BY HostIsSequence
<1>2. step \in [1..N -> [Nat -> Nat]]
  <2>1. ASSUME NEW n \in 1..N PROVE After(n) \in [Nat -> Nat]
    <3> DEFINE d == Len(h[n])
    <3>1. d \in Nat
      BY <1>1
    <3> HIDE DEF d
    <3>2. \A x \in Nat : x + d + (IF x = 0 THEN 0 ELSE 1) \in Nat
      BY <3>1
    <3> QED
      BY <3>2 DEF d
  <2> HIDE DEF After
  <2> QED
    BY <2>1
<1>3. PICK run \in [0..N -> Nat] : Runs(N, 0, step, run)
  <2> HIDE DEF step, N
  <2>1. 0 \in Nat
    OBVIOUS
  <2> QED
    BY <1>1, <1>2, <2>1, LoopRuns
<1>4. ASSUME NEW n \in 1..N
      PROVE  run[n] = run[n - 1] + Len(h[n]) + (IF run[n - 1] = 0 THEN 0 ELSE 1)
  <2>1. run[n] = step[n][run[n - 1]]
    BY <1>3 DEF Runs
  <2>2. n - 1 \in 0..N
    BY <1>1, StepBefore
  <2>3. run[n - 1] \in Nat
    BY <1>3, <2>2
  <2> QED
    BY <2>1, <2>3
<1>5. IsConsumed(h, run)
  <2>1. run[0] = 0
    BY <1>3 DEF Runs
  <2>2. \A n \in 0..N : n # 0 => n \in 1..N
    BY <1>1
  <2>3. run = [n \in 0..N |-> run[n]]
    BY <1>3
  <2> QED
    BY <2>1, <2>2, <2>3, <1>4 DEF IsConsumed
<1>6. Consumed[h] = CHOOSE upto : IsConsumed(h, upto)
  BY DEF Consumed, IsConsumed
<1>7. IsConsumed(h, Consumed[h])
  BY <1>5, <1>6
<1> DEFINE c == Consumed[h]
<1>8. c = [n \in 0..N |-> IF n = 0 THEN 0
                          ELSE c[n - 1] + Len(h[n]) + (IF c[n - 1] = 0 THEN 0 ELSE 1)]
  BY <1>7 DEF IsConsumed
<1> HIDE DEF c
<1>9. c[0] = 0 /\ DOMAIN c = 0..N
  BY <1>1, <1>8
<1>10. \A n \in 1..N : c[n] = c[n - 1] + Len(h[n]) + (IF c[n - 1] = 0 THEN 0 ELSE 1)
  BY <1>1, <1>8
<1>11. \A n \in 0..N : c[n] \in Nat
  <2> DEFINE Kept == {n \in 0..N : c[n] \in Nat}
  <2>1. 0 \in Kept
    BY <1>1, <1>9
  <2>2. ASSUME NEW n \in 1..N, n - 1 \in Kept PROVE n \in Kept
    <3>1. n \in 0..N /\ n - 1 \in 0..N
      BY <1>1, StepBefore
    <3>2. Len(h[n]) \in Nat /\ c[n - 1] \in Nat
      BY <1>1, <2>2
    <3>3. c[n] = c[n - 1] + Len(h[n]) + (IF c[n - 1] = 0 THEN 0 ELSE 1)
      BY <1>10
    <3>4. c[n] \in Nat
      <4> HIDE DEF N
      <4> QED
        BY <3>2, <3>3
    <3> QED
      BY <3>1, <3>4
  <2>3. \A n \in 0..N : n \in Kept
    <3> HIDE DEF Kept, N
    <3>1. Kept \in SUBSET (0..N)
      BY DEF Kept
    <3> QED
      BY <1>1, <2>1, <2>2, <3>1, LoopKeeps
  <2> QED
    BY <2>3
<1>12. c \in [0..N -> Nat]
  <2>1. c = [n \in 0..N |-> c[n]]
    BY <1>8
  <2> QED
    BY <2>1, <1>11
<1> QED
  BY <1>9, <1>10, <1>12 DEF c

LEMMA ConsumedGrows ==
    ASSUME NEW h \in Hosts, NEW m \in 0..Len(h), NEW n \in 0..Len(h), m < n
    PROVE  Consumed[h][m] < Consumed[h][n]
<1> DEFINE c == Consumed[h]
           N == Len(h)
           Kept == {k \in 0..N : k > m => c[m] < c[k]}
<1>1. N \in Nat /\ \A k \in 1..N : Len(h[k]) \in Nat \ {0}
  BY HostIsSequence
<1>2. /\ c \in [0..N -> Nat]
      /\ \A k \in 1..N : c[k] = c[k - 1] + Len(h[k]) + (IF c[k - 1] = 0 THEN 0 ELSE 1)
  BY ConsumedSteps
<1> HIDE DEF c, N
<1>3. ASSUME NEW k \in 1..N PROVE c[k - 1] < c[k]
  <2> k - 1 \in 0..N
    BY <1>1, StepBefore
  <2> DEFINE p == c[k - 1]
             q == Len(h[k])
  <2>1. p \in Nat /\ q \in Nat \ {0}
    BY <1>1, <1>2
  <2>2. c[k] = p + q + (IF p = 0 THEN 0 ELSE 1)
    BY <1>2
  <2> HIDE DEF p, q
  <2>3. p < p + q + (IF p = 0 THEN 0 ELSE 1)
    BY <2>1
  <2> QED
    BY <2>2, <2>3 DEF p
<1>4. m \in 0..N /\ n \in 0..N
  BY DEF N
<1>5. 0 \in Kept
  BY <1>1, <1>4
<1>6. ASSUME NEW k \in 1..N, k - 1 \in Kept PROVE k \in Kept
  <2>1. c[k - 1] < c[k] /\ c[k - 1] \in Nat /\ c[k] \in Nat /\ c[m] \in Nat
    BY <1>1, <1>2, <1>3, <1>4
  <2>2. k > m => k - 1 > m \/ k - 1 = m
    BY <1>4
  <2> QED
    BY <1>1, <1>6, <2>1, <2>2
<1>7. \A k \in 0..N : k \in Kept
  <2>1. Kept \in SUBSET (0..N)
    OBVIOUS
  <2> HIDE DEF Kept
  <2> QED
    BY <1>1, <1>5, <1>6, <2>1, LoopKeeps
<1> QED
  BY <1>4, <1>7 DEF c

LEMMA PrefixElements ==
    ASSUME NEW S, NEW g \in Seq(S), NEW h \in Seq(S)
    PROVE  /\ IsPrefix(g, h) <=>
                /\ Len(g) <= Len(h) /\ \A n \in 1..Len(g) : g[n] = h[n]
           /\ IsPrefix(g, h) => g = SubSeq(h, 1, Len(g))
<1>1. Len(g) \in Nat /\ Len(h) \in Nat
  OBVIOUS
<1>2. SubSeq(g, 1, Len(g)) = g
  BY <1>1
<1>3. ASSUME Len(g) <= Len(h)
      PROVE  /\ SubSeq(h, 1, Len(g)) \in Seq(S) /\ Len(SubSeq(h, 1, Len(g))) = Len(g)
             /\ \A n \in 1..Len(g) : SubSeq(h, 1, Len(g))[n] = h[n]
  BY <1>1, <1>3
<1>4. ASSUME Len(g) <= Len(h), \A n \in 1..Len(g) : g[n] = h[n]
      PROVE  g = SubSeq(h, 1, Len(g))
  BY <1>3, <1>4, SeqEqual
<1> QED
  BY <1>2, <1>3, <1>4 DEF IsPrefix

(* A name that is a suffix of another takes up what its labels take up there. *)
LEMMA SuffixSize ==
    ASSUME NEW g \in Hosts, NEW h \in Hosts, IsPrefix(g, h)
    PROVE  Len(g) \in 0..Len(h) /\ NameSize(g) = Consumed[h][Len(g)]
<1> DEFINE N == Len(g)
           a == Consumed[g]
           b == Consumed[h]
           Kept == {n \in 0..N : a[n] = b[n]}
<1>1. N \in Nat /\ Len(h) \in Nat /\ N <= Len(h) /\ \A n \in 1..N : g[n] = h[n]
  BY HostIsSequence, PrefixElements
<1>2. /\ a[0] = 0 /\ b[0] = 0
      /\ \A n \in 1..N : a[n] = a[n - 1] + Len(g[n]) + (IF a[n - 1] = 0 THEN 0 ELSE 1)
      /\ \A n \in 1..N : b[n] = b[n - 1] + Len(h[n]) + (IF b[n - 1] = 0 THEN 0 ELSE 1)
  <2>1. \A n \in 1..N : n \in 1..Len(h)
    BY <1>1
  <2> QED
    BY <2>1, ConsumedSteps
<1> HIDE DEF N, a, b
<1>3. 0 \in Kept
  BY <1>1, <1>2
<1>4. ASSUME NEW n \in 1..N, n - 1 \in Kept PROVE n \in Kept
  <2>1. n \in 0..N
    BY <1>1
  <2> QED
    BY <1>1, <1>2, <1>4, <2>1
<1>5. \A n \in 0..N : n \in Kept
  <2>1. Kept \in SUBSET (0..N)
    OBVIOUS
  <2> HIDE DEF Kept
  <2> QED
    BY <1>1, <1>3, <1>4, <2>1, LoopKeeps
<1>6. N \in 0..N
  BY <1>1
<1> QED
  BY <1>1, <1>5, <1>6 DEF NameSize, N, a, b
-----------------------------------------------------------------------------
(* The dotted form of a name, from its end *)

FromEnd(text, k) == text[Len(text) - k]
Bytes == Characters \cup {Dot}

IsDotted(h, upto) ==
    upto = [n \in 0..Len(h) |->
                IF n = 0 THEN <<>>
                ELSE IF n = 1 THEN h[1] ELSE h[n] \o <<Dot>> \o upto[n - 1]]

(* A label, a dot and the text behind it. *)
LEMMA LabelInFront ==
    ASSUME NEW l \in Seq(Bytes), NEW t \in Seq(Bytes)
    PROVE  LET u == l \o <<Dot>> \o t
           IN  /\ u \in Seq(Bytes) /\ Len(u) = Len(l) + 1 + Len(t)
               /\ \A k \in 0..Len(t) - 1 : FromEnd(u, k) = FromEnd(t, k)
               /\ FromEnd(u, Len(t)) = Dot
               /\ \A i \in 1..Len(l) : FromEnd(u, Len(u) - i) = l[i]
<1> DEFINE d == <<Dot>>
           v == l \o d
           u == v \o t
<1>1. d \in Seq(Bytes) /\ Len(d) = 1 /\ d[1] = Dot
  BY DEF Bytes
<1>2. Len(l) \in Nat /\ Len(t) \in Nat
  OBVIOUS
<1> HIDE DEF d
<1>3. /\ v \in Seq(Bytes) /\ Len(v) = Len(l) + Len(d)
      /\ \A i \in 1..Len(l) + Len(d) : v[i] = IF i <= Len(l) THEN l[i] ELSE d[i - Len(l)]
  BY <1>1, ConcatProperties
<1> HIDE DEF v
<1>4. /\ u \in Seq(Bytes) /\ Len(u) = Len(v) + Len(t)
      /\ \A i \in 1..Len(v) + Len(t) : u[i] = IF i <= Len(v) THEN v[i] ELSE t[i - Len(v)]
  <2>1. v \in Seq(Bytes)
    BY <1>3
  <2> QED
    BY <2>1, ConcatProperties
<1> HIDE DEF u
<1> DEFINE x == Len(l)
           y == Len(t)
           z == Len(u)
<1>5. x \in Nat /\ y \in Nat /\ z = x + 1 + y /\ Len(v) = x + 1
  BY <1>1, <1>2, <1>3, <1>4
<1>6. /\ \A i \in 1..x : v[i] = l[i]
      /\ v[x + 1] = Dot
  <2>1. (x + 1) \in 1..x + 1 /\ ~(x + 1 <= x) /\ (x + 1) - x = 1
    BY <1>5
  <2>2. \A i \in 1..x : i \in 1..x + 1 /\ i <= x
    BY <1>5
  <2> QED
    BY <1>1, <1>3, <2>1, <2>2
<1>7. /\ \A i \in 1..x + 1 : u[i] = v[i]
      /\ \A i \in 1..y : u[x + 1 + i] = t[i]
  <2>1. \A i \in 1..x + 1 : i \in 1..Len(v) + Len(t) /\ i <= Len(v)
    BY <1>5
  <2>2. \A i \in 1..y : /\ x + 1 + i \in 1..Len(v) + Len(t)
                        /\ ~(x + 1 + i <= Len(v)) /\ (x + 1 + i) - Len(v) = i
    BY <1>5
  <2> QED
    BY <1>4, <2>1, <2>2
<1> HIDE DEF x, y, z
<1>8. ASSUME NEW k \in 0..y - 1 PROVE u[z - k] = t[y - k]
  <2>1. z - k = x + 1 + (y - k) /\ y - k \in 1..y
    BY <1>5
  <2> QED
    BY <1>7, <2>1
<1>9. u[z - y] = Dot
  <2>1. z - y = x + 1 /\ x + 1 \in 1..x + 1
    BY <1>5
  <2> QED
    BY <1>6, <1>7, <2>1
<1>10. ASSUME NEW i \in 1..x PROVE u[z - (z - i)] = l[i]
  <2>1. z - (z - i) = i /\ i \in 1..x + 1
    BY <1>5
  <2> QED
    BY <1>6, <1>7, <2>1
<1> QED
  BY <1>4, <1>5, <1>8, <1>9, <1>10 DEF FromEnd, x, y, z, u, v, d

LEMMA LabelIsBytes ==
    ASSUME NEW h \in Hosts, NEW n \in 1..Len(h)
    PROVE  /\ h[n] \in Seq(Bytes)
           /\ \A i \in 1..Len(h[n]) : h[n][i] # Dot
<1>1. h[n] \in Labels
  BY HostIsSequence, ElementOfSeq
<1>2. h[n] \in Seq(Characters) /\ Dot \notin Characters
  BY <1>1, HostsAssumption DEF HostsAssumption
<1>3. \A i \in 1..Len(h[n]) : h[n][i] \in Characters
  BY <1>2, ElementOfSeq
<1> QED
  BY <1>2, <1>3 DEF Bytes

LEMMA DottedSteps ==
    ASSUME NEW h \in Hosts
    PROVE  /\ \A n \in 0..Len(h) : DottedUpto[h][n] \in Seq(Bytes)
           /\ DottedUpto[h][0] = <<>>
           /\ \A n \in 1..Len(h) :
                DottedUpto[h][n] = IF n = 1 THEN h[1]
                                   ELSE h[n] \o <<Dot>> \o DottedUpto[h][n - 1]
<1> DEFINE N == Len(h)
           X == Seq(Bytes)
           After(n) == [x \in X |-> IF n = 1 THEN h[1] ELSE h[n] \o <<Dot>> \o x]
           step == [n \in 1..N |-> After(n)]
<1>1. N \in Nat /\ \A n \in 1..N : h[n] \in X
  BY HostIsSequence, LabelIsBytes
<1> HIDE DEF N
<1>2. ASSUME NEW n \in 1..N, NEW x \in X
      PROVE  (IF n = 1 THEN h[1] ELSE h[n] \o <<Dot>> \o x) \in X
  <2>1. h[n] \in X
    BY <1>1
  <2>2. h[n] \o <<Dot>> \o x \in X
    BY <2>1, LabelInFront
  <2> QED
    BY <2>1, <2>2
<1> HIDE DEF X
<1>3. step \in [1..N -> [X -> X]]
  <2>1. ASSUME NEW n \in 1..N PROVE After(n) \in [X -> X]
    BY <1>2
  <2> HIDE DEF After
  <2> QED
    BY <2>1
<1>4. <<>> \in X
  BY EmptySeq DEF X
<1>5. PICK run \in [0..N -> X] : Runs(N, <<>>, step, run)
  <2> HIDE DEF step
  <2> QED
    BY <1>1, <1>3, <1>4, LoopRuns
<1>6. ASSUME NEW n \in 1..N
      PROVE  run[n] = IF n = 1 THEN h[1] ELSE h[n] \o <<Dot>> \o run[n - 1]
  <2>1. run[n] = step[n][run[n - 1]]
    BY <1>5 DEF Runs
  <2>2. n - 1 \in 0..N
    BY <1>1, StepBefore
  <2>3. run[n - 1] \in X
    BY <1>5, <2>2
  <2> QED
    BY <2>1, <2>3
<1>7. IsDotted(h, run)
  <2>1. run[0] = <<>>
    BY <1>5 DEF Runs
  <2>2. \A n \in 0..N : n # 0 => n \in 1..N
    BY <1>1
  <2>3. run = [n \in 0..N |-> run[n]]
    BY <1>5
  <2> QED
    BY <2>1, <2>2, <2>3, <1>6 DEF IsDotted, N
<1>8. DottedUpto[h] = CHOOSE upto : IsDotted(h, upto)
  BY DEF DottedUpto, IsDotted
<1>9. IsDotted(h, DottedUpto[h])
  BY <1>7, <1>8
<1> DEFINE t == DottedUpto[h]
<1>10. t = [n \in 0..N |-> IF n = 0 THEN <<>>
                           ELSE IF n = 1 THEN h[1] ELSE h[n] \o <<Dot>> \o t[n - 1]]
  BY <1>9 DEF IsDotted, N
<1> HIDE DEF t
<1>11. t[0] = <<>>
  BY <1>1, <1>10
<1>12. \A n \in 1..N : t[n] = IF n = 1 THEN h[1] ELSE h[n] \o <<Dot>> \o t[n - 1]
  BY <1>1, <1>10
<1> DEFINE Kept == {n \in 0..N : t[n] \in X}
<1>13. 0 \in Kept
  BY <1>1, <1>4, <1>11
<1>14. ASSUME NEW n \in 1..N, n - 1 \in Kept PROVE n \in Kept
  <2>1. n \in 0..N /\ t[n - 1] \in X
    BY <1>1, <1>14
  <2> QED
    BY <1>2, <1>12, <2>1
<1>15. \A n \in 0..N : n \in Kept
  <2>1. Kept \in SUBSET (0..N)
    OBVIOUS
  <2> HIDE DEF Kept
  <2> QED
    BY <1>1, <1>13, <1>14, <2>1, LoopKeeps
<1> QED
  BY <1>11, <1>12, <1>15 DEF t, N, X

(* How long the form of the first n labels is; it ends like that of fewer, and where
   its labels and dots stand.                                                 *)
LEMMA DottedLayout ==
    ASSUME NEW h \in Hosts
    PROVE  LET t == DottedUpto[h]
               c == Consumed[h]
           IN  \A n \in 0..Len(h) :
                /\ Len(t[n]) = c[n]
                /\ \A m \in 0..n : \A k \in 0..c[m] - 1 : FromEnd(t[n], k) = FromEnd(t[m], k)
                /\ \A m \in 1..n - 1 : FromEnd(t[n], c[m]) = Dot
                /\ \A m \in 1..n : \A i \in 1..Len(h[m]) :
                        FromEnd(t[n], c[m] - i) = h[m][i]
<1> DEFINE N == Len(h)
           t == DottedUpto[h]
           c == Consumed[h]
           Sized(n) == Len(t[n]) = c[n]
           Ends(n) == \A m \in 0..n : \A k \in 0..c[m] - 1 :
                        FromEnd(t[n], k) = FromEnd(t[m], k)
           Dots(n) == \A m \in 1..n - 1 : FromEnd(t[n], c[m]) = Dot
           Shows(n) == \A m \in 1..n : \A i \in 1..Len(h[m]) :
                        FromEnd(t[n], c[m] - i) = h[m][i]
           Kept == {n \in 0..N : Sized(n) /\ Ends(n) /\ Dots(n) /\ Shows(n)}
<1>1. /\ N \in Nat
      /\ \A n \in 1..N : h[n] \in Seq(Bytes) /\ Len(h[n]) \in Nat \ {0}
  BY HostIsSequence, LabelIsBytes
<1>2. /\ \A n \in 0..N : t[n] \in Seq(Bytes)
      /\ t[0] = <<>>
      /\ \A n \in 1..N : t[n] = IF n = 1 THEN h[1] ELSE h[n] \o <<Dot>> \o t[n - 1]
  BY DottedSteps
<1>3. /\ \A n \in 0..N : c[n] \in Nat
      /\ c[0] = 0
      /\ \A n \in 1..N : c[n] = c[n - 1] + Len(h[n]) + (IF c[n - 1] = 0 THEN 0 ELSE 1)
  BY ConsumedSteps
<1>4. \A m, n \in 0..N : m < n => c[m] < c[n]
  BY ConsumedGrows
<1> HIDE DEF N, t, c
<1>5. 0 \in Kept
  <2>1. Sized(0)
    BY <1>2, <1>3
  <2>2. Ends(0)
    <3>1. \A m \in 0..0 : m = 0
      OBVIOUS
    <3> QED
      BY <3>1
  <2>3. Dots(0) /\ Shows(0)
    <3>1. (\A m \in 1..0 - 1 : FALSE) /\ (\A m \in 1..0 : FALSE)
      OBVIOUS
    <3> QED
      BY <3>1
  <2>4. 0 \in 0..N
    BY <1>1
  <2> QED
    BY <2>1, <2>2, <2>3, <2>4
<1>6. ASSUME NEW n \in 1..N, n - 1 \in Kept PROVE n \in Kept
  <2>1. n \in 0..N /\ n - 1 \in 0..N /\ n \in Nat
    BY <1>1, StepBefore
  <2>2. Sized(n - 1) /\ Ends(n - 1) /\ Dots(n - 1) /\ Shows(n - 1)
    BY <1>6
  <2> DEFINE u == t[n]
             v == t[n - 1]
             l == h[n]
             p == c[n - 1]
             q == c[n]
             x == Len(l)
  <2>3. l \in Seq(Bytes) /\ v \in Seq(Bytes) /\ Len(v) = p /\ p \in Nat /\ x \in Nat \ {0}
        /\ q \in Nat /\ q = p + x + (IF p = 0 THEN 0 ELSE 1)
    BY <1>1, <1>2, <1>3, <2>1, <2>2
  <2>4. \A m \in 0..n : m \in 0..n - 1 \/ m = n
    BY <2>1
  <2>5. \A m \in 1..n : m \in 1..n - 1 \/ m = n
    BY <2>1
  <2>6. CASE n = 1
    <3>1. u = l /\ p = 0 /\ q = x
      BY <1>2, <1>3, <2>3, <2>6
    <3>2. Sized(n)
      BY <3>1
    <3>3. Ends(n)
      <4> SUFFICES ASSUME NEW m \in 0..n, NEW k \in 0..c[m] - 1
                   PROVE  FromEnd(t[n], k) = FromEnd(t[m], k)
        OBVIOUS
      <4>1. m = 0 \/ m = n
        BY <2>6
      <4>2. m # 0
        BY <1>3
      <4> QED
        BY <4>1, <4>2
    <3>4. Dots(n)
      <4>1. \A m \in 1..n - 1 : FALSE
        BY <2>6
      <4> QED
        BY <4>1
    <3>5. Shows(n)
      <4> SUFFICES ASSUME NEW m \in 1..n, NEW i \in 1..Len(h[m])
                   PROVE  FromEnd(t[n], c[m] - i) = h[m][i]
        OBVIOUS
      <4>1. m = n
        BY <2>6
      <4>2. i \in 1..x /\ x - (x - i) = i
        BY <2>3, <4>1
      <4>3. FromEnd(u, q - i) = l[i]
        BY <3>1, <4>2 DEF FromEnd
      <4> QED
        BY <4>1, <4>3
    <3> QED
      BY <2>1, <3>2, <3>3, <3>4, <3>5
  <2>7. CASE n # 1
    <3>1. n - 1 \in 1..N /\ n - 1 # 0
      BY <1>1, <2>1, <2>7
    <3>2. p # 0
      <4>1. 0 \in 0..N /\ 0 < n - 1
        BY <1>1, <2>1, <3>1
      <4>2. c[0] < c[n - 1]
        BY <1>4, <2>1, <4>1
      <4> QED
        BY <1>3, <2>3, <4>2
    <3>3. u = l \o <<Dot>> \o v
      BY <1>2, <2>7
    <3> HIDE DEF u, v, l, p, q, x
    <3>4. /\ Len(u) = x + 1 + p
          /\ \A k \in 0..p - 1 : FromEnd(u, k) = FromEnd(v, k)
          /\ FromEnd(u, p) = Dot
          /\ \A i \in 1..x : FromEnd(u, Len(u) - i) = l[i]
      BY <2>3, <3>3, LabelInFront DEF x
    <3>5. Len(u) = q
      BY <2>3, <3>2, <3>4
    <3>6. Sized(n)
      BY <3>5 DEF u, q
    <3>7. \A m \in 0..n - 1 : c[m] <= p /\ c[m] \in Nat
      <4> SUFFICES ASSUME NEW m \in 0..n - 1 PROVE c[m] <= p /\ c[m] \in Nat
        OBVIOUS
      <4>1. m \in 0..N
        BY <1>1, <2>1
      <4>2. m < n - 1 \/ m = n - 1
        BY <2>1
      <4>3. m < n - 1 => c[m] < p
        BY <1>4, <2>1, <4>1 DEF p
      <4>4. c[m] \in Nat
        BY <1>3, <4>1
      <4> QED
        BY <2>3, <4>2, <4>3, <4>4 DEF p
    <3>8. Ends(n)
      <4> SUFFICES ASSUME NEW m \in 0..n, NEW k \in 0..c[m] - 1
                   PROVE  FromEnd(t[n], k) = FromEnd(t[m], k)
        OBVIOUS
      <4>1. CASE m = n
        BY <4>1
      <4>2. CASE m \in 0..n - 1
        <5>1. FromEnd(v, k) = FromEnd(t[m], k)
          BY <2>2, <4>2 DEF v
        <5>2. k \in 0..p - 1
          BY <2>3, <3>7, <4>2
        <5> QED
          BY <3>4, <5>1, <5>2 DEF u
      <4> QED
        BY <2>4, <4>1, <4>2
    <3>9. Dots(n)
      <4> SUFFICES ASSUME NEW m \in 1..n - 1 PROVE FromEnd(t[n], c[m]) = Dot
        OBVIOUS
      <4>1. CASE m = n - 1
        BY <3>4, <4>1 DEF u, p
      <4>2. CASE m # n - 1
        <5>1. m \in 1..(n - 1) - 1 /\ m \in 0..N /\ m < n - 1
          BY <1>1, <2>1, <4>2
        <5>2. FromEnd(v, c[m]) = Dot
          BY <2>2, <5>1 DEF v
        <5>3. c[m] < p /\ c[m] \in Nat
          BY <1>3, <1>4, <2>1, <5>1 DEF p
        <5>4. c[m] \in 0..p - 1
          BY <2>3, <5>3
        <5> QED
          BY <3>4, <5>2, <5>4 DEF u
      <4> QED
        BY <4>1, <4>2
    <3>10. Shows(n)
      <4> SUFFICES ASSUME NEW m \in 1..n, NEW i \in 1..Len(h[m])
                   PROVE  FromEnd(t[n], c[m] - i) = h[m][i]
        OBVIOUS
      <4>1. CASE m = n
        BY <3>4, <3>5, <4>1 DEF u, q, l, x
      <4>2. CASE m \in 1..n - 1
        <5>1. FromEnd(v, c[m] - i) = h[m][i]
          BY <2>2, <4>2 DEF v
        <5>2. m \in 1..N /\ m - 1 \in 0..N /\ m \in 0..n - 1
          BY <1>1, <2>1, <4>2
        <5>3. c[m] <= p /\ c[m] \in Nat
          BY <3>7, <5>2
        <5> DEFINE r == c[m]
                   s == c[m - 1]
                   y == Len(h[m])
        <5>4. r = s + y + (IF s = 0 THEN 0 ELSE 1) /\ s \in Nat /\ y \in Nat
          BY <1>1, <1>3, <5>2
        <5>5. i \in 1..y /\ r \in Nat /\ r <= p
          BY <5>3
        <5> HIDE DEF r, s, y
        <5>6. r - i \in 0..p - 1
          BY <2>3, <5>4, <5>5
        <5> QED
          BY <3>4, <5>1, <5>6 DEF u, r
      <4> QED
        BY <2>5, <4>1, <4>2
    <3> QED
      BY <2>1, <3>6, <3>8, <3>9, <3>10
  <2> QED
    BY <2>6, <2>7
<1>7. \A n \in 0..N : n \in Kept
  <2>1. Kept \in SUBSET (0..N)
    OBVIOUS
  <2> HIDE DEF Kept
  <2> QED
    BY <1>1, <1>5, <1>6, <2>1, LoopKeeps
<1> QED
  BY <1>7 DEF N, t, c

(* The text of a name ends with that of another, with a dot in front if it is longer. *)
EndsWith(h, g) ==
    LET x == NameSize(g)
        y == NameSize(h)
    IN  /\ x <= y
        /\ \A k \in 0..x - 1 : FromEnd(Dotted(h), k) = FromEnd(Dotted(g), k)
        /\ x < y => FromEnd(Dotted(h), x) = Dot

(* host_matches_suffix, by positions from the end. *)
LEMMA MatchesAtEnd ==
    ASSUME NEW h \in Hosts, NEW g \in Hosts, NEW only \in BOOLEAN
    PROVE  HostMatchesSuffix(h, g, only) <=>
                EndsWith(h, g) /\ (NameSize(g) = NameSize(h) => ~only)
<1> DEFINE a == Dotted(g)
           b == Dotted(h)
           x == NameSize(g)
           y == NameSize(h)
<1>1. a \in Seq(Bytes) /\ Len(a) = x /\ b \in Seq(Bytes) /\ Len(b) = y
  <2>1. Len(g) \in 0..Len(g) /\ Len(h) \in 0..Len(h)
    BY HostIsSequence
  <2> QED
    BY <2>1, DottedSteps, DottedLayout DEF Dotted, NameSize
<1>2. x \in Nat /\ y \in Nat
  BY <1>1, LenProperties
<1> DEFINE size == y - x
           Same == \A k \in 0..x - 1 : FromEnd(b, k) = FromEnd(a, k)
<1>3. HostMatchesSuffix(h, g, only) <=>
        \/ size = 0 /\ ~only /\ b = a
        \/ size > 0 /\ b[size] = Dot /\ SubSeq(b, size + 1, y) = a
  BY <1>1 DEF HostMatchesSuffix
<1>4. EndsWith(h, g) <=> x <= y /\ Same /\ (x < y => FromEnd(b, x) = Dot)
  BY DEF EndsWith
<1> HIDE DEF a, b, x, y
<1>5. Same <=> \A i \in 1..x : b[y - (x - i)] = a[i]
  <2>1. ASSUME Same, NEW i \in 1..x PROVE b[y - (x - i)] = a[i]
    <3>1. x - i \in 0..x - 1 /\ x - (x - i) = i
      BY <1>2
    <3>2. FromEnd(b, x - i) = FromEnd(a, x - i)
      BY <2>1, <3>1
    <3> QED
      BY <1>1, <3>1, <3>2 DEF FromEnd
  <2>2. ASSUME \A i \in 1..x : b[y - (x - i)] = a[i], NEW k \in 0..x - 1
        PROVE  FromEnd(b, k) = FromEnd(a, k)
    <3>1. x - k \in 1..x /\ x - (x - k) = k
      BY <1>2
    <3>2. b[y - (x - (x - k))] = a[x - k]
      BY <2>2, <3>1
    <3> QED
      BY <1>1, <3>1, <3>2 DEF FromEnd
  <2> QED
    BY <2>1, <2>2
<1>6. NameSize(g) = NameSize(h) <=> x = y
  BY DEF x, y
<1>7. CASE y < x
  BY <1>2, <1>3, <1>4, <1>7
<1>8. CASE y = x
  <2>1. \A i \in 1..x : y - (x - i) = i
    BY <1>2, <1>8
  <2>2. Same <=> \A i \in 1..x : b[i] = a[i]
    BY <1>5, <2>1
  <2>3. b = a <=> Same
    <3>1. a \in Seq(Bytes) /\ Len(a) = x /\ b \in Seq(Bytes) /\ Len(b) = x
      BY <1>1, <1>8
    <3>2. (\A i \in 1..x : b[i] = a[i]) => b = a
      BY <3>1, SeqEqual
    <3> HIDE DEF Same
    <3> QED
      BY <2>2, <3>2
  <2>4. size = 0 /\ ~(size > 0) /\ x <= y /\ ~(x < y)
    BY <1>2, <1>8
  <2> HIDE DEF Same
  <2> QED
    BY <1>3, <1>4, <1>8, <1>6, <2>3, <2>4
<1>9. CASE x < y
  <2> DEFINE s == SubSeq(b, size + 1, y)
  <2>1. size \in Nat /\ size > 0 /\ size + x = y /\ size + 1 \in 1..y + 1
    BY <1>2, <1>9
  <2> HIDE DEF size
  <2>2. s \in Seq(Bytes) /\ Len(s) = x /\ \A i \in 1..x : s[i] = b[size + i]
    <3>1. \A i \in size + 1..y : b[i] \in Bytes
      BY <1>1, <2>1, ElementOfSeq
    <3>2. /\ s \in Seq(Bytes)
          /\ Len(s) = IF size + 1 <= y THEN y - (size + 1) + 1 ELSE 0
          /\ \A i \in 1..y - (size + 1) + 1 : s[i] = b[size + 1 + i - 1]
      BY <2>1, <3>1, <1>2, SubSeqProperties
    <3>3. y - (size + 1) + 1 = x /\ (size + 1 <= y \/ x = 0)
      BY <1>2, <2>1
    <3>4. \A i \in 1..x : size + 1 + i - 1 = size + i
      BY <1>2, <2>1
    <3> HIDE DEF s
    <3>5. size + 1 <= y => Len(s) = x
      BY <3>2, <3>3
    <3>6. ~(size + 1 <= y) => Len(s) = x
      BY <3>2, <3>3
    <3> QED
      BY <3>2, <3>3, <3>4, <3>5, <3>6
  <2>3. \A i \in 1..x : y - (x - i) = size + i
    BY <1>2, <2>1
  <2> HIDE DEF s
  <2>4. s = a <=> \A i \in 1..x : b[size + i] = a[i]
    BY <1>1, <2>2, SeqEqual
  <2>5. s = a <=> Same
    BY <1>5, <2>3, <2>4
  <2>6. FromEnd(b, x) = b[size]
    BY <1>1 DEF FromEnd, size
  <2>7. size > 0 /\ size # 0 /\ x <= y /\ x < y /\ x # y
    BY <1>2, <1>9, <2>1
  <2> HIDE DEF Same
  <2> QED
    BY <1>3, <1>4, <1>6, <2>5, <2>6, <2>7 DEF s
<1> QED
  BY <1>2, <1>7, <1>8, <1>9 DEF a, b, x, y

(* Names whose first labels are equal have one form as far as these go. *)
LEMMA SameForms ==
    ASSUME NEW g \in Hosts, NEW h \in Hosts, NEW n \in 0..Len(g), n <= Len(h),
           \A i \in 1..n : g[i] = h[i]
    PROVE  Consumed[g][n] = Consumed[h][n] /\ DottedUpto[g][n] = DottedUpto[h][n]
<1> DEFINE a == Consumed[g]
           b == Consumed[h]
           s == DottedUpto[g]
           t == DottedUpto[h]
           Kept == {i \in 0..n : a[i] = b[i] /\ s[i] = t[i]}
<1>1. Len(g) \in Nat /\ Len(h) \in Nat /\ n \in Nat
  BY HostIsSequence
<1>2. \A i \in 1..n : i \in 1..Len(g) /\ i \in 1..Len(h)
  BY <1>1
<1>3. /\ a[0] = 0 /\ b[0] = 0
      /\ \A i \in 1..n : a[i] = a[i - 1] + Len(g[i]) + (IF a[i - 1] = 0 THEN 0 ELSE 1)
      /\ \A i \in 1..n : b[i] = b[i - 1] + Len(h[i]) + (IF b[i - 1] = 0 THEN 0 ELSE 1)
  BY <1>2, ConsumedSteps
<1>4. /\ s[0] = <<>> /\ t[0] = <<>>
      /\ \A i \in 1..n : s[i] = IF i = 1 THEN g[1] ELSE g[i] \o <<Dot>> \o s[i - 1]
      /\ \A i \in 1..n : t[i] = IF i = 1 THEN h[1] ELSE h[i] \o <<Dot>> \o t[i - 1]
  BY <1>2, DottedSteps
<1> HIDE DEF a, b, s, t
<1>5. 0 \in Kept
  BY <1>1, <1>3, <1>4
<1>6. ASSUME NEW i \in 1..n, i - 1 \in Kept PROVE i \in Kept
  <2>1. i \in 0..n /\ g[i] = h[i] /\ a[i - 1] = b[i - 1] /\ s[i - 1] = t[i - 1]
    BY <1>1, <1>6
  <2>2. a[i] = b[i]
    BY <1>3, <2>1
  <2>3. s[i] = t[i]
    BY <1>4, <2>1
  <2> QED
    BY <2>1, <2>2, <2>3
<1>7. \A i \in 0..n : i \in Kept
  <2>1. Kept \in SUBSET (0..n)
    OBVIOUS
  <2> HIDE DEF Kept
  <2> QED
    BY <1>1, <1>5, <1>6, <2>1, LoopKeeps
<1>8. n \in 0..n
  BY <1>1
<1> QED
  BY <1>7, <1>8 DEF a, b, s, t

(* A label of a name that ends like another is the other's, if those behind it are:
   a longer one would have a character where the other name has a dot.        *)
LEMMA NextLabel ==
    ASSUME NEW g \in Hosts, NEW h \in Hosts \ {Unnamed}, EndsWith(h, g),
           NEW n \in 1..Len(g), n - 1 <= Len(h),
           Consumed[g][n - 1] = Consumed[h][n - 1]
    PROVE  n <= Len(h) /\ g[n] = h[n]
<1> DEFINE M == Len(g)
           N == Len(h)
           a == Consumed[g]
           b == Consumed[h]
           G == Dotted(g)
           H == Dotted(h)
           p == a[n - 1]
           x == Len(g[n])
           y == Len(h[n])
<1>1. M \in Nat /\ N \in Nat \ {0} /\ n \in Nat /\ n - 1 \in 0..M /\ n - 1 \in 0..N
      /\ n \in 0..M /\ M \in 0..M /\ N \in 0..N
  BY HostIsSequence, EmptySeq DEF Unnamed
<1>2. /\ \A i \in 0..M : a[i] \in Nat
      /\ \A i \in 0..N : b[i] \in Nat
      /\ \A i, j \in 0..M : i < j => a[i] < a[j]
      /\ \A i, j \in 0..N : i < j => b[i] < b[j]
      /\ a[n] = p + x + (IF p = 0 THEN 0 ELSE 1)
      /\ n \in 1..N => b[n] = b[n - 1] + y + (IF b[n - 1] = 0 THEN 0 ELSE 1)
  BY ConsumedSteps, ConsumedGrows
<1>3. /\ \A m \in 1..M - 1 : FromEnd(G, a[m]) = Dot
      /\ \A i \in 1..x : FromEnd(G, a[n] - i) = g[n][i]
      /\ \A m \in 1..N - 1 : FromEnd(H, b[m]) = Dot
      /\ n \in 1..N => \A i \in 1..y : FromEnd(H, b[n] - i) = h[n][i]
  BY <1>1, DottedLayout DEF Dotted
<1>4. /\ a[M] <= b[N]
      /\ \A k \in 0..a[M] - 1 : FromEnd(H, k) = FromEnd(G, k)
      /\ a[M] < b[N] => FromEnd(H, a[M]) = Dot
  BY DEF EndsWith, NameSize
<1>5. /\ x \in Nat \ {0} /\ g[n] \in Seq(Bytes) /\ \A i \in 1..x : g[n][i] # Dot
      /\ n \in 1..N => y \in Nat \ {0} /\ h[n] \in Seq(Bytes) /\ \A i \in 1..y : h[n][i] # Dot
  BY HostIsSequence, LabelIsBytes
<1>6. p = b[n - 1]
  OBVIOUS
<1> HIDE DEF M, N, a, b, G, H, p, x, y
<1>7. a[M] \in Nat /\ b[N] \in Nat /\ a[n] \in Nat /\ p \in Nat /\ a[n] <= a[M]
      /\ p < a[n]
  <2>1. n < M \/ n = M
    BY <1>1 DEF M
  <2>2. p \in Nat
    BY <1>1, <1>2 DEF p
  <2>3. a[n] \in Nat /\ a[M] \in Nat /\ b[N] \in Nat
    BY <1>1, <1>2
  <2>4. a[n] <= a[M]
    BY <1>1, <1>2, <2>1, <2>3
  <2> QED
    BY <1>2, <1>5, <2>2, <2>3, <2>4
<1>8. n \in 1..N
  <2> SUFFICES ASSUME ~(n <= N) PROVE FALSE
    BY <1>1
  <2>1. n - 1 = N
    BY <1>1
  <2>2. b[N] < a[n]
    BY <1>6, <1>7, <2>1
  <2> QED
    BY <1>4, <1>7, <2>2
<1>9. b[n] \in Nat /\ b[n] <= b[N] /\ b[n] = p + y + (IF p = 0 THEN 0 ELSE 1)
      /\ y \in Nat \ {0}
  <2>1. n < N \/ n = N
    BY <1>1, <1>8
  <2>2. n \in 0..N
    BY <1>1, <1>8
  <2>3. b[n] \in Nat /\ (n < N => b[n] < b[N])
    BY <1>1, <1>2, <2>2
  <2> QED
    BY <1>2, <1>5, <1>6, <1>7, <1>8, <2>1, <2>3
<1>10. ASSUME x < y PROVE FALSE
  <2>1. a[n] < b[n] /\ b[n] - (y - x) = a[n] /\ y - x \in 1..y
    BY <1>2, <1>5, <1>7, <1>9, <1>10
  <2>2. FromEnd(H, a[n]) = h[n][y - x] /\ h[n][y - x] # Dot
    BY <1>3, <1>5, <1>8, <2>1
  <2>3. CASE n = M
    <3>1. a[M] < b[N]
      BY <1>7, <1>9, <2>1, <2>3
    <3> QED
      BY <1>4, <2>2, <2>3, <3>1
  <2>4. CASE n # M
    <3>1. n \in 1..M - 1 /\ n < M
      BY <1>1, <2>4 DEF M
    <3>2. FromEnd(G, a[n]) = Dot
      BY <1>3, <3>1
    <3>3. a[n] < a[M]
      BY <1>1, <1>2, <3>1
    <3>4. a[n] \in 0..a[M] - 1
      BY <1>7, <3>3
    <3> QED
      BY <1>4, <2>2, <3>2, <3>4
  <2> QED
    BY <2>3, <2>4
<1>11. ASSUME y < x PROVE FALSE
  <2>1. b[n] < a[n] /\ a[n] - (x - y) = b[n] /\ x - y \in 1..x
    BY <1>2, <1>5, <1>7, <1>9, <1>11
  <2>2. FromEnd(G, b[n]) = g[n][x - y] /\ g[n][x - y] # Dot
    BY <1>3, <1>5, <2>1
  <2>3. b[n] \in 0..a[M] - 1
    BY <1>7, <1>9, <2>1
  <2>4. n # N
    BY <1>4, <1>7, <1>9, <2>1
  <2>5. n \in 1..N - 1
    BY <1>1, <1>8, <2>4
  <2> QED
    BY <1>3, <1>4, <2>2, <2>3, <2>5
<1>12. x = y /\ a[n] = b[n]
  BY <1>2, <1>5, <1>7, <1>9, <1>10, <1>11
<1>13. ASSUME NEW i \in 1..x PROVE g[n][i] = h[n][i]
  <2>1. a[n] - i \in 0..a[M] - 1
    BY <1>2, <1>5, <1>7
  <2>2. FromEnd(H, a[n] - i) = FromEnd(G, a[n] - i)
    BY <1>4, <2>1
  <2> QED
    BY <1>3, <1>8, <1>12, <2>2
<1>14. g[n] = h[n]
  <2>1. g[n] \in Seq(Bytes) /\ h[n] \in Seq(Bytes)
    BY <1>5, <1>8
  <2> QED
    BY <1>12, <1>13, <2>1, SeqEqual DEF x, y
<1> QED
  BY <1>1, <1>8, <1>14 DEF N

(* A name ends like another exactly if its labels do. *)
LEMMA EndsByLabels ==
    ASSUME NEW g \in Hosts \ {Unnamed}, NEW h \in Hosts \ {Unnamed}
    PROVE  EndsWith(h, g) <=> IsPrefix(g, h)
<1> DEFINE M == Len(g)
           N == Len(h)
           Kept == {n \in 0..M : n <= N /\ \A i \in 1..n : g[i] = h[i]}
<1>1. g \in Seq(Labels) /\ h \in Seq(Labels) /\ M \in Nat /\ N \in Nat
  BY HostIsSequence
<1>2. IsPrefix(g, h) <=> M <= N /\ \A i \in 1..M : g[i] = h[i]
  BY <1>1, PrefixElements
<1>3. ASSUME EndsWith(h, g) PROVE IsPrefix(g, h)
  <2> HIDE DEF M, N
  <2>1. 0 \in Kept
    BY <1>1
  <2>2. ASSUME NEW n \in 1..M, n - 1 \in Kept PROVE n \in Kept
    <3>1. n - 1 \in 0..M /\ n - 1 <= N /\ \A i \in 1..n - 1 : g[i] = h[i]
      BY <2>2
    <3>2. Consumed[g][n - 1] = Consumed[h][n - 1]
      BY <3>1, SameForms DEF M, N
    <3>3. n <= N /\ g[n] = h[n]
      BY <1>3, <3>1, <3>2, NextLabel DEF M, N
    <3>4. \A i \in 1..n : i \in 1..n - 1 \/ i = n
      BY <1>1
    <3>5. n \in 0..M
      BY <1>1
    <3> QED
      BY <3>1, <3>3, <3>4, <3>5
  <2>3. \A n \in 0..M : n \in Kept
    <3>1. Kept \in SUBSET (0..M)
      OBVIOUS
    <3> HIDE DEF Kept
    <3> QED
      BY <1>1, <2>1, <2>2, <3>1, LoopKeeps
  <2>4. M \in 0..M
    BY <1>1
  <2> QED
    BY <1>2, <2>3, <2>4
<1>4. ASSUME IsPrefix(g, h) PROVE EndsWith(h, g)
  <2> DEFINE c == Consumed[h]
             t == DottedUpto[h]
  <2>1. M \in 0..M /\ M <= N /\ M \in 0..N /\ N \in 0..N
    BY <1>1, <1>2, <1>4
  <2>2. Consumed[g][M] = c[M] /\ DottedUpto[g][M] = t[M]
    BY <1>2, <1>4, <2>1, SameForms
  <2>3. NameSize(g) = c[M] /\ Dotted(g) = t[M] /\ NameSize(h) = c[N] /\ Dotted(h) = t[N]
    BY <2>2 DEF NameSize, Dotted
  <2>4. /\ \A k \in 0..c[M] - 1 : FromEnd(t[N], k) = FromEnd(t[M], k)
        /\ \A m \in 1..N - 1 : FromEnd(t[N], c[m]) = Dot
    BY <2>1, DottedLayout
  <2>5. c[M] \in Nat /\ c[N] \in Nat /\ (M < N => c[M] < c[N]) /\ c[0] = 0
    BY <2>1, ConsumedSteps, ConsumedGrows
  <2> HIDE DEF c, t, M, N
  <2>6. c[M] <= c[N]
    BY <1>1, <2>1, <2>5
  <2>7. ASSUME c[M] < c[N] PROVE FromEnd(t[N], c[M]) = Dot
    <3>1. M # 0
      BY <1>1, EmptySeq DEF M, Unnamed
    <3>2. M \in 1..N - 1
      BY <1>1, <2>1, <2>5, <2>7, <3>1
    <3> QED
      BY <2>4, <3>2
  <2> QED
    BY <2>3, <2>4, <2>6, <2>7 DEF EndsWith
<1> QED
  BY <1>3, <1>4

(* host_matches_suffix: the test of the characters decides whether a name is another or
   below it, label by label.                                                  *)
LEMMA SuffixByLabels ==
    ASSUME NEW h \in Hosts \ {Unnamed}, NEW g \in Hosts \ {Unnamed}, NEW only \in BOOLEAN
    PROVE  HostMatchesSuffix(h, g, only) <=>
                IsPrefix(g, h) /\ (only => Len(h) > Len(g))
<1>1. HostMatchesSuffix(h, g, only) <=>
        IsPrefix(g, h) /\ (NameSize(g) = NameSize(h) => ~only)
  BY MatchesAtEnd, EndsByLabels
<1>2. ASSUME IsPrefix(g, h) PROVE NameSize(g) = NameSize(h) <=> ~(Len(h) > Len(g))
  <2> DEFINE c == Consumed[h]
  <2>1. Len(g) \in 0..Len(h) /\ Len(g) \in Nat /\ Len(h) \in Nat /\ Len(h) \in 0..Len(h)
        /\ NameSize(g) = c[Len(g)] /\ NameSize(h) = c[Len(h)]
    BY <1>2, SuffixSize, HostIsSequence DEF NameSize
  <2>2. /\ c[Len(g)] \in Nat /\ c[Len(h)] \in Nat
        /\ Len(g) < Len(h) => c[Len(g)] < c[Len(h)]
    BY <2>1, ConsumedSteps, ConsumedGrows
  <2> HIDE DEF c
  <2>3. Len(g) = Len(h) \/ Len(g) < Len(h)
    BY <2>1
  <2> QED
    BY <2>1, <2>2, <2>3
<1> QED
  BY <1>1, <1>2

-----------------------------------------------------------------------------
(* The index *)

Matcher == HostMatcher \cup NetworkMatcher
Rule == [priority : Int, matchers : Seq(Matcher)]
RulesTyped == rules \in Seq(Rule)

LEMMA RuleFields ==
    ASSUME RulesTyped
    PROVE  /\ Len(rules) \in Nat /\ DOMAIN rules = 1..Len(rules)
           /\ \A i \in DOMAIN rules :
                /\ rules[i].priority \in Int
                /\ rules[i].matchers \in Seq(Matcher)
                /\ ToSet(rules[i].matchers) \subseteq Matcher
                /\ DOMAIN rules[i].matchers = 1..Len(rules[i].matchers)
                /\ Len(rules[i].matchers) \in Nat
                /\ \A n \in DOMAIN rules[i].matchers : rules[i].matchers[n] \in Matcher
<1>1. Len(rules) \in Nat /\ DOMAIN rules = 1..Len(rules) /\ rules \in Seq(Rule)
  BY DEF RulesTyped
<1>2. ASSUME NEW i \in DOMAIN rules
      PROVE  /\ rules[i].priority \in Int
             /\ rules[i].matchers \in Seq(Matcher)
  <2>1. rules[i] \in Rule
    BY <1>1, ElementOfSeq
  <2> QED
    BY <2>1 DEF Rule
<1>3. ASSUME NEW s \in Seq(Matcher)
      PROVE  /\ ToSet(s) \subseteq Matcher /\ DOMAIN s = 1..Len(s) /\ Len(s) \in Nat
             /\ \A n \in DOMAIN s : s[n] \in Matcher
  <2>1. DOMAIN s = 1..Len(s) /\ Len(s) \in Nat /\ \A n \in DOMAIN s : s[n] \in Matcher
    BY ElementOfSeq
  <2> QED
    BY <2>1 DEF ToSet
<1> QED
  BY <1>1, <1>2, <1>3

(* A sequence that lists the members of a finite set, each as often as it takes. *)
Lists(x, T) ==
    /\ x \in Seq(DOMAIN rules) /\ IsFiniteSet(T) /\ Len(x) = Cardinality(T)
    /\ \A k \in 1..Len(x) : x[k] \in T
    /\ \A i \in T : \E k \in 1..Len(x) : x[k] = i

LEMMA ListsMore ==
    ASSUME NEW x, NEW T, Lists(x, T), NEW n \in DOMAIN rules, n \notin T
    PROVE  Lists(Append(x, n), T \cup {n})
<1> DEFINE y == Append(x, n)
<1>1. x \in Seq(DOMAIN rules) /\ Len(x) \in Nat
  BY DEF Lists
<1>2. /\ y \in Seq(DOMAIN rules) /\ Len(y) = Len(x) + 1 /\ y[Len(x) + 1] = n
      /\ \A k \in 1..Len(x) : y[k] = x[k]
  BY <1>1, AppendProperties
<1> HIDE DEF y
<1>3. IsFiniteSet(T \cup {n}) /\ Cardinality(T \cup {n}) = Cardinality(T) + 1
  BY FS_AddElement DEF Lists
<1>4. \A k \in 1..Len(y) : k \in 1..Len(x) \/ k = Len(x) + 1
  BY <1>1, <1>2
<1>5. \A k \in 1..Len(x) : k \in 1..Len(y)
  BY <1>1, <1>2
<1>6. Len(x) + 1 \in 1..Len(y)
  BY <1>1, <1>2
<1>7. \A k \in 1..Len(y) : y[k] \in T \cup {n}
  BY <1>2, <1>4 DEF Lists
<1>8. \A i \in T \cup {n} : \E k \in 1..Len(y) : y[k] = i
  BY <1>2, <1>5, <1>6 DEF Lists
<1>9. Len(y) = Cardinality(T \cup {n})
  BY <1>2, <1>3 DEF Lists
<1> QED
  BY <1>2, <1>3, <1>7, <1>8, <1>9 DEF Lists, y

IsInOrder(S, upto) ==
    upto = [n \in 0..Len(rules) |->
                IF n = 0 THEN <<>>
                ELSE IF n \in S THEN Append(upto[n - 1], n) ELSE upto[n - 1]]

LEMMA InFileOrderLists ==
    ASSUME RulesTyped, NEW S \in SUBSET (DOMAIN rules) PROVE Lists(InFileOrder(S), S)
<1> DEFINE N == Len(rules)
           X == Seq(DOMAIN rules)
           After(n) == [x \in X |-> IF n \in S THEN Append(x, n) ELSE x]
           step == [n \in 1..N |-> After(n)]
           upto == CHOOSE u : IsInOrder(S, u)
<1>1. N \in Nat /\ DOMAIN rules = 1..N
  BY RuleFields
<1>2. step \in [1..N -> [X -> X]]
  <2>1. ASSUME NEW n \in 1..N PROVE After(n) \in [X -> X]
    <3>1. n \in DOMAIN rules
      BY <1>1
    <3>2. \A x \in X : Append(x, n) \in X
      BY <3>1, AppendProperties
    <3> QED
      BY <3>2
  <2> HIDE DEF After
  <2> QED
    BY <2>1
<1>3. PICK run \in [0..N -> X] : Runs(N, <<>>, step, run)
  <2> HIDE DEF step, N
  <2>1. <<>> \in X
    BY EmptySeq
  <2> HIDE DEF X
  <2> QED
    BY <1>1, <1>2, <2>1, LoopRuns
<1>4. ASSUME NEW n \in 1..N
      PROVE  run[n] = IF n \in S THEN Append(run[n - 1], n) ELSE run[n - 1]
  <2>1. run[n] = step[n][run[n - 1]]
    BY <1>3 DEF Runs
  <2>2. n - 1 \in 0..N
    BY <1>1, StepBefore
  <2>3. run[n - 1] \in X
    BY <1>3, <2>2
  <2> QED
    BY <2>1, <2>3
<1>5. IsInOrder(S, run)
  <2>1. run[0] = <<>>
    BY <1>3 DEF Runs
  <2>2. \A n \in 0..N : n # 0 => n \in 1..N
    BY <1>1
  <2>3. run = [n \in 0..N |-> run[n]]
    BY <1>3
  <2> QED
    BY <2>1, <2>2, <2>3, <1>4 DEF IsInOrder
<1>6. InFileOrder(S) = upto[N] /\ IsInOrder(S, upto)
  <2>1. IsInOrder(S, upto)
    BY <1>5
  <2>2. InFileOrder(S) = upto[N]
    BY DEF InFileOrder, IsInOrder
  <2> QED
    BY <2>1, <2>2
<1> HIDE DEF upto
<1>7. /\ upto[0] = <<>>
      /\ \A n \in 1..N : upto[n] = IF n \in S THEN Append(upto[n - 1], n) ELSE upto[n - 1]
  <2>1. 0 \in 0..N /\ \A n \in 1..N : n \in 0..N /\ n # 0
    BY <1>1
  <2>2. upto = [n \in 0..N |->
                    IF n = 0 THEN <<>>
                    ELSE IF n \in S THEN Append(upto[n - 1], n) ELSE upto[n - 1]]
    BY <1>6 DEF IsInOrder
  <2> QED
    BY <2>1, <2>2
<1> DEFINE Kept == {n \in 0..N : Lists(upto[n], S \cap (1..n))}
<1>8. 0 \in Kept
  <2>1. S \cap (1..0) = {} /\ 0 \in 0..N
    BY <1>1
  <2>2. Lists(<<>>, {})
    BY FS_EmptySet, EmptySeq DEF Lists
  <2> QED
    BY <1>7, <2>1, <2>2
<1>9. ASSUME NEW n \in 1..N, n - 1 \in Kept PROVE n \in Kept
  <2>1. Lists(upto[n - 1], S \cap (1..n - 1)) /\ n \in 0..N /\ n \in DOMAIN rules
    BY <1>1, <1>9
  <2>2. n \notin S \cap (1..n - 1)
    BY <1>1
  <2>3. CASE n \in S
    <3>1. (S \cap (1..n - 1)) \cup {n} = S \cap (1..n)
      BY <1>1, <2>3
    <3>2. Lists(Append(upto[n - 1], n), (S \cap (1..n - 1)) \cup {n})
      BY <2>1, <2>2, ListsMore
    <3>3. upto[n] = Append(upto[n - 1], n)
      BY <1>7, <2>3
    <3> QED
      BY <2>1, <3>1, <3>2, <3>3
  <2>4. CASE n \notin S
    <3>1. S \cap (1..n - 1) = S \cap (1..n)
      BY <1>1, <2>4
    <3> QED
      BY <2>1, <2>4, <3>1, <1>7
  <2> QED
    BY <2>3, <2>4
<1>10. \A n \in 0..N : n \in Kept
  <2>1. Kept \in SUBSET (0..N)
    OBVIOUS
  <2> HIDE DEF Kept
  <2> QED
    BY <1>1, <1>8, <1>9, <2>1, LoopKeeps
<1>11. N \in 0..N /\ S \cap (1..N) = S
  BY <1>1
<1> QED
  BY <1>6, <1>10, <1>11

(* The first n of a sequence: all of it if it is no longer. *)
LEMMA FirstOfIsPart ==
    ASSUME NEW X, NEW x \in Seq(X), NEW n \in Nat
    PROVE  /\ FirstOf(n, x) \in Seq(X)
           /\ Len(FirstOf(n, x)) = (IF Len(x) < n THEN Len(x) ELSE n)
           /\ \A k \in 1..Len(FirstOf(n, x)) : k \in 1..Len(x) /\ FirstOf(n, x)[k] = x[k]
           /\ Len(x) <= n => FirstOf(n, x) = x
<1> DEFINE m == IF Len(x) < n THEN Len(x) ELSE n
           y == SubSeq(x, 1, m)
<1>1. Len(x) \in Nat
  OBVIOUS
<1>2. m \in Nat /\ m <= Len(x)
  BY <1>1
<1>3. FirstOf(n, x) = y
  BY DEF FirstOf
<1> HIDE DEF m
<1>4. /\ y \in Seq(X) /\ Len(y) = m
      /\ \A k \in 1..Len(y) : k \in 1..Len(x) /\ y[k] = x[k]
  BY <1>1, <1>2
<1>5. m = Len(x) => y = x
  BY <1>1
<1> QED
  BY <1>1, <1>3, <1>4, <1>5 DEF m
-----------------------------------------------------------------------------
(* The candidates of a host *)

Paired(T, n) == {<<i, n>> : i \in T}

LEMMA PairsCounted ==
    ASSUME NEW T, IsFiniteSet(T), NEW n
    PROVE  IsFiniteSet(Paired(T, n)) /\ Cardinality(Paired(T, n)) = Cardinality(T)
<1> DEFINE f == [i \in T |-> <<i, n>>]
<1>1. f \in Bijection(T, Paired(T, n))
  <2>1. f \in [T -> Paired(T, n)]
    BY DEF Paired
  <2>2. \A i, j \in T : f[i] = f[j] => i = j
    OBVIOUS
  <2>3. \A p \in Paired(T, n) : \E i \in T : f[i] = p
    BY DEF Paired
  <2> HIDE DEF f
  <2> QED
    BY <2>1, <2>2, <2>3, Fun_IsBij
<1> QED
  BY <1>1, FS_Bijection DEF ExistsBijection

Candidate == [rule : DOMAIN rules, depth : Nat]
DepthOf(host, n) == IF n = 0 THEN NameSize(host) ELSE Consumed[host][n]
AtDepth(indices, depth) ==
    [n \in DOMAIN indices |-> [rule |-> indices[n], depth |-> depth]]

(* The rules that are named by n labels of a host, or by all of it. *)
NamedBy(host, n) ==
    IF n = 0 THEN RulesWith("host_exact", host)
    ELSE RulesWith("host_suffix", SubSeq(host, 1, n))
NamedUpto(host, n) == {c \in Named(host) : c[2] <= n}

LEMMA NamedIn ==
    ASSUME NEW host \in Hosts, NEW i, NEW n \in 0..Len(host)
    PROVE  <<i, n>> \in Named(host) <=> i \in NamedBy(host, n)
  BY DEF Named, NamedBy, RulesWith

LEMMA NamedGrows ==
    ASSUME RulesTyped, NEW host \in Hosts
    PROVE  /\ NamedUpto(host, 0) = Paired(NamedBy(host, 0), 0)
           /\ \A n \in 1..Len(host) :
                /\ NamedUpto(host, n)
                     = NamedUpto(host, n - 1) \cup Paired(NamedBy(host, n), n)
                /\ NamedUpto(host, n - 1) \cap Paired(NamedBy(host, n), n) = {}
           /\ NamedUpto(host, Len(host)) = Named(host)
<1>1. Len(host) \in Nat
  BY HostIsSequence
<1>2. \A c \in Named(host) : /\ c = <<c[1], c[2]>> /\ c[2] \in 0..Len(host)
                             /\ c[1] \in NamedBy(host, c[2])
  BY DEF Named, NamedBy
<1>3. \A n \in 0..Len(host) : \A i \in NamedBy(host, n) : <<i, n>> \in Named(host)
  BY NamedIn
<1>4. NamedUpto(host, 0) = Paired(NamedBy(host, 0), 0)
  <2>1. ASSUME NEW c \in NamedUpto(host, 0) PROVE c \in Paired(NamedBy(host, 0), 0)
    <3>1. c \in Named(host) /\ c[2] = 0
      BY <1>1, <1>2 DEF NamedUpto
    <3> QED
      BY <1>2, <3>1 DEF Paired
  <2>2. ASSUME NEW c \in Paired(NamedBy(host, 0), 0) PROVE c \in NamedUpto(host, 0)
    <3>1. PICK i \in NamedBy(host, 0) : c = <<i, 0>>
      BY DEF Paired
    <3>2. c \in Named(host) /\ c[2] = 0
      BY <1>1, <1>3, <3>1
    <3> QED
      BY <3>2 DEF NamedUpto
  <2> QED
    BY <2>1, <2>2
<1>5. ASSUME NEW n \in 1..Len(host)
      PROVE  /\ NamedUpto(host, n)
                  = NamedUpto(host, n - 1) \cup Paired(NamedBy(host, n), n)
             /\ NamedUpto(host, n - 1) \cap Paired(NamedBy(host, n), n) = {}
  <2>1. ASSUME NEW c \in NamedUpto(host, n), c \notin NamedUpto(host, n - 1)
        PROVE  c \in Paired(NamedBy(host, n), n)
    <3>1. c \in Named(host) /\ c[2] \in 0..Len(host) /\ c[2] <= n /\ ~(c[2] <= n - 1)
      BY <1>2, <2>1 DEF NamedUpto
    <3>2. c[2] = n
      BY <1>1, <3>1
    <3> QED
      BY <1>2, <3>1, <3>2 DEF Paired
  <2>2. ASSUME NEW c \in Paired(NamedBy(host, n), n)
        PROVE  c \in NamedUpto(host, n) /\ c \notin NamedUpto(host, n - 1)
    <3>1. PICK i \in NamedBy(host, n) : c = <<i, n>>
      BY DEF Paired
    <3>2. c[2] = n /\ n \in 0..Len(host) /\ n <= n /\ ~(n <= n - 1)
      BY <1>1, <3>1
    <3>3. c \in Named(host)
      BY <1>3, <3>1, <3>2
    <3> QED
      BY <3>2, <3>3 DEF NamedUpto
  <2>3. \A c \in NamedUpto(host, n - 1) : c \in NamedUpto(host, n)
    <3> SUFFICES ASSUME NEW c \in Named(host), c[2] <= n - 1 PROVE c[2] <= n
      BY DEF NamedUpto
    <3>1. c[2] \in Nat /\ n \in Nat
      BY <1>1, <1>2
    <3> QED
      BY <3>1
  <2> QED
    BY <2>1, <2>2, <2>3
<1>6. NamedUpto(host, Len(host)) = Named(host)
  BY <1>1, <1>2 DEF NamedUpto
<1> QED
  BY <1>4, <1>5, <1>6

(* Candidates that are the rules of a sequence, at one depth. *)
LEMMA AtDepthLists ==
    ASSUME RulesTyped, NEW x \in Seq(DOMAIN rules), NEW depth \in Nat
    PROVE  /\ AtDepth(x, depth) \in Seq(Candidate)
           /\ Len(AtDepth(x, depth)) = Len(x)
           /\ \A k \in 1..Len(x) : /\ AtDepth(x, depth)[k].rule = x[k]
                                   /\ AtDepth(x, depth)[k].depth = depth
<1> DEFINE y == AtDepth(x, depth)
<1>1. Len(x) \in Nat /\ DOMAIN x = 1..Len(x) /\ \A k \in 1..Len(x) : x[k] \in DOMAIN rules
  BY ElementOfSeq
<1>2. y = [k \in 1..Len(x) |-> [rule |-> x[k], depth |-> depth]]
  BY <1>1 DEF AtDepth
<1>3. y \in [1..Len(x) -> Candidate]
  BY <1>1, <1>2 DEF Candidate
<1>4. y \in Seq(Candidate) /\ Len(y) = Len(x)
  <2> HIDE DEF y
  <2> QED
    BY <1>1, <1>3
<1> QED
  BY <1>2, <1>4

LEMMA NamedByFinite ==
    ASSUME RulesTyped, NEW host, NEW n
    PROVE  NamedBy(host, n) \subseteq DOMAIN rules /\ IsFiniteSet(NamedBy(host, n))
<1>1. NamedBy(host, n) \subseteq DOMAIN rules
  BY DEF NamedBy, RulesWith
<1>2. IsFiniteSet(DOMAIN rules)
  BY RuleFields, FS_Interval
<1> QED
  BY <1>1, <1>2, FS_Subset
(* The list after the first n labels: no longer than there are rules named so far,
   with each of them in it, and only them.  Without an exact rule it goes from the
   shortest suffix to the longest.                                            *)
Covers(host, d, n) ==
    /\ d \in Seq(Candidate)
    /\ Len(d) <= Cardinality(NamedUpto(host, n)) /\ IsFiniteSet(NamedUpto(host, n))
    /\ \A k \in 1..Len(d) : \E m \in 0..n :
            d[k].rule \in NamedBy(host, m) /\ d[k].depth = DepthOf(host, m)
    /\ \A m \in 1..n, i \in DOMAIN rules :
            i \in NamedBy(host, m) => \E k \in 1..Len(d) : d[k].rule = i
                                                    /\ d[k].depth = Consumed[host][m]
    /\ NamedBy(host, 0) # {} => \E k \in 1..Len(d) : d[k].rule \in NamedBy(host, 0)
    /\ NamedBy(host, 0) = {} =>
            \A j, k \in 1..Len(d) : j <= k => d[j].depth <= d[k].depth

LEMMA DepthsAreNaturals ==
    ASSUME NEW host \in Hosts, NEW n \in 0..Len(host)
    PROVE  NameSize(host) \in Nat /\ Consumed[host][n] \in Nat /\ DepthOf(host, n) \in Nat
<1>1. Len(host) \in Nat /\ Len(host) \in 0..Len(host)
  BY HostIsSequence
<1> QED
  BY <1>1, ConsumedSteps DEF NameSize, DepthOf

LEMMA CoversExact ==
    ASSUME RulesTyped, NEW host \in Hosts
    PROVE  Covers(host, AtDepth(ExactHosts(host), NameSize(host)), 0)
<1> DEFINE T == NamedBy(host, 0)
           all == InFileOrder(T)
           x == ExactHosts(host)
           d == AtDepth(x, NameSize(host))
<1>1. T \subseteq DOMAIN rules /\ IsFiniteSet(T)
  BY NamedByFinite
<1>2. Lists(all, T)
  BY <1>1, InFileOrderLists
<1>3. x = FirstOf(1, all)
  BY DEF ExactHosts, NamedBy
<1> HIDE DEF T, all, x
<1>4. /\ all \in Seq(DOMAIN rules) /\ Len(all) = Cardinality(T)
      /\ \A k \in 1..Len(all) : all[k] \in T
  BY <1>2 DEF Lists
<1>5. /\ x \in Seq(DOMAIN rules) /\ Len(x) = (IF Len(all) < 1 THEN Len(all) ELSE 1)
      /\ \A k \in 1..Len(x) : k \in 1..Len(all) /\ x[k] = all[k]
  <2>1. PICK one \in Nat : one = 1
    OBVIOUS
  <2>2. /\ FirstOf(one, all) \in Seq(DOMAIN rules)
        /\ Len(FirstOf(one, all)) = (IF Len(all) < one THEN Len(all) ELSE one)
        /\ \A k \in 1..Len(FirstOf(one, all)) :
                k \in 1..Len(all) /\ FirstOf(one, all)[k] = all[k]
    BY <1>4, FirstOfIsPart
  <2> QED
    BY <1>3, <2>1, <2>2
<1>6. Len(all) \in Nat /\ 0 \in 0..Len(host)
  BY <1>4, HostIsSequence
<1>7. NameSize(host) \in Nat
  BY <1>6, DepthsAreNaturals
<1>8. /\ d \in Seq(Candidate) /\ Len(d) = Len(x)
      /\ \A k \in 1..Len(x) : d[k].rule = x[k] /\ d[k].depth = NameSize(host)
  BY <1>5, <1>7, AtDepthLists
<1>9. IsFiniteSet(NamedUpto(host, 0)) /\ Cardinality(NamedUpto(host, 0)) = Cardinality(T)
  BY <1>1, NamedGrows, PairsCounted DEF T
<1> HIDE DEF d
<1>10. Len(d) <= Cardinality(NamedUpto(host, 0))
  BY <1>4, <1>5, <1>6, <1>8, <1>9
<1>11. \A k \in 1..Len(d) : d[k].rule \in T /\ d[k].depth = DepthOf(host, 0)
  BY <1>4, <1>5, <1>8 DEF DepthOf
<1>12. T # {} => 1 \in 1..Len(d)
  <2> SUFFICES ASSUME T # {} PROVE 1 \in 1..Len(d)
    OBVIOUS
  <2>1. Cardinality(T) # 0
    BY <1>1, FS_EmptySet
  <2> QED
    BY <1>4, <1>5, <1>6, <1>8, <2>1
<1>13. \A j, k \in 1..Len(d) : d[j].depth <= d[k].depth
  BY <1>7, <1>8
<1>14. /\ \A k \in 1..Len(d) : \E m \in 0..0 :
              d[k].rule \in NamedBy(host, m) /\ d[k].depth = DepthOf(host, m)
       /\ 1..0 = {}
  BY <1>11 DEF T
<1>15. T # {} => \E k \in 1..Len(d) : d[k].rule \in T
  BY <1>11, <1>12
<1> QED
  BY <1>8, <1>9, <1>10, <1>13, <1>14, <1>15 DEF Covers, T, d, x

LEMMA CoversLabel ==
    ASSUME RulesTyped, NEW host \in Hosts, NEW n \in 1..Len(host), NEW d,
           Covers(host, d, n - 1)
    PROVE  Covers(host, d \o AtDepth(TrieRules(SubSeq(host, 1, n)), Consumed[host][n]), n)
<1> DEFINE T == NamedBy(host, n)
           x == TrieRules(SubSeq(host, 1, n))
           e == AtDepth(x, Consumed[host][n])
           f == d \o e
<1>1. Len(host) \in Nat /\ n \in 0..Len(host) /\ n - 1 \in 0..Len(host) /\ n # 0
  BY HostIsSequence, StepBefore
<1>2. Consumed[host][n] \in Nat
  BY <1>1, DepthsAreNaturals
<1>3. T \subseteq DOMAIN rules /\ IsFiniteSet(T)
  BY NamedByFinite
<1>4. Lists(x, T)
  <2>1. T = RulesWith("host_suffix", SubSeq(host, 1, n))
    BY <1>1 DEF NamedBy
  <2> HIDE DEF T
  <2>2. x = InFileOrder(T)
    BY <2>1 DEF TrieRules
  <2> QED
    BY <1>3, <2>2, InFileOrderLists
<1> HIDE DEF T, x
<1>5. /\ x \in Seq(DOMAIN rules) /\ Len(x) = Cardinality(T) /\ Len(x) \in Nat
      /\ \A k \in 1..Len(x) : x[k] \in T
      /\ \A i \in T : \E k \in 1..Len(x) : x[k] = i
  BY <1>4 DEF Lists
<1>6. /\ e \in Seq(Candidate) /\ Len(e) = Len(x)
      /\ \A k \in 1..Len(x) : e[k].rule = x[k] /\ e[k].depth = Consumed[host][n]
  BY <1>2, <1>5, AtDepthLists
<1> HIDE DEF e
<1>7. /\ d \in Seq(Candidate) /\ Len(d) \in Nat
      /\ Len(d) <= Cardinality(NamedUpto(host, n - 1))
      /\ IsFiniteSet(NamedUpto(host, n - 1))
  BY DEF Covers
<1>8. /\ f \in Seq(Candidate) /\ Len(f) = Len(d) + Len(e)
      /\ \A k \in 1..Len(d) + Len(e) : f[k] = IF k <= Len(d) THEN d[k] ELSE e[k - Len(d)]
  <2>1. d \in Seq(Candidate) /\ e \in Seq(Candidate)
    BY <1>6, <1>7
  <2>2. /\ d \o e \in Seq(Candidate) /\ Len(d \o e) = Len(d) + Len(e)
        /\ \A k \in 1..Len(d) + Len(e) :
                (d \o e)[k] = IF k <= Len(d) THEN d[k] ELSE e[k - Len(d)]
    BY <2>1, ConcatProperties
  <2> QED
    BY <2>2
<1> HIDE DEF f
<1>9. /\ \A k \in 1..Len(f) : k \in 1..Len(d) \/ (k - Len(d) \in 1..Len(e) /\ ~(k <= Len(d)))
      /\ \A k \in 1..Len(d) : k \in 1..Len(f) /\ k <= Len(d)
      /\ \A k \in 1..Len(e) : k + Len(d) \in 1..Len(f) /\ ~(k + Len(d) <= Len(d))
                               /\ (k + Len(d)) - Len(d) = k
  BY <1>5, <1>6, <1>7, <1>8
<1>10. /\ \A k \in 1..Len(d) : f[k] = d[k]
       /\ \A k \in 1..Len(e) : f[k + Len(d)] = e[k]
       /\ \A k \in 1..Len(f) : f[k] = IF k \in 1..Len(d) THEN d[k] ELSE e[k - Len(d)]
  BY <1>8, <1>9
<1>11. Len(f) <= Cardinality(NamedUpto(host, n)) /\ IsFiniteSet(NamedUpto(host, n))
  <2>1. /\ NamedUpto(host, n) = NamedUpto(host, n - 1) \cup Paired(T, n)
        /\ NamedUpto(host, n - 1) \cap Paired(T, n) = {}
    BY NamedGrows DEF T
  <2>2. IsFiniteSet(Paired(T, n)) /\ Cardinality(Paired(T, n)) = Cardinality(T)
    BY <1>3, PairsCounted
  <2>3. /\ IsFiniteSet(NamedUpto(host, n))
        /\ Cardinality(NamedUpto(host, n))
             = Cardinality(NamedUpto(host, n - 1)) + Cardinality(Paired(T, n))
                 - Cardinality(NamedUpto(host, n - 1) \cap Paired(T, n))
    BY <1>7, <2>1, <2>2, FS_Union
  <2>4. Cardinality(NamedUpto(host, n - 1) \cap Paired(T, n)) = 0
    BY <2>1, FS_EmptySet
  <2>5. Cardinality(NamedUpto(host, n - 1)) \in Nat /\ Cardinality(T) \in Nat
    BY <1>3, <1>7, FS_CardinalityType
  <2> QED
    BY <1>5, <1>6, <1>7, <1>8, <2>2, <2>3, <2>4, <2>5
<1>12. ASSUME NEW k \in 1..Len(f)
       PROVE  \E m \in 0..n : f[k].rule \in NamedBy(host, m) /\ f[k].depth = DepthOf(host, m)
  <2>1. CASE k \in 1..Len(d)
    <3>1. PICK m \in 0..n - 1 :
              d[k].rule \in NamedBy(host, m) /\ d[k].depth = DepthOf(host, m)
      BY <2>1 DEF Covers
    <3>2. m \in 0..n
      BY <1>1
    <3> QED
      BY <1>10, <2>1, <3>1, <3>2
  <2>2. CASE k \notin 1..Len(d)
    <3>1. k - Len(d) \in 1..Len(e) /\ f[k] = e[k - Len(d)]
      BY <1>9, <1>10, <2>2
    <3>2. f[k].rule \in T /\ f[k].depth = Consumed[host][n]
      BY <1>5, <1>6, <3>1
    <3>3. n \in 0..n
      BY <1>1
    <3> QED
      BY <1>1, <3>2, <3>3 DEF T, DepthOf
  <2> QED
    BY <2>1, <2>2
<1>13. ASSUME NEW m \in 1..n, NEW i \in DOMAIN rules, i \in NamedBy(host, m)
       PROVE  \E k \in 1..Len(f) : f[k].rule = i /\ f[k].depth = Consumed[host][m]
  <2>1. CASE m = n
    <3>1. PICK k \in 1..Len(x) : x[k] = i
      BY <1>5, <1>13, <2>1 DEF T
    <3>2. e[k].rule = i /\ e[k].depth = Consumed[host][n] /\ k \in 1..Len(e)
      BY <1>6, <3>1
    <3>3. k + Len(d) \in 1..Len(f) /\ f[k + Len(d)] = e[k]
      BY <1>9, <1>10, <3>2
    <3> QED
      BY <2>1, <3>2, <3>3
  <2>2. CASE m # n
    <3>1. m \in 1..n - 1
      BY <1>1, <2>2
    <3>2. PICK k \in 1..Len(d) : d[k].rule = i /\ d[k].depth = Consumed[host][m]
      BY <1>13, <3>1 DEF Covers
    <3> QED
      BY <1>9, <1>10, <3>2
  <2> QED
    BY <2>1, <2>2
<1>14. NamedBy(host, 0) # {} => \E k \in 1..Len(f) : f[k].rule \in NamedBy(host, 0)
  <2> SUFFICES ASSUME NamedBy(host, 0) # {}
               PROVE  \E k \in 1..Len(f) : f[k].rule \in NamedBy(host, 0)
    OBVIOUS
  <2>1. PICK k \in 1..Len(d) : d[k].rule \in NamedBy(host, 0)
    BY DEF Covers
  <2> QED
    BY <1>9, <1>10, <2>1
<1>15. ASSUME NamedBy(host, 0) = {}, NEW j \in 1..Len(f), NEW k \in 1..Len(f), j <= k
       PROVE  f[j].depth <= f[k].depth
  <2>1. CASE k \in 1..Len(d)
    <3>1. j \in 1..Len(d)
      BY <1>7, <1>15, <2>1
    <3>2. d[j].depth <= d[k].depth
      BY <1>15, <2>1, <3>1 DEF Covers
    <3> QED
      BY <1>10, <2>1, <3>1, <3>2
  <2>2. CASE k \notin 1..Len(d)
    <3>1. f[k].depth = Consumed[host][n]
      <4>1. k - Len(d) \in 1..Len(e) /\ f[k] = e[k - Len(d)]
        BY <1>9, <1>10, <2>2
      <4> QED
        BY <1>6, <4>1
    <3>2. PICK m \in 0..n : f[j].rule \in NamedBy(host, m) /\ f[j].depth = DepthOf(host, m)
      BY <1>12
    <3>3. m # 0 /\ m \in 0..Len(host)
      BY <1>1, <1>15, <3>2
    <3>4. f[j].depth = Consumed[host][m]
      BY <3>2, <3>3 DEF DepthOf
    <3>5. CASE m = n
      BY <1>2, <3>1, <3>4, <3>5
    <3>6. CASE m # n
      <4>1. m < n
        BY <1>1, <3>6
      <4>2. Consumed[host][m] < Consumed[host][n] /\ Consumed[host][m] \in Nat
        BY <1>1, <3>3, <4>1, ConsumedGrows, DepthsAreNaturals
      <4> QED
        BY <1>2, <3>1, <3>4, <4>2
    <3> QED
      BY <3>5, <3>6
  <2> QED
    BY <2>1, <2>2
<1> QED
  BY <1>8, <1>11, <1>12, <1>13, <1>14, <1>15 DEF Covers, f, e, x

IsDown(host, down) ==
    down = [n \in 0..Len(host) |->
                IF n = 0 THEN AtDepth(ExactHosts(host), NameSize(host))
                ELSE down[n - 1] \o AtDepth(TrieRules(SubSeq(host, 1, n)), Consumed[host][n])]

(* What is collected is the first of a list that has all the rules named. *)
LEMMA CandidatesListed ==
    ASSUME RulesTyped, NEW host \in Hosts
    PROVE  \E d : /\ Covers(host, d, Len(host))
                  /\ Candidates(host) = FirstOf(MaxHostCandidates, d)
<1> DEFINE N == Len(host)
           X == Seq(Candidate)
           first == AtDepth(ExactHosts(host), NameSize(host))
           more(n) == AtDepth(TrieRules(SubSeq(host, 1, n)), Consumed[host][n])
           After(n) == [x \in X |-> x \o more(n)]
           step == [n \in 1..N |-> After(n)]
           down == CHOOSE u : IsDown(host, u)
<1>1. N \in Nat
  BY HostIsSequence
<1>2. Covers(host, first, 0) /\ first \in X
  <2>1. Covers(host, first, 0)
    BY CoversExact
  <2> QED
    BY <2>1 DEF Covers
<1>3. ASSUME NEW n \in 1..N PROVE more(n) \in X
  <2> DEFINE path == SubSeq(host, 1, n)
             x == TrieRules(path)
  <2>1. RulesWith("host_suffix", path) \subseteq DOMAIN rules
    BY DEF RulesWith
  <2>2. x \in Seq(DOMAIN rules)
    <3> HIDE DEF path
    <3>1. Lists(InFileOrder(RulesWith("host_suffix", path)), RulesWith("host_suffix", path))
      BY <2>1, InFileOrderLists
    <3> QED
      BY <3>1 DEF Lists, TrieRules
  <2>3. n \in 0..Len(host)
    BY <1>1
  <2>4. Consumed[host][n] \in Nat
    BY <2>3, DepthsAreNaturals
  <2> HIDE DEF x
  <2>5. AtDepth(x, Consumed[host][n]) \in X
    BY <2>2, <2>4, AtDepthLists
  <2> QED
    BY <2>5 DEF x
<1> HIDE DEF first, more, N
<1>4. step \in [1..N -> [X -> X]]
  <2>1. ASSUME NEW n \in 1..N PROVE After(n) \in [X -> X]
    <3>1. \A x \in X : x \o more(n) \in X
      BY <1>3, ConcatProperties
    <3> QED
      BY <3>1
  <2> HIDE DEF After
  <2> QED
    BY <2>1
<1>5. PICK run \in [0..N -> X] : Runs(N, first, step, run)
  <2> HIDE DEF step, X
  <2> QED
    BY <1>1, <1>2, <1>4, LoopRuns
<1>6. ASSUME NEW n \in 1..N PROVE run[n] = run[n - 1] \o more(n)
  <2>1. run[n] = step[n][run[n - 1]]
    BY <1>5 DEF Runs
  <2>2. n - 1 \in 0..N
    BY <1>1, StepBefore
  <2>3. run[n - 1] \in X
    BY <1>5, <2>2
  <2> QED
    BY <2>1, <2>3
<1>7. IsDown(host, run)
  <2>1. run[0] = first
    BY <1>5 DEF Runs
  <2>2. \A n \in 0..N : n # 0 => n \in 1..N
    BY <1>1
  <2>3. run = [n \in 0..N |-> run[n]]
    BY <1>5
  <2>4. run = [n \in 0..N |-> IF n = 0 THEN first ELSE run[n - 1] \o more(n)]
    BY <2>1, <2>2, <2>3, <1>6
  <2> QED
    BY <2>4 DEF IsDown, first, more, N
<1>8. IsDown(host, down) /\ Candidates(host) = FirstOf(MaxHostCandidates, down[N])
  <2>1. IsDown(host, down)
    BY <1>7
  <2>2. Candidates(host) = FirstOf(MaxHostCandidates, down[N])
    BY DEF Candidates, Collected, IsDown, AtDepth, N
  <2> QED
    BY <2>1, <2>2
<1> HIDE DEF down
<1>9. /\ down[0] = first
      /\ \A n \in 1..N : down[n] = down[n - 1] \o more(n)
  <2>1. 0 \in 0..N /\ \A n \in 1..N : n \in 0..N /\ n # 0
    BY <1>1
  <2>2. down = [n \in 0..N |-> IF n = 0 THEN first ELSE down[n - 1] \o more(n)]
    BY <1>8 DEF IsDown, first, more, N
  <2> QED
    BY <2>1, <2>2
<1> DEFINE Kept == {n \in 0..N : Covers(host, down[n], n)}
<1>10. 0 \in Kept
  BY <1>1, <1>2, <1>9
<1>11. ASSUME NEW n \in 1..N, n - 1 \in Kept PROVE n \in Kept
  <2>1. Covers(host, down[n - 1], n - 1) /\ n \in 0..N
    BY <1>1, <1>11
  <2>2. Covers(host, down[n - 1] \o more(n), n)
    BY <2>1, CoversLabel DEF more, N
  <2> QED
    BY <1>9, <2>1, <2>2
<1>12. \A n \in 0..N : n \in Kept
  <2>1. Kept \in SUBSET (0..N)
    OBVIOUS
  <2> HIDE DEF Kept
  <2> QED
    BY <1>1, <1>10, <1>11, <2>1, LoopKeeps
<1>13. Covers(host, down[N], N)
  <2>1. N \in 0..N
    BY <1>1
  <2> QED
    BY <1>12, <2>1
<1> QED
  BY <1>8, <1>13 DEF N

(* Each candidate is a rule named by that much of the host, and is at that depth;
   and where there is room, no rule that is named is missing.                 *)
LEMMA CandidatesNamed ==
    ASSUME RulesTyped, NEW host \in Hosts
    PROVE  /\ Candidates(host) \in Seq(Candidate)
           /\ \A k \in 1..Len(Candidates(host)) : \E m \in 0..Len(host) :
                /\ Candidates(host)[k].rule \in NamedBy(host, m)
                /\ Candidates(host)[k].depth = DepthOf(host, m)
           /\ Roomy(host) => Covers(host, Candidates(host), Len(host))
<1>1. PICK d : Covers(host, d, Len(host)) /\ Candidates(host) = FirstOf(MaxHostCandidates, d)
  BY CandidatesListed
<1>2. /\ d \in Seq(Candidate) /\ Len(d) \in Nat
      /\ \A k \in 1..Len(d) : \E m \in 0..Len(host) :
            d[k].rule \in NamedBy(host, m) /\ d[k].depth = DepthOf(host, m)
      /\ Len(d) <= Cardinality(NamedUpto(host, Len(host)))
      /\ IsFiniteSet(NamedUpto(host, Len(host)))
  BY <1>1 DEF Covers
<1>3. MaxHostCandidates \in Nat
  BY BoundsAssumption DEF BoundsAssumption
<1>4. /\ FirstOf(MaxHostCandidates, d) \in Seq(Candidate)
      /\ \A k \in 1..Len(FirstOf(MaxHostCandidates, d)) :
            k \in 1..Len(d) /\ FirstOf(MaxHostCandidates, d)[k] = d[k]
      /\ Len(d) <= MaxHostCandidates => FirstOf(MaxHostCandidates, d) = d
  BY <1>2, <1>3, FirstOfIsPart
<1>5. ASSUME Roomy(host) PROVE Covers(host, Candidates(host), Len(host))
  <2>1. Cardinality(NamedUpto(host, Len(host))) <= MaxHostCandidates
    BY <1>5, NamedGrows DEF Roomy
  <2>2. Cardinality(NamedUpto(host, Len(host))) \in Nat
    BY <1>2, FS_CardinalityType
  <2>3. Len(d) <= MaxHostCandidates
    BY <1>2, <1>3, <2>1, <2>2
  <2> QED
    BY <1>1, <1>4, <2>3
<1> QED
  BY <1>1, <1>2, <1>4, <1>5
-----------------------------------------------------------------------------
(* The best of the candidates *)

BestSpace == [rule : {NoRule} \cup DOMAIN rules, suffix : Nat]

(* Between two rules: one of the two, of a priority no other exceeds; with one
   priority, the one of the longer suffix, or the earlier.                    *)
BetterOf(current, i, a, b, better) ==
    /\ better \in DOMAIN rules /\ better \in {current, i}
    /\ rules[i].priority <= rules[better].priority
    /\ current # NoRule => rules[current].priority <= rules[better].priority
    /\ current = NoRule => better = i
    /\ current # NoRule /\ rules[i].priority = rules[current].priority =>
        better = IF b > a THEN i ELSE IF b < a THEN current
                 ELSE IF i < current THEN i ELSE current

LEMMA BetterIsOne ==
    ASSUME RulesTyped, NEW current \in {NoRule} \cup DOMAIN rules, NEW i \in DOMAIN rules,
           NEW a \in Nat, NEW b \in Nat
    PROVE  BetterOf(current, i, a, b, Better(current, i, a, b))
<1> DEFINE better == Better(current, i, a, b)
<1>1. i # NoRule /\ rules[i].priority \in Int /\ i \in Nat
  BY RuleFields DEF NoRule
<1>2. CASE current = NoRule
  <2>1. better = i
    BY <1>2 DEF Better
  <2> QED
    BY <1>1, <1>2, <2>1 DEF BetterOf
<1>3. CASE current # NoRule
  <2>1. current \in DOMAIN rules /\ rules[current].priority \in Int /\ current \in Nat
    BY <1>3, RuleFields
  <2>2. CASE rules[i].priority # rules[current].priority
    <3>1. better = IF rules[i].priority > rules[current].priority THEN i ELSE current
      BY <1>1, <1>3, <2>1, <2>2 DEF Better
    <3> QED
      BY <1>1, <1>3, <2>1, <2>2, <3>1 DEF BetterOf
  <2>3. CASE rules[i].priority = rules[current].priority
    <3>1. better = IF b > a THEN i ELSE IF b < a THEN current
                   ELSE IF i < current THEN i ELSE current
      BY <1>1, <1>3, <2>1, <2>3 DEF Better
    <3> QED
      BY <1>1, <1>3, <2>1, <2>3, <3>1 DEF BetterOf
  <2> QED
    BY <2>2, <2>3
<1> QED
  BY <1>2, <1>3

OnePriority == \A i, j \in DOMAIN rules : rules[i].priority = rules[j].priority

(* The depths rise along the list, and priorities decide nothing. *)
Rising(c) ==
    OnePriority /\ \A j, k \in 1..Len(c) : j <= k => c[j].depth <= c[k].depth

(* b is the best of the first n candidates that are satisfied. *)
BestSoFar(host, dest, c, b, n) ==
    /\ b \in BestSpace
    /\ b.rule = NoRule => \A k \in 1..n : ~Satisfies(c[k].rule, host, dest)
    /\ b.rule # NoRule => \E k \in 1..n :
            /\ c[k].rule = b.rule /\ Satisfies(c[k].rule, host, dest)
            /\ Rising(c) => c[k].depth = b.suffix
    /\ \A k \in 1..n : Satisfies(c[k].rule, host, dest) =>
            rules[c[k].rule].priority <= rules[b.rule].priority
    /\ Rising(c) => \A k \in 1..n : Satisfies(c[k].rule, host, dest) =>
            \/ c[k].depth < b.suffix
            \/ c[k].depth = b.suffix /\ b.rule <= c[k].rule

BestNext(host, dest, b, candidate) ==
    IF ~Satisfies(candidate.rule, host, dest) THEN b
    ELSE [rule |-> Better(b.rule, candidate.rule, b.suffix, candidate.depth),
          suffix |-> candidate.depth]

LEMMA BestStep ==
    ASSUME RulesTyped, NEW host, NEW dest, NEW c \in Seq(Candidate), NEW n \in 1..Len(c),
           NEW b, BestSoFar(host, dest, c, b, n - 1)
    PROVE  BestSoFar(host, dest, c, BestNext(host, dest, b, c[n]), n)
<1> DEFINE Sat(i) == Satisfies(i, host, dest)
           i == c[n].rule
           t == c[n].depth
           better == Better(b.rule, i, b.suffix, t)
           next == BestNext(host, dest, b, c[n])
<1>1. /\ Len(c) \in Nat /\ n \in Nat
      /\ \A k \in 1..Len(c) : c[k].rule \in DOMAIN rules /\ c[k].depth \in Nat
  <2>1. \A k \in 1..Len(c) : c[k] \in Candidate
    BY ElementOfSeq
  <2> QED
    BY <2>1 DEF Candidate
<1>2. i \in DOMAIN rules /\ t \in Nat /\ i # NoRule
  <2>1. i \in DOMAIN rules /\ t \in Nat
    BY <1>1
  <2> QED
    BY <2>1, RuleFields DEF NoRule
<1>3. b.rule \in {NoRule} \cup DOMAIN rules /\ b.suffix \in Nat /\ b \in BestSpace
  BY DEF BestSoFar, BestSpace
<1>4. \A k \in 1..n : k \in 1..n - 1 \/ k = n
  BY <1>1
<1>5. \A k \in 1..n - 1 : k \in 1..n /\ k \in 1..Len(c) /\ k <= n
  BY <1>1
<1>6. n \in 1..n
  BY <1>1
<1>7. CASE ~Sat(i)
  <2>1. next = b
    BY <1>7 DEF BestNext
  <2>2. b.rule = NoRule => \A k \in 1..n : ~Sat(c[k].rule)
    BY <1>4, <1>7 DEF BestSoFar
  <2>3. b.rule # NoRule => \E k \in 1..n :
            c[k].rule = b.rule /\ Sat(c[k].rule) /\ (Rising(c) => c[k].depth = b.suffix)
    BY <1>5 DEF BestSoFar
  <2>4. \A k \in 1..n : Sat(c[k].rule) => rules[c[k].rule].priority <= rules[b.rule].priority
    BY <1>4, <1>7 DEF BestSoFar
  <2>5. Rising(c) => \A k \in 1..n : Sat(c[k].rule) =>
            c[k].depth < b.suffix \/ (c[k].depth = b.suffix /\ b.rule <= c[k].rule)
    BY <1>4, <1>7 DEF BestSoFar
  <2> QED
    BY <1>3, <2>1, <2>2, <2>3, <2>4, <2>5 DEF BestSoFar
<1>8. CASE Sat(i)
  <2>1. next = [rule |-> better, suffix |-> t]
    BY <1>8 DEF BestNext
  <2>2. /\ better \in DOMAIN rules /\ better \in {b.rule, i}
        /\ rules[i].priority <= rules[better].priority
        /\ b.rule # NoRule => rules[b.rule].priority <= rules[better].priority
        /\ b.rule = NoRule => better = i
        /\ b.rule # NoRule /\ rules[i].priority = rules[b.rule].priority =>
             better = IF t > b.suffix THEN i ELSE IF t < b.suffix THEN b.rule
                      ELSE IF i < b.rule THEN i ELSE b.rule
    <3>1. PICK s \in Nat, u \in Nat : s = b.suffix /\ u = t
      BY <1>2, <1>3
    <3>2. BetterOf(b.rule, i, s, u, Better(b.rule, i, s, u))
      <4> HIDE DEF i, t
      <4> QED
        BY <1>2, <1>3, BetterIsOne
    <3>3. BetterOf(b.rule, i, b.suffix, t, better)
      BY <3>1, <3>2
    <3> HIDE DEF better
    <3> QED
      BY <3>3 DEF BetterOf
  <2> HIDE DEF better, next
  <2>3. better # NoRule /\ next.rule = better /\ next.suffix = t /\ next \in BestSpace
    BY <1>2, <2>1, <2>2, RuleFields DEF NoRule, BestSpace
  <2>4. \A k \in 1..n - 1 : Sat(c[k].rule) => b.rule # NoRule
    BY DEF BestSoFar
  <2>5. ASSUME NEW k \in 1..n, Sat(c[k].rule)
        PROVE  rules[c[k].rule].priority <= rules[better].priority
    <3>1. CASE k = n
      BY <2>2, <3>1
    <3>2. CASE k # n
      <4>1. k \in 1..n - 1 /\ c[k].rule \in DOMAIN rules /\ b.rule \in DOMAIN rules
        BY <1>1, <1>3, <1>4, <1>5, <2>4, <2>5, <3>2
      <4>2. rules[c[k].rule].priority <= rules[b.rule].priority
        BY <2>5, <4>1 DEF BestSoFar
      <4>3. rules[b.rule].priority <= rules[better].priority
        BY <2>2, <2>4, <2>5, <4>1
      <4>4. /\ rules[c[k].rule].priority \in Int /\ rules[b.rule].priority \in Int
            /\ rules[better].priority \in Int
        BY <2>2, <4>1, RuleFields
      <4> QED
        BY <4>2, <4>3, <4>4
    <3> QED
      BY <3>1, <3>2
  <2>6. Rising(c) => /\ \A k \in 1..n - 1 : c[k].depth <= t
                     /\ b.rule # NoRule => rules[i].priority = rules[b.rule].priority
    BY <1>2, <1>3, <1>5 DEF Rising, OnePriority
  <2>7. ASSUME Rising(c), b.rule # NoRule PROVE b.suffix <= t
    <3>1. PICK k \in 1..n - 1 : c[k].depth = b.suffix
      BY <2>7 DEF BestSoFar
    <3> QED
      BY <2>6, <2>7, <3>1
  <2>8. \E k \in 1..n : /\ c[k].rule = better /\ Sat(c[k].rule)
                        /\ Rising(c) => c[k].depth = t
    <3>1. CASE better = i
      BY <1>6, <1>8, <3>1
    <3>2. CASE better # i
      <4>1. better = b.rule /\ b.rule # NoRule
        BY <2>2, <3>2
      <4>2. PICK k \in 1..n - 1 : /\ c[k].rule = b.rule /\ Sat(c[k].rule)
                                  /\ Rising(c) => c[k].depth = b.suffix
        BY <4>1 DEF BestSoFar
      <4>3. Rising(c) => t = b.suffix
        BY <1>2, <1>3, <2>2, <2>6, <2>7, <3>2, <4>1
      <4> QED
        BY <1>5, <4>1, <4>2, <4>3
    <3> QED
      BY <3>1, <3>2
  <2>9. ASSUME Rising(c), NEW k \in 1..n, Sat(c[k].rule)
        PROVE  c[k].depth < t \/ (c[k].depth = t /\ better <= c[k].rule)
    <3>1. i \in Nat /\ c[k].rule \in Nat /\ better \in Nat
      <4>1. c[k].rule \in DOMAIN rules
        BY <1>1, <1>4, <1>5
      <4>2. DOMAIN rules \subseteq Nat
        BY RuleFields
      <4> QED
        BY <1>2, <2>2, <4>1, <4>2
    <3>2. b.rule \in Nat
      BY <1>3, RuleFields DEF NoRule
    <3>3. /\ b.rule = NoRule => better = i
          /\ b.rule # NoRule =>
                /\ better = IF t > b.suffix THEN i ELSE IF t < b.suffix THEN b.rule
                            ELSE IF i < b.rule THEN i ELSE b.rule
                /\ b.suffix <= t
      BY <2>2, <2>6, <2>7, <2>9
    <3>4. /\ better <= i
          /\ b.rule # NoRule => b.suffix <= t /\ (t = b.suffix => better <= b.rule)
      BY <1>2, <1>3, <3>1, <3>2, <3>3
    <3>5. CASE k = n
      BY <3>4, <3>5
    <3>6. CASE k # n
      <4>1. k \in 1..n - 1
        BY <1>4, <3>6
      <4>2. b.rule # NoRule /\ c[k].depth \in Nat
        BY <1>1, <1>5, <2>4, <2>9, <4>1
      <4>3. c[k].depth < b.suffix \/ (c[k].depth = b.suffix /\ b.rule <= c[k].rule)
        BY <2>9, <4>1 DEF BestSoFar
      <4>4. c[k].depth <= t
        BY <2>6, <2>9, <4>1
      <4>5. b.suffix \in Nat /\ t \in Nat
        BY <1>2, <1>3
      <4> HIDE DEF i, t
      <4> QED
        BY <3>1, <3>2, <3>4, <4>2, <4>3, <4>4, <4>5
    <3> QED
      BY <3>5, <3>6
  <2>10. BestSoFar(host, dest, c, next, n)
    <3> HIDE DEF i, t
    <3> QED
      BY <2>3, <2>5, <2>8, <2>9 DEF BestSoFar
  <2> QED
    BY <2>10 DEF next
<1> QED
  BY <1>7, <1>8

LEMMA BestAtFirst ==
    ASSUME RulesTyped, NEW host, NEW dest, NEW c
    PROVE  BestSoFar(host, dest, c, [rule |-> NoRule, suffix |-> 0], 0)
<1>1. 1..0 = {}
  OBVIOUS
<1> QED
  BY <1>1 DEF BestSoFar, BestSpace

IsBestRun(host, dest, c, best) ==
    best = [n \in 0..Len(c) |->
                IF n = 0 THEN [rule |-> NoRule, suffix |-> 0]
                ELSE BestNext(host, dest, best[n - 1], c[n])]

(* match()'s pass over the candidates of the name. *)
LEMMA HostRuleIsBest ==
    ASSUME RulesTyped, NEW host \in Hosts, NEW dest
    PROVE  \E b : /\ BestSoFar(host, dest, Candidates(host), b, Len(Candidates(host)))
                  /\ BestHostRule(host, dest) = b.rule
<1> DEFINE c == Candidates(host)
           N == Len(c)
           first == [rule |-> NoRule, suffix |-> 0]
           X == BestSpace
           After(n) == [x \in X |-> BestNext(host, dest, x, c[n])]
           step == [n \in 1..N |-> After(n)]
           best == CHOOSE u : IsBestRun(host, dest, c, u)
<1>1. c \in Seq(Candidate) /\ N \in Nat /\ \A n \in 1..N : c[n] \in Candidate
  <2>1. c \in Seq(Candidate)
    BY CandidatesNamed
  <2> HIDE DEF c
  <2> QED
    BY <2>1, ElementOfSeq
<1>2. BestHostRule(host, dest) = best[N].rule
  BY DEF BestHostRule, IsBestRun, BestNext
<1> HIDE DEF c, N
<1>3. step \in [1..N -> [X -> X]]
  <2>1. ASSUME NEW n \in 1..N, NEW x \in X PROVE BestNext(host, dest, x, c[n]) \in X
    <3> DEFINE i == c[n].rule
               t == c[n].depth
    <3>1. i \in DOMAIN rules /\ t \in Nat
      BY <1>1 DEF Candidate
    <3>2. x.rule \in {NoRule} \cup DOMAIN rules /\ x.suffix \in Nat
      BY DEF BestSpace
    <3>3. Better(x.rule, i, x.suffix, t) \in DOMAIN rules
      <4>1. PICK s \in Nat, u \in Nat : s = x.suffix /\ u = t
        BY <3>1, <3>2
      <4>2. BetterOf(x.rule, i, s, u, Better(x.rule, i, s, u))
        <5> HIDE DEF i, t
        <5> QED
          BY <3>1, <3>2, BetterIsOne
      <4>3. Better(x.rule, i, s, u) \in DOMAIN rules
        BY <4>2 DEF BetterOf
      <4> QED
        BY <4>1, <4>3
    <3>4. BestNext(host, dest, x, c[n])
            \in {x, [rule |-> Better(x.rule, i, x.suffix, t), suffix |-> t]}
      BY DEF BestNext
    <3> HIDE DEF i, t
    <3> QED
      BY <3>1, <3>3, <3>4 DEF BestSpace
  <2>2. ASSUME NEW n \in 1..N PROVE After(n) \in [X -> X]
    <3> HIDE DEF X
    <3> QED
      BY <2>1
  <2> HIDE DEF After
  <2> QED
    BY <2>2
<1>4. first \in X
  BY DEF BestSpace
<1>5. PICK run \in [0..N -> X] : Runs(N, first, step, run)
  <2> HIDE DEF step, X, first
  <2> QED
    BY <1>1, <1>3, <1>4, LoopRuns
<1>6. ASSUME NEW n \in 1..N PROVE run[n] = BestNext(host, dest, run[n - 1], c[n])
  <2>1. run[n] = step[n][run[n - 1]]
    BY <1>5 DEF Runs
  <2>2. n - 1 \in 0..N
    BY <1>1, StepBefore
  <2>3. run[n - 1] \in X
    BY <1>5, <2>2
  <2> HIDE DEF X
  <2> QED
    BY <2>1, <2>3
<1>7. IsBestRun(host, dest, c, run)
  <2>1. run[0] = first
    BY <1>5 DEF Runs
  <2>2. \A n \in 0..N : n # 0 => n \in 1..N
    BY <1>1
  <2>3. run = [n \in 0..N |-> run[n]]
    BY <1>5
  <2> HIDE DEF first
  <2>4. run = [n \in 0..N |-> IF n = 0 THEN first ELSE BestNext(host, dest, run[n - 1], c[n])]
    BY <2>1, <2>2, <2>3, <1>6
  <2> QED
    BY <2>4 DEF IsBestRun, first, N
<1>8. IsBestRun(host, dest, c, best)
  BY <1>7
<1> HIDE DEF best
<1>9. best[0] = first /\ \A n \in 1..N : best[n] = BestNext(host, dest, best[n - 1], c[n])
  <2>1. 0 \in 0..N /\ \A n \in 1..N : n \in 0..N /\ n # 0
    BY <1>1
  <2> HIDE DEF first
  <2>2. best = [n \in 0..N |-> IF n = 0 THEN first ELSE BestNext(host, dest, best[n - 1], c[n])]
    BY <1>8 DEF IsBestRun, first, N
  <2> QED
    BY <2>1, <2>2
<1> DEFINE Kept == {n \in 0..N : BestSoFar(host, dest, c, best[n], n)}
<1>10. 0 \in Kept
  BY <1>1, <1>9, BestAtFirst
<1>11. ASSUME NEW n \in 1..N, n - 1 \in Kept PROVE n \in Kept
  <2>1. BestSoFar(host, dest, c, best[n - 1], n - 1) /\ n \in 0..N
    BY <1>1, <1>11
  <2>2. BestSoFar(host, dest, c, BestNext(host, dest, best[n - 1], c[n]), n)
    BY <1>1, <2>1, BestStep DEF N
  <2> QED
    BY <1>9, <2>1, <2>2
<1>12. \A n \in 0..N : n \in Kept
  <2>1. Kept \in SUBSET (0..N)
    OBVIOUS
  <2> HIDE DEF Kept
  <2> QED
    BY <1>1, <1>10, <1>11, <2>1, LoopKeeps
<1>13. BestSoFar(host, dest, c, best[N], N)
  <2>1. N \in 0..N
    BY <1>1
  <2> QED
    BY <1>12, <2>1
<1> QED
  BY <1>2, <1>13 DEF c, N

IsAddressRun(host, dest, best) ==
    best = [n \in 0..Len(AddressOnlyRules) |->
                IF n = 0 THEN NoRule
                ELSE IF ~Satisfies(AddressOnlyRules[n], host, dest) THEN best[n - 1]
                ELSE Better(best[n - 1], AddressOnlyRules[n], 0, 0)]

LEMMA AddressRulesListed ==
    ASSUME RulesTyped
    PROVE  /\ AddressOnlyRules \in Seq(DOMAIN rules) /\ Len(AddressOnlyRules) \in Nat
           /\ \A k \in 1..Len(AddressOnlyRules) : ~RequiresHost(AddressOnlyRules[k])
           /\ \A host : Roomy(host) => \A i \in DOMAIN rules :
                ~RequiresHost(i) => \E k \in 1..Len(AddressOnlyRules) : AddressOnlyRules[k] = i
<1> DEFINE T == {i \in DOMAIN rules : ~RequiresHost(i)}
           all == InFileOrder(T)
<1>1. Lists(all, T)
  <2>1. T \in SUBSET (DOMAIN rules)
    OBVIOUS
  <2> HIDE DEF T
  <2> QED
    BY <2>1, InFileOrderLists
<1>2. AddressOnlyRules = FirstOf(MaxAddressOnlyRules, all)
  BY DEF AddressOnlyRules
<1>3. MaxAddressOnlyRules \in Nat
  BY BoundsAssumption DEF BoundsAssumption
<1>4. /\ all \in Seq(DOMAIN rules) /\ Len(all) = Cardinality(T) /\ Len(all) \in Nat
      /\ \A k \in 1..Len(all) : all[k] \in T
      /\ \A i \in T : \E k \in 1..Len(all) : all[k] = i
  <2> HIDE DEF T, all
  <2> QED
    BY <1>1 DEF Lists
<1>5. /\ FirstOf(MaxAddressOnlyRules, all) \in Seq(DOMAIN rules)
      /\ \A k \in 1..Len(FirstOf(MaxAddressOnlyRules, all)) :
            k \in 1..Len(all) /\ FirstOf(MaxAddressOnlyRules, all)[k] = all[k]
      /\ Len(all) <= MaxAddressOnlyRules => FirstOf(MaxAddressOnlyRules, all) = all
  <2>1. PICK max \in Nat : max = MaxAddressOnlyRules
    BY <1>3
  <2> HIDE DEF all, T
  <2>2. /\ FirstOf(max, all) \in Seq(DOMAIN rules)
        /\ \A k \in 1..Len(FirstOf(max, all)) :
                k \in 1..Len(all) /\ FirstOf(max, all)[k] = all[k]
        /\ Len(all) <= max => FirstOf(max, all) = all
    BY <1>4, FirstOfIsPart
  <2> QED
    BY <2>1, <2>2
<1>6. \A host : Roomy(host) => Len(all) <= MaxAddressOnlyRules
  <2>1. \A host : Roomy(host) => Cardinality(T) <= MaxAddressOnlyRules
    BY DEF Roomy
  <2> HIDE DEF T, all
  <2> QED
    BY <1>4, <2>1
<1> HIDE DEF all
<1>7. Len(AddressOnlyRules) \in Nat
  BY <1>2, <1>5
<1> QED
  BY <1>2, <1>4, <1>5, <1>6, <1>7

(* match()'s pass over the rules without a name. *)
LEMMA AddressRuleIsBest ==
    ASSUME RulesTyped, NEW host, NEW dest
    PROVE  BestSoFar(host, dest, AtDepth(AddressOnlyRules, 0),
                     [rule |-> BestAddressRule(host, dest), suffix |-> 0],
                     Len(AddressOnlyRules))
<1> DEFINE a == AddressOnlyRules
           c == AtDepth(a, 0)
           N == Len(a)
           X == {NoRule} \cup DOMAIN rules
           More(x, i) == IF ~Satisfies(i, host, dest) THEN x ELSE Better(x, i, 0, 0)
           After(n) == [x \in X |-> More(x, a[n])]
           step == [n \in 1..N |-> After(n)]
           best == CHOOSE u : IsAddressRun(host, dest, u)
           State(x) == [rule |-> x, suffix |-> 0]
<1>1. /\ a \in Seq(DOMAIN rules) /\ N \in Nat
      /\ \A n \in 1..N : a[n] \in DOMAIN rules
  BY AddressRulesListed, ElementOfSeq
<1>2. /\ c \in Seq(Candidate) /\ Len(c) = N
      /\ \A n \in 1..N : c[n].rule = a[n] /\ c[n].depth = 0
  <2>1. PICK zero \in Nat : zero = 0
    OBVIOUS
  <2>2. /\ AtDepth(a, zero) \in Seq(Candidate) /\ Len(AtDepth(a, zero)) = N
        /\ \A n \in 1..N : AtDepth(a, zero)[n].rule = a[n] /\ AtDepth(a, zero)[n].depth = zero
    BY <1>1, AtDepthLists
  <2> QED
    BY <2>1, <2>2
<1>3. BestAddressRule(host, dest) = best[N]
  BY DEF BestAddressRule, IsAddressRun
<1> HIDE DEF a, c, N
<1>4. step \in [1..N -> [X -> X]]
  <2>1. ASSUME NEW n \in 1..N, NEW x \in X PROVE More(x, a[n]) \in X
    <3>1. PICK zero \in Nat : zero = 0
      OBVIOUS
    <3>2. BetterOf(x, a[n], zero, zero, Better(x, a[n], zero, zero))
      BY <1>1, BetterIsOne
    <3>3. Better(x, a[n], 0, 0) \in DOMAIN rules
      BY <3>1, <3>2 DEF BetterOf
    <3> QED
      BY <3>3
  <2>2. ASSUME NEW n \in 1..N PROVE After(n) \in [X -> X]
    <3> HIDE DEF X, More
    <3> QED
      BY <2>1
  <2> HIDE DEF After
  <2> QED
    BY <2>2
<1>5. PICK run \in [0..N -> X] : Runs(N, NoRule, step, run)
  <2>1. NoRule \in X
    OBVIOUS
  <2> HIDE DEF step, X
  <2> QED
    BY <1>1, <1>4, <2>1, LoopRuns
<1>6. ASSUME NEW n \in 1..N PROVE run[n] = More(run[n - 1], a[n])
  <2>1. run[n] = step[n][run[n - 1]]
    BY <1>5 DEF Runs
  <2>2. n - 1 \in 0..N
    BY <1>1, StepBefore
  <2>3. run[n - 1] \in X
    BY <1>5, <2>2
  <2> HIDE DEF X, More
  <2> QED
    BY <2>1, <2>3
<1>7. IsAddressRun(host, dest, run)
  <2>1. run[0] = NoRule
    BY <1>5 DEF Runs
  <2>2. \A n \in 0..N : n # 0 => n \in 1..N
    BY <1>1
  <2>3. run = [n \in 0..N |-> run[n]]
    BY <1>5
  <2>4. run = [n \in 0..N |-> IF n = 0 THEN NoRule ELSE More(run[n - 1], a[n])]
    <3> HIDE DEF More
    <3> QED
      BY <2>1, <2>2, <2>3, <1>6
  <2> QED
    BY <2>4 DEF IsAddressRun, a, N
<1>8. IsAddressRun(host, dest, best)
  BY <1>7
<1> HIDE DEF best
<1>9. best[0] = NoRule /\ \A n \in 1..N : best[n] = More(best[n - 1], a[n])
  <2>1. 0 \in 0..N /\ \A n \in 1..N : n \in 0..N /\ n # 0
    BY <1>1
  <2>2. best = [n \in 0..N |-> IF n = 0 THEN NoRule ELSE More(best[n - 1], a[n])]
    BY <1>8 DEF IsAddressRun, a, N
  <2> HIDE DEF More
  <2> QED
    BY <2>1, <2>2
<1> DEFINE Kept == {n \in 0..N : BestSoFar(host, dest, c, State(best[n]), n)}
<1>10. 0 \in Kept
  BY <1>1, <1>9, BestAtFirst
<1>11. ASSUME NEW n \in 1..N, n - 1 \in Kept PROVE n \in Kept
  <2>1. BestSoFar(host, dest, c, State(best[n - 1]), n - 1) /\ n \in 0..N
    BY <1>1, <1>11
  <2>2. BestSoFar(host, dest, c, BestNext(host, dest, State(best[n - 1]), c[n]), n)
    <3> HIDE DEF State
    <3> QED
      BY <1>2, <2>1, BestStep
  <2>3. BestNext(host, dest, State(best[n - 1]), c[n]) = State(More(best[n - 1], a[n]))
    BY <1>2 DEF BestNext
  <2>4. BestSoFar(host, dest, c, State(best[n]), n)
    <3> HIDE DEF State, More
    <3> QED
      BY <1>9, <2>2, <2>3
  <2> QED
    BY <2>1, <2>4
<1>12. \A n \in 0..N : n \in Kept
  <2>1. Kept \in SUBSET (0..N)
    OBVIOUS
  <2> HIDE DEF Kept
  <2> QED
    BY <1>1, <1>10, <1>11, <2>1, LoopKeeps
<1>13. BestSoFar(host, dest, c, State(best[N]), N)
  <2>1. N \in 0..N
    BY <1>1
  <2> QED
    BY <1>12, <2>1
<1> QED
  BY <1>3, <1>13 DEF c, N, a
-----------------------------------------------------------------------------
(* What match() returns *)

LEMMA NamesHaveSizes ==
    ASSUME NEW h \in Hosts \ {Unnamed}
    PROVE  Len(h) \in 1..Len(h) /\ NameSize(h) \in Nat \ {0}
<1>1. Len(h) \in Nat /\ Len(h) # 0
  <2>1. h \in Seq(Labels) /\ h # <<>>
    BY HostIsSequence DEF Unnamed
  <2> QED
    BY <2>1, EmptySeq
<1>2. 0 \in 0..Len(h) /\ Len(h) \in 0..Len(h) /\ 0 < Len(h)
  BY <1>1
<1>3. Consumed[h][0] < Consumed[h][Len(h)]
  BY <1>2, ConsumedGrows
<1>4. Consumed[h][0] \in Nat /\ Consumed[h][Len(h)] \in Nat
  BY <1>2, DepthsAreNaturals
<1> QED
  BY <1>1, <1>3, <1>4 DEF NameSize

LEMMA MatcherFields ==
    ASSUME NEW m \in Matcher
    PROVE  /\ m.kind \in {"host_exact", "host_suffix", "network"}
           /\ IsHostMatcher(m) => m.text \in Hosts \ {Unnamed} /\ m.text \in Hosts
  BY DEF Matcher, HostMatcher, NetworkMatcher, IsHostMatcher

LEMMA HostMatcherOf ==
    ASSUME RulesTyped, NEW i \in DOMAIN rules, NEW n \in HostMatchers(i)
    PROVE  /\ n \in DOMAIN rules[i].matchers
           /\ rules[i].matchers[n] \in Matcher
           /\ rules[i].matchers[n] \in ToSet(rules[i].matchers)
           /\ IsHostMatcher(rules[i].matchers[n])
           /\ rules[i].matchers[n].text \in Hosts \ {Unnamed}
<1>1. n \in DOMAIN rules[i].matchers /\ IsHostMatcher(rules[i].matchers[n])
  BY DEF HostMatchers
<1>2. rules[i].matchers[n] \in Matcher
  BY <1>1, RuleFields
<1> QED
  BY <1>1, <1>2, MatcherFields DEF ToSet

LEMMA SuffixLengthIsPositive ==
    ASSUME RulesTyped, NEW i \in DOMAIN rules
    PROVE  /\ HostSuffixLength(i) \in Nat
           /\ RequiresHost(i) => HostSuffixLength(i) > 0
<1>1. CASE ~RequiresHost(i)
  BY <1>1 DEF HostSuffixLength
<1>2. CASE RequiresHost(i)
  <2>1. HostMatchers(i) \in SUBSET Nat /\ HostMatchers(i) # {}
    <3>1. HostMatchers(i) \subseteq DOMAIN rules[i].matchers
      BY DEF HostMatchers
    <3> QED
      BY <1>2, <3>1, RuleFields DEF RequiresHost
  <2>2. Min(HostMatchers(i)) \in HostMatchers(i)
    BY <2>1, MinOfSet
  <2>3. rules[i].matchers[Min(HostMatchers(i))].text \in Hosts \ {Unnamed}
    BY <2>2, HostMatcherOf
  <2>4. HostSuffixLength(i) \in Nat \ {0}
    BY <1>2, <2>3, NamesHaveSizes DEF HostSuffixLength
  <2> QED
    BY <2>4
<1> QED
  BY <1>1, <1>2

(* A name that a satisfied matcher gives is the host's, or a suffix of it. *)
LEMMA HeldNameIsPrefix ==
    ASSUME RulesTyped, NEW host \in Hosts, NEW dest, NEW i \in Eligible(host, dest),
           NEW n \in HostMatchers(i)
    PROVE  LET text == rules[i].matchers[n].text
           IN  /\ host # Unnamed /\ text \in Hosts \ {Unnamed}
               /\ i \in DOMAIN rules
               /\ \/ rules[i].matchers[n].kind = "host_exact" /\ text = host
                     /\ i \in RulesWith("host_exact", host)
                  \/ /\ rules[i].matchers[n].kind = "host_suffix"
                     /\ IsPrefix(text, host) /\ text = SubSeq(host, 1, Len(text))
                     /\ Len(text) \in 1..Len(host) /\ i \in NamedBy(host, Len(text))
<1> DEFINE m == rules[i].matchers[n]
<1>1. i \in DOMAIN rules /\ Satisfies(i, host, dest)
  BY DEF Eligible
<1>2. /\ m \in ToSet(rules[i].matchers) /\ IsHostMatcher(m)
      /\ m.text \in Hosts \ {Unnamed}
  BY <1>1, HostMatcherOf
<1>3. Holds(m, host, dest)
  BY <1>1, <1>2 DEF Satisfies
<1>4. CASE m.kind = "host_exact"
  <2>1. host = m.text
    BY <1>3, <1>4 DEF Holds
  <2>2. i \in RulesWith("host_exact", host)
    BY <1>1, <1>2, <1>4, <2>1 DEF RulesWith
  <2> QED
    BY <1>1, <1>2, <1>4, <2>1, <2>2
<1>5. CASE m.kind = "host_suffix"
  <2>1. host # Unnamed /\ IsPrefix(m.text, host)
    <3>1. host # Unnamed /\ HostMatchesSuffix(host, m.text, m.subdomains_only)
      BY <1>3, <1>5 DEF Holds
    <3>2. m.subdomains_only \in BOOLEAN
      <4>1. m \in HostMatcher
        BY <1>1, <1>2, <1>5, HostMatcherOf DEF Matcher, NetworkMatcher
      <4> QED
        BY <4>1 DEF HostMatcher
    <3> QED
      BY <1>2, <3>1, <3>2, SuffixByLabels
  <2>2. m.text \in Seq(Labels) /\ host \in Seq(Labels)
    BY <1>2, HostIsSequence
  <2>3. m.text = SubSeq(host, 1, Len(m.text)) /\ Len(m.text) <= Len(host)
    BY <2>1, <2>2, PrefixElements
  <2>4. Len(m.text) \in 1..Len(m.text) /\ Len(host) \in Nat
    BY <1>2, NamesHaveSizes, HostIsSequence
  <2>5. Len(m.text) \in 1..Len(host) /\ Len(m.text) # 0
    BY <2>3, <2>4
  <2>6. i \in RulesWith("host_suffix", SubSeq(host, 1, Len(m.text)))
    BY <1>1, <1>2, <1>5, <2>3 DEF RulesWith
  <2> QED
    BY <1>1, <1>2, <1>5, <2>1, <2>3, <2>5, <2>6 DEF NamedBy
<1> QED
  BY <1>2, <1>4, <1>5 DEF IsHostMatcher

(* Where there is room, an eligible rule with a name has a candidate as good as it. *)
LEMMA NamedRuleIsCandidate ==
    ASSUME RulesTyped, NEW host \in Hosts, NEW dest, NEW i \in Eligible(host, dest),
           RequiresHost(i), Roomy(host)
    PROVE  /\ host # Unnamed
           /\ \E k \in 1..Len(Candidates(host)) :
                /\ Satisfies(Candidates(host)[k].rule, host, dest)
                /\ rules[Candidates(host)[k].rule].priority = rules[i].priority
<1> DEFINE c == Candidates(host)
<1>1. PICK n \in HostMatchers(i) : TRUE
  BY DEF RequiresHost
<1> DEFINE text == rules[i].matchers[n].text
<1>2. /\ host # Unnamed /\ i \in DOMAIN rules
      /\ \/ i \in RulesWith("host_exact", host)
         \/ Len(text) \in 1..Len(host) /\ i \in NamedBy(host, Len(text))
  BY HeldNameIsPrefix
<1>3. Covers(host, c, Len(host))
  BY CandidatesNamed
<1>4. Satisfies(i, host, dest)
  BY DEF Eligible
<1> HIDE DEF c, text
<1>5. CASE i \in RulesWith("host_exact", host)
  <2>1. NamedBy(host, 0) # {} /\ NamedBy(host, 0) = RulesWith("host_exact", host)
    BY <1>5 DEF NamedBy
  <2>2. PICK k \in 1..Len(c) : c[k].rule \in RulesWith("host_exact", host)
    BY <1>3, <2>1 DEF Covers
  <2>3. rules[c[k].rule] = rules[i]
    BY <1>5, <2>2 DEF Roomy
  <2>4. Satisfies(c[k].rule, host, dest)
    BY <1>4, <2>3 DEF Satisfies
  <2> QED
    BY <1>2, <2>3, <2>4 DEF c
<1>6. CASE Len(text) \in 1..Len(host) /\ i \in NamedBy(host, Len(text))
  <2>1. PICK k \in 1..Len(c) : c[k].rule = i
    BY <1>2, <1>3, <1>6 DEF Covers
  <2> QED
    BY <1>2, <1>4, <2>1 DEF c
<1> QED
  BY <1>2, <1>5, <1>6

HostPart(host, dest) == IF host = Unnamed THEN NoRule ELSE BestHostRule(host, dest)

(* A part of match() that found a rule found one that is satisfied. *)
LEMMA PartsAreEligible ==
    ASSUME RulesTyped, NEW host \in Hosts, NEW dest
    PROVE  /\ HostPart(host, dest) # NoRule => HostPart(host, dest) \in Eligible(host, dest)
           /\ BestAddressRule(host, dest) # NoRule =>
                BestAddressRule(host, dest) \in Eligible(host, dest)
<1>1. ASSUME NEW c, NEW b, NEW n, BestSoFar(host, dest, c, b, n), b.rule # NoRule
      PROVE  b.rule \in Eligible(host, dest)
  <2>1. b.rule \in DOMAIN rules
    BY <1>1 DEF BestSoFar, BestSpace
  <2>2. Satisfies(b.rule, host, dest)
    BY <1>1 DEF BestSoFar
  <2> QED
    BY <2>1, <2>2 DEF Eligible
<1>2. HostPart(host, dest) # NoRule => HostPart(host, dest) \in Eligible(host, dest)
  <2>1. PICK b : /\ BestSoFar(host, dest, Candidates(host), b, Len(Candidates(host)))
                 /\ BestHostRule(host, dest) = b.rule
    BY HostRuleIsBest
  <2>2. b.rule # NoRule => b.rule \in Eligible(host, dest)
    BY <1>1, <2>1
  <2> QED
    BY <2>1, <2>2 DEF HostPart
<1>3. BestAddressRule(host, dest) # NoRule =>
        BestAddressRule(host, dest) \in Eligible(host, dest)
  <2> DEFINE b == [rule |-> BestAddressRule(host, dest), suffix |-> 0]
  <2>1. BestSoFar(host, dest, AtDepth(AddressOnlyRules, 0), b, Len(AddressOnlyRules))
    BY AddressRuleIsBest
  <2>2. b.rule = BestAddressRule(host, dest)
    OBVIOUS
  <2> HIDE DEF b
  <2> QED
    BY <1>1, <2>1, <2>2
<1> QED
  BY <1>2, <1>3

(* Where there is room, an eligible rule has a part of match() that found one of no
   lower priority.                                                            *)
LEMMA PartsOverlookNone ==
    ASSUME RulesTyped, NEW host \in Hosts, NEW dest, NEW i \in Eligible(host, dest),
           Roomy(host)
    PROVE  /\ RequiresHost(i) =>
                /\ HostPart(host, dest) # NoRule
                /\ rules[i].priority <= rules[HostPart(host, dest)].priority
           /\ ~RequiresHost(i) =>
                /\ BestAddressRule(host, dest) # NoRule
                /\ rules[i].priority <= rules[BestAddressRule(host, dest)].priority
                /\ OnePriority => BestAddressRule(host, dest) <= i
<1>1. CASE RequiresHost(i)
  <2>1. host # Unnamed
    BY <1>1, NamedRuleIsCandidate
  <2>2. PICK k \in 1..Len(Candidates(host)) :
            /\ Satisfies(Candidates(host)[k].rule, host, dest)
            /\ rules[Candidates(host)[k].rule].priority = rules[i].priority
    BY <1>1, NamedRuleIsCandidate
  <2>3. PICK b : /\ BestSoFar(host, dest, Candidates(host), b, Len(Candidates(host)))
                 /\ BestHostRule(host, dest) = b.rule
    BY HostRuleIsBest
  <2>4. b.rule # NoRule /\ rules[i].priority <= rules[b.rule].priority
    BY <2>2, <2>3 DEF BestSoFar
  <2> QED
    BY <1>1, <2>1, <2>3, <2>4 DEF HostPart
<1>2. CASE ~RequiresHost(i)
  <2> DEFINE c == AtDepth(AddressOnlyRules, 0)
             b == [rule |-> BestAddressRule(host, dest), suffix |-> 0]
             N == Len(AddressOnlyRules)
  <2>1. BestSoFar(host, dest, c, b, N)
    BY AddressRuleIsBest
  <2>2. i \in DOMAIN rules /\ Satisfies(i, host, dest)
    BY DEF Eligible
  <2>3. PICK k \in 1..N : AddressOnlyRules[k] = i
    BY <1>2, <2>2, AddressRulesListed
  <2>4. Len(c) = N /\ \A n \in 1..N : c[n].rule = AddressOnlyRules[n] /\ c[n].depth = 0
    <3>1. PICK zero \in Nat : zero = 0
      OBVIOUS
    <3>2. /\ Len(AtDepth(AddressOnlyRules, zero)) = N
          /\ \A n \in 1..N : /\ AtDepth(AddressOnlyRules, zero)[n].rule = AddressOnlyRules[n]
                             /\ AtDepth(AddressOnlyRules, zero)[n].depth = zero
      BY AddressRulesListed, AtDepthLists
    <3> QED
      BY <3>1, <3>2
  <2>5. b.rule = BestAddressRule(host, dest) /\ b.suffix = 0
    OBVIOUS
  <2> HIDE DEF b, c, N
  <2>6. b.rule # NoRule /\ rules[i].priority <= rules[b.rule].priority
    BY <2>1, <2>2, <2>3, <2>4 DEF BestSoFar
  <2>7. OnePriority => b.rule <= i
    <3> SUFFICES ASSUME OnePriority PROVE b.rule <= i
      OBVIOUS
    <3>1. Rising(c)
      BY <2>4 DEF Rising
    <3>2. c[k].depth < b.suffix \/ (c[k].depth = b.suffix /\ b.rule <= c[k].rule)
      BY <2>1, <2>2, <2>3, <2>4, <3>1 DEF BestSoFar
    <3> QED
      BY <2>3, <2>4, <2>5, <3>2
  <2> QED
    BY <1>2, <2>5, <2>6, <2>7
<1> QED
  BY <1>1, <1>2

(* The rule chosen is of one of the parts, of the higher priority of the two. *)
LEMMA MatchOfParts ==
    ASSUME RulesTyped, NEW host \in Hosts, NEW dest
    PROVE  LET h == HostPart(host, dest)
               a == BestAddressRule(host, dest)
               match == Match(host, dest)
           IN  /\ match \in {h, a}
               /\ match = NoRule => h = NoRule /\ a = NoRule
               /\ h # NoRule => rules[h].priority <= rules[match].priority
               /\ a # NoRule => rules[a].priority <= rules[match].priority
               /\ h # NoRule /\ RequiresHost(h) /\ OnePriority => match = h
<1> DEFINE h == HostPart(host, dest)
           a == BestAddressRule(host, dest)
           match == Match(host, dest)
           s == HostSuffixLength(h)
<1>1. match = IF h = NoRule THEN a ELSE Better(h, a, s, 0)
  BY DEF Match, HostPart
<1>2. /\ h # NoRule => h \in DOMAIN rules
      /\ a # NoRule => a \in DOMAIN rules
  BY PartsAreEligible DEF Eligible
<1>3. \A i \in DOMAIN rules : rules[i].priority \in Int /\ i # NoRule
  BY RuleFields DEF NoRule
<1>4. h # NoRule => s \in Nat /\ (RequiresHost(h) => s > 0)
  BY <1>2, SuffixLengthIsPositive
<1> HIDE DEF h, a, s, match
<1>5. CASE h = NoRule
  <2>1. match = a
    BY <1>1, <1>5
  <2>2. a # NoRule => rules[a].priority <= rules[match].priority
    BY <1>2, <1>3, <2>1
  <2> QED
    BY <1>5, <2>1, <2>2 DEF h, a, match
<1>6. CASE h # NoRule /\ a = NoRule
  <2>1. match = h
    BY <1>1, <1>6 DEF Better
  <2>2. rules[h].priority <= rules[match].priority
    BY <1>2, <1>3, <1>6, <2>1
  <2> QED
    BY <1>6, <2>1, <2>2 DEF h, a, match
<1>7. CASE h # NoRule /\ a # NoRule
  <2>1. h \in DOMAIN rules /\ a \in DOMAIN rules /\ s \in Nat
    BY <1>2, <1>4, <1>7
  <2>2. PICK u \in Nat, zero \in Nat : u = s /\ zero = 0
    BY <2>1
  <2>3. BetterOf(h, a, u, zero, Better(h, a, u, zero))
    BY <2>1, BetterIsOne
  <2>4. match = Better(h, a, u, zero)
    BY <1>1, <1>7, <2>2
  <2>5. BetterOf(h, a, s, 0, match)
    BY <2>2, <2>3, <2>4
  <2>6. /\ match \in {h, a} /\ match \in DOMAIN rules
        /\ rules[h].priority <= rules[match].priority
        /\ rules[a].priority <= rules[match].priority
    BY <1>7, <2>5 DEF BetterOf
  <2>7. RequiresHost(h) /\ OnePriority => match = h
    <3> SUFFICES ASSUME RequiresHost(h), OnePriority PROVE match = h
      OBVIOUS
    <3>1. rules[a].priority = rules[h].priority
      BY <2>1 DEF OnePriority
    <3>2. ~(0 > s) /\ 0 < s
      BY <1>4, <1>7, <2>1
    <3> QED
      BY <1>7, <2>5, <3>1, <3>2 DEF BetterOf
  <2> QED
    BY <1>3, <1>7, <2>6, <2>7 DEF h, a, match
<1> QED
  BY <1>5, <1>6, <1>7

LEMMA MatchIffSatisfiedHolds ==
    ASSUME RulesTyped PROVE MatchIffSatisfied
<1> SUFFICES ASSUME NEW host \in Hosts, NEW dest \in Destinations
             PROVE  IF Match(host, dest) = NoRule
                    THEN Roomy(host) => Eligible(host, dest) = {}
                    ELSE Match(host, dest) \in Eligible(host, dest)
  BY DEF MatchIffSatisfied
<1> DEFINE h == HostPart(host, dest)
           a == BestAddressRule(host, dest)
<1>1. /\ Match(host, dest) \in {h, a}
      /\ Match(host, dest) = NoRule => h = NoRule /\ a = NoRule
  BY MatchOfParts
<1>2. CASE Match(host, dest) = NoRule
  <2> SUFFICES ASSUME Roomy(host), NEW i \in Eligible(host, dest) PROVE FALSE
    BY <1>2
  <2> QED
    BY <1>1, <1>2, PartsOverlookNone
<1>3. CASE Match(host, dest) # NoRule
  BY <1>1, <1>3, PartsAreEligible
<1> QED
  BY <1>2, <1>3

LEMMA PriorityDecidesHolds ==
    ASSUME RulesTyped PROVE PriorityDecides
<1> SUFFICES ASSUME NEW host \in Hosts, NEW dest \in Destinations,
                    NEW i \in Eligible(host, dest), Roomy(host)
             PROVE  rules[i].priority <= rules[Match(host, dest)].priority
  BY DEF PriorityDecides
<1> DEFINE h == HostPart(host, dest)
           a == BestAddressRule(host, dest)
           match == Match(host, dest)
<1>1. /\ h # NoRule => h \in DOMAIN rules
      /\ a # NoRule => a \in DOMAIN rules
      /\ match \in {h, a} /\ (match = NoRule => h = NoRule /\ a = NoRule)
      /\ h # NoRule => rules[h].priority <= rules[match].priority
      /\ a # NoRule => rules[a].priority <= rules[match].priority
  BY PartsAreEligible, MatchOfParts DEF Eligible
<1>2. /\ RequiresHost(i) => h # NoRule /\ rules[i].priority <= rules[h].priority
      /\ ~RequiresHost(i) => a # NoRule /\ rules[i].priority <= rules[a].priority
  BY PartsOverlookNone
<1> HIDE DEF h, a, match
<1>3. match \in DOMAIN rules /\ i \in DOMAIN rules
  BY <1>1, <1>2 DEF Eligible
<1>4. \A j \in DOMAIN rules : rules[j].priority \in Int
  BY RuleFields
<1> QED
  BY <1>1, <1>2, <1>3, <1>4 DEF match

LEMMA Greatest ==
    ASSUME NEW S \in SUBSET Nat, S # {}, NEW bound \in Nat, \A n \in S : n <= bound
    PROVE  Max(S) \in S /\ \A n \in S : n <= Max(S)
<1> DEFINE T == {bound - n : n \in S}
<1>1. T \in SUBSET Nat /\ T # {}
  <2>1. \A n \in S : bound - n \in Nat
    OBVIOUS
  <2> QED
    BY <2>1
<1>2. PICK t \in T : \A u \in T : t <= u
  <2> HIDE DEF T
  <2> QED
    BY <1>1, Least
<1>3. PICK m \in S : t = bound - m
  BY <1>2
<1>4. ASSUME NEW n \in S PROVE n <= m
  <2>1. bound - n \in T
    OBVIOUS
  <2>2. bound - m <= bound - n
    BY <1>2, <1>3, <2>1
  <2> QED
    BY <2>2
<1>5. \E x \in S : \A y \in S : x >= y
  BY <1>4
<1>6. Max(S) \in S /\ \A y \in S : Max(S) >= y
  BY <1>5 DEF Max
<1>7. Max(S) \in Nat
  BY <1>6
<1> QED
  BY <1>6, <1>7

Sizes(i) == {NameSize(rules[i].matchers[n].text) : n \in HostMatchers(i)}

(* Without exact rules, the names of an eligible rule take up what as many labels of
   the host do, so the most it asks for is its deepest candidate's depth.     *)
LEMMA SpecificityIsDepth ==
    ASSUME RulesTyped, NEW host \in Hosts, NEW dest, NEW i \in Eligible(host, dest),
           RequiresHost(i), RulesWith("host_exact", host) = {},
           NEW d, Covers(host, d, Len(host))
    PROVE  /\ Specificity(i) \in Nat /\ Specificity(i) > 0
           /\ \E k \in 1..Len(d) : d[k].rule = i /\ d[k].depth = Specificity(i)
           /\ \A k \in 1..Len(d) : d[k].rule = i => d[k].depth <= Specificity(i)
<1> DEFINE text(n) == rules[i].matchers[n].text
           N == Len(host)
<1>1. N \in Nat /\ N \in 0..N /\ i \in DOMAIN rules
  BY HostIsSequence DEF Eligible
<1>2. ASSUME NEW n \in HostMatchers(i)
      PROVE  /\ Len(text(n)) \in 1..N /\ i \in NamedBy(host, Len(text(n)))
             /\ text(n) = SubSeq(host, 1, Len(text(n)))
             /\ NameSize(text(n)) = Consumed[host][Len(text(n))]
             /\ NameSize(text(n)) \in Nat \ {0} /\ NameSize(text(n)) <= Consumed[host][N]
  <2>1. /\ text(n) \in Hosts \ {Unnamed} /\ IsPrefix(text(n), host)
        /\ Len(text(n)) \in 1..N /\ i \in NamedBy(host, Len(text(n)))
        /\ text(n) = SubSeq(host, 1, Len(text(n)))
    BY HeldNameIsPrefix
  <2> HIDE DEF text
  <2>2. NameSize(text(n)) = Consumed[host][Len(text(n))]
    BY <2>1, SuffixSize
  <2>3. NameSize(text(n)) \in Nat \ {0}
    BY <2>1, NamesHaveSizes
  <2>4. NameSize(text(n)) <= Consumed[host][N]
    <3>1. Len(text(n)) \in 0..N /\ Consumed[host][N] \in Nat
      BY <1>1, <2>1, DepthsAreNaturals
    <3>2. CASE Len(text(n)) = N
      BY <2>2, <3>1, <3>2
    <3>3. CASE Len(text(n)) # N
      <4>1. Len(text(n)) < N
        BY <1>1, <3>1, <3>3
      <4>2. Consumed[host][Len(text(n))] < Consumed[host][N]
        BY <1>1, <3>1, <4>1, ConsumedGrows
      <4> QED
        BY <2>2, <2>3, <3>1, <4>2
    <3> QED
      BY <3>2, <3>3
  <2> QED
    BY <2>1, <2>2, <2>3, <2>4
<1>3. Specificity(i) = Max(Sizes(i)) /\ Sizes(i) # {} /\ Sizes(i) \in SUBSET Nat
  <2>1. Sizes(i) # {}
    BY DEF RequiresHost, Sizes
  <2>2. Specificity(i) = Max(Sizes(i))
    BY <2>1 DEF Specificity, Sizes
  <2>3. Sizes(i) \in SUBSET Nat
    BY <1>2 DEF Sizes
  <2> QED
    BY <2>1, <2>2, <2>3
<1>4. Max(Sizes(i)) \in Sizes(i) /\ \A x \in Sizes(i) : x <= Max(Sizes(i))
  <2>1. \A x \in Sizes(i) : x <= Consumed[host][N]
    BY <1>2 DEF Sizes
  <2>2. Consumed[host][N] \in Nat
    BY <1>1, DepthsAreNaturals
  <2> QED
    BY <1>3, <2>1, <2>2, Greatest
<1>5. PICK n \in HostMatchers(i) : Specificity(i) = NameSize(text(n))
  BY <1>3, <1>4 DEF Sizes
<1>6. \E k \in 1..Len(d) : d[k].rule = i /\ d[k].depth = Specificity(i)
  <2>1. Len(text(n)) \in 1..N /\ i \in NamedBy(host, Len(text(n)))
    BY <1>2
  <2>2. Specificity(i) = Consumed[host][Len(text(n))]
    BY <1>2, <1>5
  <2> HIDE DEF text, N
  <2>3. \E k \in 1..Len(d) : d[k].rule = i /\ d[k].depth = Consumed[host][Len(text(n))]
    BY <1>1, <2>1 DEF Covers, N
  <2> QED
    BY <2>2, <2>3
<1>7. ASSUME NEW k \in 1..Len(d), d[k].rule = i PROVE d[k].depth <= Specificity(i)
  <2>1. PICK m \in 0..N : i \in NamedBy(host, m) /\ d[k].depth = DepthOf(host, m)
    BY <1>7 DEF Covers
  <2>2. m # 0
    BY <2>1 DEF NamedBy
  <2>3. i \in RulesWith("host_suffix", SubSeq(host, 1, m)) /\ d[k].depth = Consumed[host][m]
    BY <2>1, <2>2 DEF NamedBy, DepthOf
  <2>4. PICK o \in DOMAIN rules[i].matchers :
            /\ rules[i].matchers[o].kind = "host_suffix"
            /\ rules[i].matchers[o].text = SubSeq(host, 1, m)
    BY <2>3 DEF RulesWith, ToSet
  <2>5. o \in HostMatchers(i) /\ text(o) = SubSeq(host, 1, m)
    BY <2>4 DEF HostMatchers, IsHostMatcher
  <2>6. Len(SubSeq(host, 1, m)) = m
    <3>1. host \in Seq(Labels) /\ m \in Nat /\ m <= Len(host)
      BY <1>1, HostIsSequence
    <3> QED
      BY <3>1
  <2>7. d[k].depth = NameSize(text(o))
    BY <1>2, <2>3, <2>5, <2>6
  <2> QED
    BY <1>3, <1>4, <2>5, <2>7 DEF Sizes
<1> QED
  BY <1>2, <1>5, <1>6, <1>7

LEMMA UnnamedRuleIsUnspecific ==
    ASSUME NEW i, ~RequiresHost(i) PROVE Specificity(i) = 0
  BY DEF Specificity, RequiresHost

(* Of two rules at most one beats the other, so the winner is one. *)
LEMMA WinnerIs ==
    ASSUME RulesTyped, NEW host, NEW dest, NEW w \in Eligible(host, dest),
           \A j \in Eligible(host, dest) : Specificity(j) \in Nat,
           \A j \in Eligible(host, dest) \ {w} : Beats(w, j)
    PROVE  Winner(host, dest) = w
<1> DEFINE E == Eligible(host, dest)
           Wins(i) == \A j \in E \ {i} : Beats(i, j)
<1>1. \A j \in E : j \in Nat /\ rules[j].priority \in Int
  BY RuleFields DEF Eligible
<1>2. ASSUME NEW v \in E, Wins(v) PROVE v = w
  <2> SUFFICES ASSUME v # w PROVE FALSE
    OBVIOUS
  <2>1. Beats(v, w) /\ Beats(w, v)
    BY <1>2
  <2>2. /\ rules[v].priority \in Int /\ rules[w].priority \in Int /\ v \in Nat /\ w \in Nat
        /\ Specificity(v) \in Nat /\ Specificity(w) \in Nat
    BY <1>1
  <2> QED
    BY <2>1, <2>2 DEF Beats
<1>3. w \in E /\ Wins(w)
  OBVIOUS
<1>4. Winner(host, dest) = CHOOSE i \in E : Wins(i)
  BY <1>3 DEF Winner
<1> HIDE DEF E, Wins
<1> QED
  BY <1>2, <1>3, <1>4

LEMMA LongestSuffixWinsHolds ==
    ASSUME RulesTyped PROVE LongestSuffixWins
<1> SUFFICES ASSUME OnePriority, \A host \in Hosts : RulesWith("host_exact", host) = {},
                    NEW host \in Hosts, Roomy(host), NEW dest \in Destinations
             PROVE  Match(host, dest) = Winner(host, dest)
  BY DEF LongestSuffixWins, OnePriority, MatchIsWinner, WinnerMatches
<1> DEFINE E == Eligible(host, dest)
           c == Candidates(host)
           h == HostPart(host, dest)
           a == BestAddressRule(host, dest)
<1>1. Covers(host, c, Len(host)) /\ Rising(c)
  <2>1. Covers(host, c, Len(host))
    BY CandidatesNamed
  <2>2. NamedBy(host, 0) = {}
    BY DEF NamedBy
  <2> QED
    BY <2>1, <2>2 DEF Rising, Covers
<1>2. \A j \in E : RequiresHost(j) =>
        /\ Specificity(j) \in Nat /\ Specificity(j) > 0
        /\ \E k \in 1..Len(c) : c[k].rule = j /\ c[k].depth = Specificity(j)
        /\ \A k \in 1..Len(c) : c[k].rule = j => c[k].depth <= Specificity(j)
  BY <1>1, SpecificityIsDepth
<1>3. \A j \in E : Specificity(j) \in Nat /\ (~RequiresHost(j) => Specificity(j) = 0)
  BY <1>2, UnnamedRuleIsUnspecific
<1>4. \A i, j \in E : rules[i].priority = rules[j].priority /\ i \in Nat
  BY RuleFields DEF OnePriority, Eligible
<1>5. CASE h # NoRule
  <2>1. PICK b : /\ BestSoFar(host, dest, c, b, Len(c)) /\ h = b.rule
    BY <1>5, HostRuleIsBest DEF HostPart
  <2>2. PICK k \in 1..Len(c) :
            c[k].rule = h /\ Satisfies(h, host, dest) /\ c[k].depth = b.suffix
    BY <1>1, <1>5, <2>1 DEF BestSoFar
  <2>3. h \in E /\ RequiresHost(h)
    <3>1. h \in E
      BY <1>5, PartsAreEligible
    <3>2. PICK m \in 0..Len(host) : h \in NamedBy(host, m)
      BY <1>1, <2>2 DEF Covers
    <3>3. PICK o \in DOMAIN rules[h].matchers : IsHostMatcher(rules[h].matchers[o])
      BY <3>2 DEF NamedBy, RulesWith, ToSet, IsHostMatcher
    <3> QED
      BY <3>1, <3>3 DEF RequiresHost, HostMatchers
  <2>4. ASSUME NEW j \in E, RequiresHost(j)
        PROVE  Specificity(j) < b.suffix \/ (Specificity(j) = b.suffix /\ h <= j)
    <3>1. PICK n \in 1..Len(c) : c[n].rule = j /\ c[n].depth = Specificity(j)
      BY <1>2, <2>4
    <3>2. Satisfies(j, host, dest)
      BY DEF Eligible
    <3> QED
      BY <1>1, <2>1, <3>1, <3>2 DEF BestSoFar
  <2>5. b.suffix = Specificity(h)
    <3>1. b.suffix <= Specificity(h) /\ b.suffix \in Nat
      BY <1>2, <2>1, <2>2, <2>3 DEF BestSoFar, BestSpace
    <3>2. Specificity(h) <= b.suffix
      BY <1>3, <2>3, <2>4, <3>1
    <3> QED
      BY <1>3, <2>3, <3>1, <3>2
  <2>6. ASSUME NEW j \in E \ {h} PROVE Beats(h, j)
    <3>1. rules[h].priority = rules[j].priority /\ h \in Nat /\ j \in Nat
      BY <1>4, <2>3
    <3>2. Specificity(j) \in Nat /\ Specificity(h) \in Nat /\ Specificity(h) > 0
      BY <1>2, <1>3, <2>3
    <3>3. Specificity(h) > Specificity(j) \/ (Specificity(h) = Specificity(j) /\ h < j)
      BY <1>3, <2>4, <2>5, <3>1, <3>2
    <3> QED
      BY <3>1, <3>3 DEF Beats
  <2>7. Match(host, dest) = h
    BY <1>5, <2>3, MatchOfParts
  <2> HIDE DEF h
  <2> QED
    BY <1>3, <2>3, <2>6, <2>7, WinnerIs
<1>6. CASE h = NoRule
  <2>1. \A j \in E : ~RequiresHost(j) /\ a # NoRule /\ a <= j
    BY <1>6, PartsOverlookNone
  <2>2. Match(host, dest) = a
    <3>1. Match(host, dest) = IF h = NoRule THEN a ELSE Better(h, a, HostSuffixLength(h), 0)
      BY DEF Match, HostPart
    <3> QED
      BY <1>6, <3>1
  <2>3. a # NoRule => a \in E
    BY PartsAreEligible
  <2>4. CASE E = {}
    BY <2>2, <2>3, <2>4 DEF Winner
  <2>5. CASE E # {}
    <3>1. a \in E
      BY <2>1, <2>3, <2>5
    <3>2. ASSUME NEW j \in E \ {a} PROVE Beats(a, j)
      <4>1. rules[a].priority = rules[j].priority /\ a \in Nat /\ j \in Nat
        BY <1>4, <3>1
      <4>2. Specificity(j) = 0 /\ Specificity(a) = 0
        BY <1>3, <2>1, <3>1
      <4>3. a < j
        BY <2>1, <4>1
      <4> QED
        BY <4>1, <4>2, <4>3 DEF Beats
    <3> HIDE DEF a
    <3> QED
      BY <1>3, <2>2, <3>1, <3>2, WinnerIs
  <2> QED
    BY <2>4, <2>5
<1> QED
  BY <1>5, <1>6
-----------------------------------------------------------------------------
(* What the loader makes of the files *)

Entry == [text : Hosts \ {Unnamed}, subdomains_only : BOOLEAN]
Result ==
    {r \in [rules : Seq(Rule), excludes : SUBSET Entry, problems : Nat, ok : BOOLEAN] :
        r.ok <=> r.problems = 0}
SourceLine ==
    [kind : {"include"}, path : SourcePaths]
        \cup [kind : {"rule"}, tokens : Seq(Token) \ {<<>>}]
        \cup [kind : {"entry"}, text : Hosts \ {Unnamed}, subdomains_only : BOOLEAN]
        \cup [kind : {"junk"}]
LineSpace == [ok : BOOLEAN, acts : BOOLEAN, priority : Int, matchers : Seq(Matcher)]

LEMMA NothingIsResult == Nothing \in Result /\ Problem \in Result
<1>1. Nothing = [rules |-> <<>>, excludes |-> {}, problems |-> 0, ok |-> TRUE]
  BY DEF Nothing
<1>2. /\ Problem.rules = <<>> /\ Problem.excludes = {} /\ Problem.problems = 1
      /\ Problem.ok = FALSE
  BY <1>1 DEF Problem
<1>3. <<>> \in Seq(Rule)
  BY EmptySeq
<1>4. Nothing \in Result
  BY <1>1, <1>3 DEF Result
<1>5. Problem \in [rules : Seq(Rule), excludes : SUBSET Entry, problems : Nat, ok : BOOLEAN]
  BY <1>4 DEF Problem, Result
<1> QED
  BY <1>2, <1>4, <1>5 DEF Result

(* One field of Nothing replaced: a rule, or an excluded name. *)
LEMMA NothingWith ==
    /\ \A s \in Seq(Rule) : [Nothing EXCEPT !.rules = s] \in Result
    /\ \A e \in SUBSET Entry : [Nothing EXCEPT !.excludes = e] \in Result
<1>1. /\ Nothing \in [rules : Seq(Rule), excludes : SUBSET Entry, problems : Nat, ok : BOOLEAN]
      /\ Nothing.problems = 0 /\ Nothing.ok = TRUE
  BY NothingIsResult DEF Result, Nothing
<1>2. ASSUME NEW s \in Seq(Rule) PROVE [Nothing EXCEPT !.rules = s] \in Result
  <2> DEFINE r == [Nothing EXCEPT !.rules = s]
  <2>1. r \in [rules : Seq(Rule), excludes : SUBSET Entry, problems : Nat, ok : BOOLEAN]
    BY <1>1
  <2>2. r.problems = 0 /\ r.ok = TRUE
    BY <1>1
  <2> HIDE DEF r
  <2>3. r \in Result
    BY <2>1, <2>2 DEF Result
  <2> QED
    BY <2>3 DEF r
<1>3. ASSUME NEW e \in SUBSET Entry PROVE [Nothing EXCEPT !.excludes = e] \in Result
  <2> DEFINE r == [Nothing EXCEPT !.excludes = e]
  <2>1. r \in [rules : Seq(Rule), excludes : SUBSET Entry, problems : Nat, ok : BOOLEAN]
    BY <1>1
  <2>2. r.problems = 0 /\ r.ok = TRUE
    BY <1>1
  <2> HIDE DEF r
  <2>3. r \in Result
    BY <2>1, <2>2 DEF Result
  <2> QED
    BY <2>3 DEF r
<1> QED
  BY <1>2, <1>3

LEMMA FollowedIsResult ==
    ASSUME NEW a \in Result, NEW b \in Result PROVE Followed(a, b) \in Result
<1>1. /\ a.rules \in Seq(Rule) /\ b.rules \in Seq(Rule)
      /\ a.excludes \in SUBSET Entry /\ b.excludes \in SUBSET Entry
      /\ a.problems \in Nat /\ b.problems \in Nat
      /\ a.ok \in BOOLEAN /\ b.ok \in BOOLEAN
  BY DEF Result
<1>2. (a.ok <=> a.problems = 0) /\ (b.ok <=> b.problems = 0)
  BY DEF Result
<1>3. a.rules \o b.rules \in Seq(Rule)
  BY <1>1, ConcatProperties
<1>4. a.problems + b.problems \in Nat
      /\ (a.problems + b.problems = 0 <=> a.problems = 0 /\ b.problems = 0)
  BY <1>1
<1>5. (a.ok /\ b.ok) \in BOOLEAN
  OBVIOUS
<1>6. Followed(a, b) \in
        [rules : Seq(Rule), excludes : SUBSET Entry, problems : Nat, ok : BOOLEAN]
  <2>1. a.excludes \cup b.excludes \in SUBSET Entry
    BY <1>1
  <2> QED
    BY <1>3, <1>4, <1>5, <2>1 DEF Followed
<1>7. Followed(a, b).ok <=> Followed(a, b).problems = 0
  <2>1. Followed(a, b).ok = (a.ok /\ b.ok)
    BY DEF Followed
  <2>2. Followed(a, b).problems = a.problems + b.problems
    BY DEF Followed
  <2> QED
    BY <1>2, <1>4, <2>1, <2>2
<1> QED
  BY <1>6, <1>7 DEF Result

LEMMA TakeIsLine ==
    ASSUME NEW line \in LineSpace, NEW token \in Token
    PROVE  Take(line, token) \in LineSpace
<1>1. \/ Take(line, token) = [line EXCEPT !.ok = FALSE]
      \/ /\ token.kind = "network" \/ token.kind = "host"
         /\ Take(line, token) = [line EXCEPT !.matchers = Append(@, token.matcher)]
      \/ Take(line, token) = [line EXCEPT !.acts = TRUE]
      \/ /\ token.kind = "priority"
         /\ Take(line, token) = [line EXCEPT !.priority = token.priority]
      \/ Take(line, token) = line
  BY DEF Take
<1>2. token.kind = "network" \/ token.kind = "host" => token.matcher \in Matcher
  BY DEF Token, Matcher
<1>3. token.kind = "priority" => token.priority \in Int
  BY DEF Token
<1>4. token.matcher \in Matcher => Append(line.matchers, token.matcher) \in Seq(Matcher)
  <2>1. line.matchers \in Seq(Matcher)
    BY DEF LineSpace
  <2> QED
    BY <2>1, AppendProperties
<1>5. CASE Take(line, token) = [line EXCEPT !.ok = FALSE]
  BY <1>5 DEF LineSpace
<1>6. CASE /\ token.kind = "network" \/ token.kind = "host"
           /\ Take(line, token) = [line EXCEPT !.matchers = Append(@, token.matcher)]
  BY <1>2, <1>4, <1>6 DEF LineSpace
<1>7. CASE Take(line, token) = [line EXCEPT !.acts = TRUE]
  BY <1>7 DEF LineSpace
<1>8. CASE /\ token.kind = "priority"
           /\ Take(line, token) = [line EXCEPT !.priority = token.priority]
  BY <1>3, <1>8 DEF LineSpace
<1>9. CASE Take(line, token) = line
  BY <1>9
<1> QED
  BY <1>1, <1>5, <1>6, <1>7, <1>8, <1>9

IsTaken(tokens, upto) ==
    upto = [n \in 0..Len(tokens) |->
                IF n = 0 THEN Blank ELSE Take(upto[n - 1], tokens[n])]

Line(line) ==
    [Nothing EXCEPT !.rules = <<[priority |-> line.priority, matchers |-> line.matchers]>>]

LEMMA TokensTaken ==
    ASSUME NEW tokens \in Seq(Token)
    PROVE  \E upto :
            /\ upto[0] = Blank /\ \A n \in 0..Len(tokens) : upto[n] \in LineSpace
            /\ \A n \in 1..Len(tokens) : upto[n] = Take(upto[n - 1], tokens[n])
            /\ ParseRuleLine(tokens) = IF Accepted(upto[Len(tokens)])
                                       THEN Line(upto[Len(tokens)]) ELSE Problem
<1> DEFINE N == Len(tokens)
           X == LineSpace
           After(n) == [x \in X |-> Take(x, tokens[n])]
           step == [n \in 1..N |-> After(n)]
           upto == CHOOSE u : IsTaken(tokens, u)
           line == upto[N]
<1>1. N \in Nat /\ \A n \in 1..N : tokens[n] \in Token
  BY ElementOfSeq
<1> HIDE DEF N
<1>2. step \in [1..N -> [X -> X]]
  <2>1. ASSUME NEW n \in 1..N PROVE After(n) \in [X -> X]
    <3>1. \A x \in X : Take(x, tokens[n]) \in X
      BY <1>1, TakeIsLine
    <3> HIDE DEF X
    <3> QED
      BY <3>1
  <2> HIDE DEF After
  <2> QED
    BY <2>1
<1>3. Blank \in X
  BY EmptySeq DEF Blank, LineSpace
<1>4. PICK run \in [0..N -> X] : Runs(N, Blank, step, run)
  <2> HIDE DEF step, X
  <2> QED
    BY <1>1, <1>2, <1>3, LoopRuns
<1>5. ASSUME NEW n \in 1..N PROVE run[n] = Take(run[n - 1], tokens[n])
  <2>1. run[n] = step[n][run[n - 1]]
    BY <1>4 DEF Runs
  <2>2. n - 1 \in 0..N
    BY <1>1, StepBefore
  <2>3. run[n - 1] \in X
    BY <1>4, <2>2
  <2> HIDE DEF X
  <2> QED
    BY <2>1, <2>3
<1>6. IsTaken(tokens, run)
  <2>1. run[0] = Blank
    BY <1>4 DEF Runs
  <2>2. \A n \in 0..N : n # 0 => n \in 1..N
    BY <1>1
  <2>3. run = [n \in 0..N |-> run[n]]
    BY <1>4
  <2> QED
    BY <2>1, <2>2, <2>3, <1>5 DEF IsTaken, N
<1>7. IsTaken(tokens, upto)
  BY <1>6
<1>8. ParseRuleLine(tokens) = IF Accepted(line) THEN Line(line) ELSE Problem
  BY DEF ParseRuleLine, IsTaken, Line, N
<1> HIDE DEF upto
<1>9. upto[0] = Blank /\ \A n \in 1..N : upto[n] = Take(upto[n - 1], tokens[n])
  <2>1. 0 \in 0..N /\ \A n \in 1..N : n \in 0..N /\ n # 0
    BY <1>1
  <2>2. upto = [n \in 0..N |-> IF n = 0 THEN Blank ELSE Take(upto[n - 1], tokens[n])]
    BY <1>7 DEF IsTaken, N
  <2> QED
    BY <2>1, <2>2
<1> DEFINE Kept == {n \in 0..N : upto[n] \in X}
<1>10. 0 \in Kept
  BY <1>1, <1>3, <1>9
<1>11. ASSUME NEW n \in 1..N, n - 1 \in Kept PROVE n \in Kept
  <2>1. upto[n - 1] \in X /\ n \in 0..N
    BY <1>1, <1>11
  <2>2. Take(upto[n - 1], tokens[n]) \in X
    BY <1>1, <2>1, TakeIsLine
  <2> QED
    BY <1>9, <2>1, <2>2
<1>12. \A n \in 0..N : n \in Kept
  <2>1. Kept \in SUBSET (0..N)
    OBVIOUS
  <2> HIDE DEF Kept
  <2> QED
    BY <1>1, <1>10, <1>11, <2>1, LoopKeeps
<1> QED
  BY <1>8, <1>9, <1>12 DEF N

LEMMA RuleLineIsResult ==
    ASSUME NEW tokens \in Seq(Token) PROVE ParseRuleLine(tokens) \in Result
<1>1. PICK line \in LineSpace :
          ParseRuleLine(tokens) = IF Accepted(line) THEN Line(line) ELSE Problem
  <2>1. Len(tokens) \in 0..Len(tokens)
    OBVIOUS
  <2> QED
    BY <2>1, TokensTaken
<1> DEFINE rule == [priority |-> line.priority, matchers |-> line.matchers]
<1>2. rule \in Rule
  BY DEF LineSpace, Rule
<1>3. <<rule>> \in Seq(Rule)
  <2> HIDE DEF rule
  <2> QED
    BY <1>2
<1>4. Line(line) \in Result
  <2>1. Line(line) = [Nothing EXCEPT !.rules = <<rule>>]
    BY DEF Line
  <2> HIDE DEF rule
  <2> QED
    BY <1>3, <2>1, NothingWith
<1> QED
  BY <1>1, <1>4, NothingIsResult

LineRead(line, included) ==
    IF IsInclude(line) THEN included[line.path]
    ELSE IF line.kind = "rule" THEN ParseRuleLine(line.tokens)
    ELSE ReadExcludeLine(line)

LEMMA LineIsResult ==
    ASSUME NEW line \in SourceLine, NEW included \in [SourcePaths -> Result]
    PROVE  LineRead(line, included) \in Result
<1>1. CASE IsInclude(line)
  <2>1. LineRead(line, included) = included[line.path]
    BY <1>1 DEF LineRead
  <2>2. line.path \in SourcePaths
    BY <1>1 DEF IsInclude, SourceLine
  <2> QED
    BY <2>1, <2>2
<1>2. CASE ~IsInclude(line) /\ line.kind = "rule"
  <2>1. LineRead(line, included) = ParseRuleLine(line.tokens)
    BY <1>2 DEF LineRead
  <2>2. line.tokens \in Seq(Token)
    BY <1>2 DEF SourceLine
  <2> QED
    BY <2>1, <2>2, RuleLineIsResult
<1>3. CASE ~IsInclude(line) /\ line.kind # "rule"
  <2>1. LineRead(line, included) = ReadExcludeLine(line)
    BY <1>3 DEF LineRead
  <2> DEFINE entry == [text |-> line.text, subdomains_only |-> line.subdomains_only]
  <2>2. \/ ReadExcludeLine(line) = Nothing
        \/ /\ line.kind = "entry"
           /\ ReadExcludeLine(line) = [Nothing EXCEPT !.excludes = {entry}]
    BY DEF ReadExcludeLine
  <2>3. line.kind = "entry" => entry \in Entry
    BY DEF SourceLine, Entry
  <2> HIDE DEF entry
  <2>4. line.kind = "entry" => [Nothing EXCEPT !.excludes = {entry}] \in Result
    BY <2>3, NothingWith
  <2> QED
    BY <2>1, <2>2, <2>4, NothingIsResult
<1> QED
  BY <1>1, <1>2, <1>3

IsText(lines, included, upto) ==
    upto = [n \in 0..Len(lines) |->
                IF n = 0 THEN Nothing
                ELSE Followed(upto[n - 1], LineRead(lines[n], included))]

LEMMA LinesRead ==
    ASSUME NEW lines \in Seq(SourceLine), NEW included \in [SourcePaths -> Result]
    PROVE  \E upto :
            /\ upto[0] = Nothing /\ \A n \in 0..Len(lines) : upto[n] \in Result
            /\ \A n \in 1..Len(lines) :
                    upto[n] = Followed(upto[n - 1], LineRead(lines[n], included))
            /\ Text(lines, included) = upto[Len(lines)]
<1> DEFINE N == Len(lines)
           X == Result
           read(n) == LineRead(lines[n], included)
           After(n) == [x \in X |-> Followed(x, read(n))]
           step == [n \in 1..N |-> After(n)]
           upto == CHOOSE u : IsText(lines, included, u)
<1>1. N \in Nat /\ \A n \in 1..N : lines[n] \in SourceLine
  BY ElementOfSeq
<1>2. Text(lines, included) = upto[N]
  BY DEF Text, IsText, LineRead
<1>3. \A n \in 1..N : read(n) \in X
  BY <1>1, LineIsResult
<1> HIDE DEF N, read
<1>4. step \in [1..N -> [X -> X]]
  <2>1. ASSUME NEW n \in 1..N PROVE After(n) \in [X -> X]
    <3>1. \A x \in X : Followed(x, read(n)) \in X
      BY <1>3, FollowedIsResult
    <3> HIDE DEF X
    <3> QED
      BY <3>1
  <2> HIDE DEF After
  <2> QED
    BY <2>1
<1>5. Nothing \in X
  BY NothingIsResult
<1>6. PICK run \in [0..N -> X] : Runs(N, Nothing, step, run)
  <2> HIDE DEF step, X
  <2> QED
    BY <1>1, <1>4, <1>5, LoopRuns
<1>7. ASSUME NEW n \in 1..N PROVE run[n] = Followed(run[n - 1], read(n))
  <2>1. run[n] = step[n][run[n - 1]]
    BY <1>6 DEF Runs
  <2>2. n - 1 \in 0..N
    BY <1>1, StepBefore
  <2>3. run[n - 1] \in X
    BY <1>6, <2>2
  <2> HIDE DEF X
  <2> QED
    BY <2>1, <2>3
<1>8. IsText(lines, included, run)
  <2>1. run[0] = Nothing
    BY <1>6 DEF Runs
  <2>2. \A n \in 0..N : n # 0 => n \in 1..N
    BY <1>1
  <2>3. run = [n \in 0..N |-> run[n]]
    BY <1>6
  <2>4. run = [n \in 0..N |-> IF n = 0 THEN Nothing ELSE Followed(run[n - 1], read(n))]
    BY <2>1, <2>2, <2>3, <1>7
  <2> QED
    BY <2>4 DEF IsText, N, read
<1>9. IsText(lines, included, upto)
  BY <1>8
<1> HIDE DEF upto
<1>10. upto[0] = Nothing /\ \A n \in 1..N : upto[n] = Followed(upto[n - 1], read(n))
  <2>1. 0 \in 0..N /\ \A n \in 1..N : n \in 0..N /\ n # 0
    BY <1>1
  <2>2. upto = [n \in 0..N |-> IF n = 0 THEN Nothing ELSE Followed(upto[n - 1], read(n))]
    BY <1>9 DEF IsText, N, read
  <2> QED
    BY <2>1, <2>2
<1> DEFINE Kept == {n \in 0..N : upto[n] \in X}
<1>11. 0 \in Kept
  BY <1>1, <1>5, <1>10
<1>12. ASSUME NEW n \in 1..N, n - 1 \in Kept PROVE n \in Kept
  <2>1. upto[n - 1] \in X /\ n \in 0..N
    BY <1>1, <1>12
  <2>2. Followed(upto[n - 1], read(n)) \in X
    BY <1>3, <2>1, FollowedIsResult
  <2> QED
    BY <1>10, <2>1, <2>2
<1>13. \A n \in 0..N : n \in Kept
  <2>1. Kept \in SUBSET (0..N)
    OBVIOUS
  <2> HIDE DEF Kept
  <2> QED
    BY <1>1, <1>11, <1>12, <2>1, LoopKeeps
<1> QED
  BY <1>2, <1>10, <1>13 DEF N, read

LEMMA TextIsResult ==
    ASSUME NEW lines \in Seq(SourceLine), NEW included \in [SourcePaths -> Result]
    PROVE  Text(lines, included) \in Result
<1>1. Len(lines) \in 0..Len(lines)
  OBVIOUS
<1> QED
  BY <1>1, LinesRead

LinesTyped == \A source \in Sources : LinesOf(source) \in Seq(SourceLine)

LEMMA LinesAreTyped == ASSUME disk \in [Files -> Seq(FileLine)] PROVE LinesTyped
<1> SUFFICES ASSUME NEW source \in Sources PROVE LinesOf(source) \in Seq(SourceLine)
  BY DEF LinesTyped
<1> DEFINE lines == disk[source.path]
           list == source.list
<1>1. source.path \in Files /\ list \in FileKinds
  BY DEF Sources
<1>2. lines \in Seq(FileLine)
  BY <1>1
<1>3. DOMAIN lines = 1..Len(lines) /\ \A n \in 1..Len(lines) : lines[n] \in FileLine
  BY <1>2, ElementOfSeq
<1>4. ASSUME NEW n \in 1..Len(lines) PROVE Taken(list, lines[n][list]) \in SourceLine
  <2> DEFINE line == lines[n][list]
  <2>1. line \in RuleLine \cup ExcludeLine
    BY <1>1, <1>3 DEF FileLine, FileKinds
  <2> HIDE DEF line, list
  <2>2. CASE IsInclude(line)
    <3>1. line.kind = "include" /\ line.path \in FilePaths
          /\ line \in [kind : {"include"}, path : FilePaths]
      BY <2>1, <2>2 DEF IsInclude, RuleLine, ExcludeLine
    <3> DEFINE next == [list |-> list, path |-> line.path]
    <3>2. next \in SourcePaths
      BY <1>1, <3>1 DEF SourcePaths
    <3>3. Taken(list, line) = [line EXCEPT !.path = next]
      BY <2>2 DEF Taken
    <3> HIDE DEF next
    <3>4. [line EXCEPT !.path = next] = [kind |-> "include", path |-> next]
      BY <3>1
    <3>5. Taken(list, line) \in SourceLine
      BY <3>2, <3>3, <3>4 DEF SourceLine
    <3> QED
      BY <3>5 DEF line
  <2>3. CASE ~IsInclude(line)
    <3>1. Taken(list, line) = line
      BY <2>3 DEF Taken
    <3>2. line \in SourceLine
      BY <2>1, <2>3 DEF IsInclude, RuleLine, ExcludeLine, SourceLine
    <3> QED
      BY <3>1, <3>2 DEF line
  <2> QED
    BY <2>2, <2>3
<1>5. LinesOf(source) = [n \in 1..Len(lines) |-> Taken(list, lines[n][list])]
  BY <1>3 DEF LinesOf
<1>6. Len(lines) \in Nat
  BY <1>2
<1> HIDE DEF lines, list
<1>7. [n \in 1..Len(lines) |-> Taken(list, lines[n][list])] \in [1..Len(lines) -> SourceLine]
  BY <1>4
<1> QED
  BY <1>5, <1>6, <1>7

LEMMA LinesStay == ASSUME LinesTyped, UNCHANGED disk PROVE LinesTyped'
  BY DEF LinesTyped, LinesOf, Taken, IsInclude, Sources, FileKinds, SourceLine, SourcePaths,
         FilePaths, Token, HostMatcher, NetworkMatcher, Unnamed

(* What a path comes to if its file's includes come to those results. *)
Included(included) ==
    [path \in SourcePaths |->
        IF path \notin Sources THEN Problem ELSE Text(LinesOf(path), included)]

IsLoaded(loaded) ==
    loaded = [left \in 0..MaxIncludeDepth + 1 |->
                [path \in SourcePaths |->
                    IF path \notin Sources \/ left = 0 THEN Problem
                    ELSE Text(LinesOf(path), loaded[left - 1])]]

LEMMA LoadedIsResult ==
    ASSUME LinesTyped
    PROVE  /\ \A left \in 0..MaxIncludeDepth + 1 : Loaded[left] \in [SourcePaths -> Result]
           /\ Loaded[0] = [path \in SourcePaths |-> Problem]
           /\ \A left \in 1..MaxIncludeDepth + 1 : Loaded[left] = Included(Loaded[left - 1])
<1> DEFINE N == MaxIncludeDepth + 1
           X == [SourcePaths -> Result]
           first == [path \in SourcePaths |-> Problem]
           After(n) == [x \in X |-> Included(x)]
           step == [n \in 1..N |-> After(n)]
<1>1. N \in Nat
  BY DepthAssumption DEF DepthAssumption
<1>2. \A x \in X : Included(x) \in X
  <2> SUFFICES ASSUME NEW x \in X, NEW path \in SourcePaths, path \in Sources
               PROVE  Text(LinesOf(path), x) \in Result
    BY NothingIsResult DEF Included
  <2>1. LinesOf(path) \in Seq(SourceLine)
    BY DEF LinesTyped
  <2> QED
    BY <2>1, TextIsResult
<1>3. first \in X
  BY NothingIsResult
<1> HIDE DEF N
<1>4. step \in [1..N -> [X -> X]]
  <2>1. ASSUME NEW n \in 1..N PROVE After(n) \in [X -> X]
    <3> HIDE DEF X
    <3> QED
      BY <1>2
  <2> HIDE DEF After
  <2> QED
    BY <2>1
<1>5. PICK run \in [0..N -> X] : Runs(N, first, step, run)
  <2> HIDE DEF step, X, first
  <2> QED
    BY <1>1, <1>3, <1>4, LoopRuns
<1>6. ASSUME NEW n \in 1..N PROVE run[n] = Included(run[n - 1])
  <2>1. run[n] = step[n][run[n - 1]]
    BY <1>5 DEF Runs
  <2>2. n - 1 \in 0..N
    BY <1>1, StepBefore
  <2>3. run[n - 1] \in X
    BY <1>5, <2>2
  <2> HIDE DEF X
  <2> QED
    BY <2>1, <2>3
<1>7. IsLoaded(run)
  <2>1. \A n \in 0..N : n # 0 => n \in 1..N
    BY <1>1
  <2>2. ASSUME NEW n \in 0..N
        PROVE  run[n] = [path \in SourcePaths |->
                            IF path \notin Sources \/ n = 0 THEN Problem
                            ELSE Text(LinesOf(path), run[n - 1])]
    <3>1. CASE n = 0
      BY <1>5, <3>1 DEF Runs
    <3>2. CASE n # 0
      BY <1>6, <2>1, <3>2 DEF Included
    <3> QED
      BY <3>1, <3>2
  <2>3. run = [n \in 0..N |-> run[n]]
    BY <1>5
  <2> QED
    BY <2>2, <2>3 DEF IsLoaded, N
<1>8. Loaded = CHOOSE loaded : IsLoaded(loaded)
  BY DEF Loaded, IsLoaded
<1>9. IsLoaded(Loaded)
  BY <1>7, <1>8
<1> DEFINE loaded == Loaded
<1> HIDE DEF loaded
<1>10. loaded[0] = first /\ \A n \in 1..N : loaded[n] = Included(loaded[n - 1])
  <2>1. 0 \in 0..N /\ \A n \in 1..N : n \in 0..N /\ n # 0
    BY <1>1
  <2>2. loaded = [left \in 0..N |->
                    [path \in SourcePaths |->
                        IF path \notin Sources \/ left = 0 THEN Problem
                        ELSE Text(LinesOf(path), loaded[left - 1])]]
    BY <1>9 DEF IsLoaded, N, loaded
  <2>3. \A left \in 0..N :
            loaded[left] = [path \in SourcePaths |->
                                IF path \notin Sources \/ left = 0 THEN Problem
                                ELSE Text(LinesOf(path), loaded[left - 1])]
    BY <2>2
  <2>4. loaded[0] = first
    BY <2>1, <2>3
  <2>5. \A n \in 1..N : loaded[n] = Included(loaded[n - 1])
    BY <2>1, <2>3 DEF Included
  <2> QED
    BY <2>4, <2>5
<1> DEFINE Kept == {n \in 0..N : loaded[n] \in X}
<1>11. 0 \in Kept
  BY <1>1, <1>3, <1>10
<1>12. ASSUME NEW n \in 1..N, n - 1 \in Kept PROVE n \in Kept
  <2>1. loaded[n - 1] \in X /\ n \in 0..N
    BY <1>1, <1>12
  <2>2. Included(loaded[n - 1]) \in X
    BY <1>2, <2>1
  <2> QED
    BY <1>10, <2>1, <2>2
<1>13. \A n \in 0..N : n \in Kept
  <2>1. Kept \in SUBSET (0..N)
    OBVIOUS
  <2> HIDE DEF Kept
  <2> QED
    BY <1>1, <1>11, <1>12, <2>1, LoopKeeps
<1> QED
  BY <1>10, <1>13 DEF loaded, N
-----------------------------------------------------------------------------
(* Which loads fail *)

(* A token is taken unless it is illegal, or not what may stand before the action, or
   behind it.                                                                 *)
LEMMA TakenToken ==
    ASSUME NEW line \in LineSpace, NEW token \in Token
    PROVE  LET taken == Take(line, token)
           IN  /\ taken.ok <=>
                    /\ line.ok /\ token.valid
                    /\ IF line.acts THEN token.kind \in {"network", "priority", "option"}
                       ELSE token.kind \in {"network", "host", "action"}
               /\ taken.ok =>
                    /\ taken.acts <=> line.acts \/ token.kind = "action"
                    /\ taken.matchers # <<>> <=> line.matchers # <<>> \/ Matching(token)
<1> DEFINE taken == Take(line, token)
           added == Append(line.matchers, token.matcher)
<1>1. line.matchers \in Seq(Matcher)
  BY DEF LineSpace
<1>2. token.kind \in {"network", "host"} => added # <<>>
  <2> SUFFICES ASSUME token.kind \in {"network", "host"} PROVE added # <<>>
    OBVIOUS
  <2>1. token.matcher \in Matcher
    BY DEF Token, Matcher
  <2>2. added \in Seq(Matcher) /\ Len(added) = Len(line.matchers) + 1
    BY <1>1, <2>1, AppendProperties
  <2> QED
    BY <1>1, <2>2
<1>3. token.kind \in {"network", "host", "action", "priority", "option"}
  BY DEF Token
<1>4. Matching(token) <=> token.kind \in {"network", "host"}
  BY DEF Matching
<1>5. CASE ~line.ok \/ ~token.valid
  <2>1. taken.ok = FALSE
    BY <1>5 DEF Take, LineSpace
  <2> QED
    BY <1>5, <2>1
<1>6. CASE line.ok /\ token.valid /\ token.kind = "network"
  <2>1. taken = [line EXCEPT !.matchers = added]
    BY <1>6 DEF Take
  <2>2. taken.ok = line.ok /\ taken.acts = line.acts /\ taken.matchers = added
    BY <2>1 DEF LineSpace
  <2> QED
    BY <1>2, <1>4, <1>6, <2>2
<1>7. CASE line.ok /\ token.valid /\ token.kind = "host"
  <2>1. CASE line.acts
    <3>1. taken.ok = FALSE
      BY <1>7, <2>1 DEF Take, LineSpace
    <3> QED
      BY <1>7, <2>1, <3>1
  <2>2. CASE ~line.acts
    <3>1. taken = [line EXCEPT !.matchers = added]
      BY <1>7, <2>2 DEF Take
    <3>2. taken.ok = line.ok /\ taken.acts = line.acts /\ taken.matchers = added
      BY <3>1 DEF LineSpace
    <3> QED
      BY <1>2, <1>4, <1>7, <2>2, <3>2
  <2> QED
    BY <2>1, <2>2
<1>8. CASE line.ok /\ token.valid /\ token.kind = "action"
  <2>1. CASE line.acts
    <3>1. taken.ok = FALSE
      BY <1>8, <2>1 DEF Take, LineSpace
    <3> QED
      BY <1>8, <2>1, <3>1
  <2>2. CASE ~line.acts
    <3>1. taken = [line EXCEPT !.acts = TRUE]
      BY <1>8, <2>2 DEF Take
    <3>2. taken.ok = line.ok /\ taken.acts = TRUE /\ taken.matchers = line.matchers
      BY <3>1 DEF LineSpace
    <3> QED
      BY <1>4, <1>8, <2>2, <3>2
  <2> QED
    BY <2>1, <2>2
<1>9. CASE line.ok /\ token.valid /\ token.kind = "priority"
  <2>1. CASE ~line.acts
    <3>1. taken.ok = FALSE
      BY <1>9, <2>1 DEF Take, LineSpace
    <3> QED
      BY <1>9, <2>1, <3>1
  <2>2. CASE line.acts
    <3>1. taken = [line EXCEPT !.priority = token.priority]
      BY <1>9, <2>2 DEF Take
    <3>2. taken.ok = line.ok /\ taken.acts = line.acts /\ taken.matchers = line.matchers
      BY <3>1 DEF LineSpace
    <3> QED
      BY <1>4, <1>9, <2>2, <3>2
  <2> QED
    BY <2>1, <2>2
<1>10. CASE line.ok /\ token.valid /\ token.kind = "option"
  <2>1. CASE ~line.acts
    <3>1. taken.ok = FALSE
      BY <1>10, <2>1 DEF Take, LineSpace
    <3> QED
      BY <1>10, <2>1, <3>1
  <2>2. CASE line.acts
    <3>1. taken = line
      BY <1>10, <2>2 DEF Take
    <3> QED
      BY <1>4, <1>10, <2>2, <3>1
  <2> QED
    BY <2>1, <2>2
<1> QED
  BY <1>3, <1>5, <1>6, <1>7, <1>8, <1>9, <1>10

Acting(tokens, i) == tokens[i].kind = "action"
ActsBefore(tokens, n) == \E i \in 1..n - 1 : Acting(tokens, i)
Fits(tokens, i) ==
    /\ tokens[i].valid
    /\ IF ActsBefore(tokens, i) THEN tokens[i].kind \in {"network", "priority", "option"}
       ELSE tokens[i].kind \in {"network", "host", "action"}

(* What is left after n tokens, if all of them fit. *)
AllFit(tokens, n, line) ==
    /\ line.ok <=> \A i \in 1..n : Fits(tokens, i)
    /\ line.ok =>
        /\ line.acts <=> \E i \in 1..n : Acting(tokens, i)
        /\ line.matchers # <<>> <=> \E i \in 1..n : Matching(tokens[i])

LEMMA FitTokens ==
    ASSUME NEW tokens \in Seq(Token)
    PROVE  \E line \in LineSpace :
            /\ AllFit(tokens, Len(tokens), line)
            /\ ParseRuleLine(tokens) = IF Accepted(line) THEN Line(line) ELSE Problem
<1> DEFINE N == Len(tokens)
<1>1. N \in Nat /\ \A n \in 1..N : tokens[n] \in Token
  BY ElementOfSeq
<1>2. PICK upto :
        /\ upto[0] = Blank /\ \A n \in 0..N : upto[n] \in LineSpace
        /\ \A n \in 1..N : upto[n] = Take(upto[n - 1], tokens[n])
        /\ ParseRuleLine(tokens) = IF Accepted(upto[N]) THEN Line(upto[N]) ELSE Problem
  BY TokensTaken
<1> DEFINE Kept == {n \in 0..N : AllFit(tokens, n, upto[n])}
<1> HIDE DEF N
<1>3. 0 \in Kept
  <2>1. upto[0].ok /\ ~upto[0].acts /\ upto[0].matchers = <<>>
    BY <1>2 DEF Blank
  <2>2. \A i \in 1..0 : FALSE
    OBVIOUS
  <2>3. AllFit(tokens, 0, upto[0])
    BY <2>1, <2>2 DEF AllFit
  <2> QED
    BY <1>1, <2>3
<1>4. ASSUME NEW n \in 1..N, n - 1 \in Kept PROVE n \in Kept
  <2> DEFINE line == upto[n - 1]
             taken == upto[n]
  <2>1. n \in 0..N /\ n - 1 \in 0..N
    BY <1>1, StepBefore
  <2>2. line \in LineSpace /\ taken = Take(line, tokens[n]) /\ tokens[n] \in Token
    BY <1>1, <1>2, <2>1
  <2>3. AllFit(tokens, n - 1, line)
    BY <1>4
  <2>4. \A i \in 1..n : i \in 1..n - 1 \/ i = n
    BY <1>1
  <2>5. \A i \in 1..n - 1 : i \in 1..n
    BY <1>1
  <2>6. n \in 1..n
    BY <1>1
  <2> HIDE DEF line, taken
  <2>7. /\ taken.ok <=>
            /\ line.ok /\ tokens[n].valid
            /\ IF line.acts THEN tokens[n].kind \in {"network", "priority", "option"}
               ELSE tokens[n].kind \in {"network", "host", "action"}
        /\ taken.ok =>
            /\ taken.acts <=> line.acts \/ tokens[n].kind = "action"
            /\ taken.matchers # <<>> <=> line.matchers # <<>> \/ Matching(tokens[n])
    BY <2>2, TakenToken
  <2>8. line.ok => (line.acts <=> ActsBefore(tokens, n))
    BY <2>3 DEF AllFit, ActsBefore
  <2>9. taken.ok <=> line.ok /\ Fits(tokens, n)
    BY <2>7, <2>8 DEF Fits
  <2>10. (\A i \in 1..n : Fits(tokens, i)) <=>
            (\A i \in 1..n - 1 : Fits(tokens, i)) /\ Fits(tokens, n)
    BY <2>4, <2>5, <2>6
  <2>11. taken.ok <=> \A i \in 1..n : Fits(tokens, i)
    BY <2>3, <2>9, <2>10 DEF AllFit
  <2>12. (\E i \in 1..n : Acting(tokens, i)) <=>
            (\E i \in 1..n - 1 : Acting(tokens, i)) \/ Acting(tokens, n)
    BY <2>4, <2>5, <2>6
  <2>13. (\E i \in 1..n : Matching(tokens[i])) <=>
            (\E i \in 1..n - 1 : Matching(tokens[i])) \/ Matching(tokens[n])
    BY <2>4, <2>5, <2>6
  <2>14. taken.ok => line.ok
    BY <2>9
  <2>15. taken.ok => (taken.acts <=> \E i \in 1..n : Acting(tokens, i))
    BY <2>3, <2>7, <2>12, <2>14 DEF AllFit, Acting
  <2>16. taken.ok => (taken.matchers # <<>> <=> \E i \in 1..n : Matching(tokens[i]))
    BY <2>3, <2>7, <2>13, <2>14 DEF AllFit
  <2>17. AllFit(tokens, n, taken)
    BY <2>11, <2>15, <2>16 DEF AllFit
  <2> QED
    BY <2>1, <2>17 DEF taken
<1>5. \A n \in 0..N : n \in Kept
  <2>1. Kept \in SUBSET (0..N)
    OBVIOUS
  <2> HIDE DEF Kept
  <2> QED
    BY <1>1, <1>3, <1>4, <2>1, LoopKeeps
<1>6. N \in 0..N
  BY <1>1
<1>7. upto[N] \in LineSpace /\ AllFit(tokens, N, upto[N])
  BY <1>2, <1>5, <1>6
<1> QED
  BY <1>2, <1>7 DEF N

(* parse_rule_line: a line is a rule exactly if it is well formed. *)
LEMMA RuleLineOk ==
    ASSUME NEW tokens \in Seq(Token)
    PROVE  ParseRuleLine(tokens).ok <=> WellFormed(tokens)
<1> DEFINE N == Len(tokens)
<1>1. N \in Nat /\ DOMAIN tokens = 1..N /\ \A n \in 1..N : tokens[n] \in Token
  BY ElementOfSeq
<1>2. PICK line \in LineSpace :
        /\ AllFit(tokens, N, line)
        /\ ParseRuleLine(tokens) = IF Accepted(line) THEN Line(line) ELSE Problem
  BY FitTokens
<1> HIDE DEF N
<1>3. Line(line).ok = TRUE /\ Problem.ok = FALSE
  BY DEF Line, Problem, Nothing
<1>4. ParseRuleLine(tokens).ok <=> Accepted(line)
  BY <1>2, <1>3
<1>5. Accepted(line) <=>
        /\ \A i \in 1..N : Fits(tokens, i)
        /\ \E i \in 1..N : Acting(tokens, i)
        /\ \E i \in 1..N : Matching(tokens[i])
  BY <1>2 DEF AllFit, Accepted
<1>6. WellFormed(tokens) <=>
        /\ \A i \in 1..N : tokens[i].valid
        /\ \E i \in 1..N : Matching(tokens[i])
        /\ \E k \in 1..N :
            /\ Acting(tokens, k)
            /\ \A i \in 1..k - 1 : Matching(tokens[i])
            /\ \A i \in k + 1..N : tokens[i].kind \in {"network", "priority", "option"}
  <2>1. ToSet(tokens) = {tokens[i] : i \in 1..N}
    BY <1>1 DEF ToSet
  <2> QED
    BY <1>1, <2>1 DEF WellFormed, Acting, N
<1>7. ASSUME \A i \in 1..N : Fits(tokens, i), \E i \in 1..N : Acting(tokens, i)
      PROVE  /\ \A i \in 1..N : tokens[i].valid
             /\ \E k \in 1..N :
                /\ Acting(tokens, k)
                /\ \A i \in 1..k - 1 : Matching(tokens[i])
                /\ \A i \in k + 1..N : tokens[i].kind \in {"network", "priority", "option"}
  <2> DEFINE T == {i \in 1..N : Acting(tokens, i)}
  <2>1. PICK k \in T : \A i \in T : k <= i
    <3>1. T \in SUBSET Nat /\ T # {}
      BY <1>7
    <3> HIDE DEF T
    <3> QED
      BY <3>1, Least
  <2>2. k \in 1..N /\ Acting(tokens, k)
    BY <2>1
  <2>3. \A i \in 1..k - 1 : i \in 1..N /\ ~Acting(tokens, i)
    BY <1>1, <2>1, <2>2
  <2>4. ASSUME NEW i \in 1..k - 1 PROVE Matching(tokens[i])
    <3>1. \A j \in 1..i - 1 : j \in 1..k - 1
      BY <1>1, <2>2
    <3>2. ~ActsBefore(tokens, i)
      BY <2>3, <3>1 DEF ActsBefore
    <3>3. Fits(tokens, i) /\ ~Acting(tokens, i)
      BY <1>7, <2>3
    <3> QED
      BY <3>2, <3>3 DEF Fits, Matching, Acting
  <2>5. ASSUME NEW i \in k + 1..N PROVE tokens[i].kind \in {"network", "priority", "option"}
    <3>1. i \in 1..N /\ k \in 1..i - 1
      BY <1>1, <2>2
    <3>2. ActsBefore(tokens, i)
      BY <2>2, <3>1 DEF ActsBefore
    <3>3. Fits(tokens, i)
      BY <1>7, <3>1
    <3> QED
      BY <3>2, <3>3 DEF Fits
  <2>6. \A i \in 1..N : tokens[i].valid
    BY <1>7 DEF Fits
  <2> QED
    BY <2>2, <2>4, <2>5, <2>6
<1>8. ASSUME \A i \in 1..N : tokens[i].valid,
             NEW k \in 1..N, Acting(tokens, k),
             \A i \in 1..k - 1 : Matching(tokens[i]),
             \A i \in k + 1..N : tokens[i].kind \in {"network", "priority", "option"}
      PROVE  \A i \in 1..N : Fits(tokens, i)
  <2> SUFFICES ASSUME NEW i \in 1..N PROVE Fits(tokens, i)
    OBVIOUS
  <2>1. \A j \in 1..k - 1 : ~Acting(tokens, j) /\ tokens[j].kind \in {"network", "host"}
    BY <1>8 DEF Matching, Acting
  <2>2. CASE i <= k
    <3>1. \A j \in 1..i - 1 : j \in 1..k - 1
      BY <1>1, <2>2
    <3>2. ~ActsBefore(tokens, i)
      BY <2>1, <3>1 DEF ActsBefore
    <3>3. i \in 1..k - 1 \/ i = k
      BY <1>1, <2>2
    <3>4. tokens[i].kind \in {"network", "host", "action"}
      BY <1>8, <2>1, <3>3 DEF Acting
    <3> QED
      BY <1>8, <3>2, <3>4 DEF Fits
  <2>3. CASE ~(i <= k)
    <3>1. k \in 1..i - 1 /\ i \in k + 1..N
      BY <1>1, <2>3
    <3>2. ActsBefore(tokens, i)
      BY <1>8, <3>1 DEF ActsBefore
    <3>3. tokens[i].kind \in {"network", "priority", "option"}
      BY <1>8, <3>1
    <3> QED
      BY <1>8, <3>2, <3>3 DEF Fits
  <2> QED
    BY <2>2, <2>3
<1> QED
  BY <1>4, <1>5, <1>6, <1>7, <1>8

(* load_text, load_exclude_file: a file fails if any of its lines does. *)
LEMMA TextOk ==
    ASSUME NEW lines \in Seq(SourceLine), NEW included \in [SourcePaths -> Result]
    PROVE  Text(lines, included).ok <=>
                \A n \in 1..Len(lines) : LineRead(lines[n], included).ok
<1> DEFINE N == Len(lines)
           fine(n) == LineRead(lines[n], included).ok
<1>1. N \in Nat
  OBVIOUS
<1>2. PICK upto :
        /\ upto[0] = Nothing /\ \A n \in 0..N : upto[n] \in Result
        /\ \A n \in 1..N : upto[n] = Followed(upto[n - 1], LineRead(lines[n], included))
        /\ Text(lines, included) = upto[N]
  BY LinesRead
<1>3. \A n \in 1..N : upto[n].ok <=> upto[n - 1].ok /\ fine(n)
  <2>1. \A a, b : Followed(a, b).ok = (a.ok /\ b.ok)
    BY DEF Followed
  <2>2. \A n \in 1..N : upto[n].ok = (upto[n - 1].ok /\ fine(n))
    BY <1>2, <2>1
  <2> QED
    BY <2>2
<1> DEFINE Kept == {n \in 0..N : upto[n].ok <=> \A i \in 1..n : fine(i)}
<1> HIDE DEF N, fine
<1>4. 0 \in Kept
  <2>1. upto[0].ok
    BY <1>2 DEF Nothing
  <2>2. \A i \in 1..0 : FALSE
    OBVIOUS
  <2> QED
    BY <1>1, <2>1, <2>2
<1>5. ASSUME NEW n \in 1..N, n - 1 \in Kept PROVE n \in Kept
  <2>1. n \in 0..N /\ n \in 1..n
    BY <1>1
  <2>2. \A i \in 1..n : i \in 1..n - 1 \/ i = n
    BY <1>1
  <2>3. \A i \in 1..n - 1 : i \in 1..n
    BY <1>1
  <2>4. upto[n - 1].ok <=> \A i \in 1..n - 1 : fine(i)
    BY <1>5
  <2>5. upto[n].ok <=> \A i \in 1..n : fine(i)
    BY <1>3, <2>1, <2>2, <2>3, <2>4
  <2> QED
    BY <2>1, <2>5
<1>6. \A n \in 0..N : n \in Kept
  <2>1. Kept \in SUBSET (0..N)
    OBVIOUS
  <2> HIDE DEF Kept
  <2> QED
    BY <1>1, <1>4, <1>5, <2>1, LoopKeeps
<1>7. N \in 0..N
  BY <1>1
<1>8. Text(lines, included).ok <=> \A i \in 1..N : fine(i)
  BY <1>2, <1>6, <1>7
<1> QED
  BY <1>8 DEF N, fine

(* A line that fails; full says that includes are nested as deep as they may be. *)
LineFails(line, full) ==
    IF IsInclude(line) THEN line.path \notin Sources \/ full
    ELSE line.kind = "rule" /\ ~WellFormed(line.tokens)

LEMMA LineOk ==
    ASSUME NEW line \in SourceLine, NEW included \in [SourcePaths -> Result]
    PROVE  IF IsInclude(line)
           THEN line.path \in SourcePaths /\ LineRead(line, included) = included[line.path]
           ELSE \A full \in BOOLEAN :
                    LineRead(line, included).ok <=> ~LineFails(line, full)
<1>1. CASE IsInclude(line)
  <2>1. line.path \in SourcePaths
    BY <1>1 DEF IsInclude, SourceLine
  <2> QED
    BY <1>1, <2>1 DEF LineRead
<1>2. CASE ~IsInclude(line) /\ line.kind = "rule"
  <2>1. line.tokens \in Seq(Token)
    BY <1>2 DEF SourceLine
  <2>2. ParseRuleLine(line.tokens).ok <=> WellFormed(line.tokens)
    BY <2>1, RuleLineOk
  <2> QED
    BY <1>2, <2>2 DEF LineRead, LineFails
<1>3. CASE ~IsInclude(line) /\ line.kind # "rule"
  <2>1. LineRead(line, included) = ReadExcludeLine(line)
    BY <1>3 DEF LineRead
  <2>2. line.kind \in {"entry", "junk"}
    BY <1>3 DEF SourceLine, IsInclude
  <2> DEFINE entry == [text |-> line.text, subdomains_only |-> line.subdomains_only]
  <2>3. Nothing.ok = TRUE /\ [Nothing EXCEPT !.excludes = {entry}].ok = TRUE
    BY DEF Nothing, Problem
  <2>4. ReadExcludeLine(line) = IF line.kind = "entry"
                                THEN [Nothing EXCEPT !.excludes = {entry}] ELSE Nothing
    BY DEF ReadExcludeLine
  <2> HIDE DEF entry
  <2>5. LineRead(line, included).ok
    BY <2>1, <2>3, <2>4
  <2> QED
    BY <1>3, <2>5 DEF LineFails
<1> QED
  BY <1>1, <1>2, <1>3

(* The files on the way to a line: numbers are the lines followed, and files the paths
   they lead to.                                                              *)
Leads(path, numbers, files, depth) ==
    /\ files[0] = path
    /\ \A n \in 1..depth - 1 : files[n] = Follow(files[n - 1], numbers[n])
    /\ files[depth - 1] \in Sources /\ numbers[depth] \in DOMAIN LinesOf(files[depth - 1])

LEMMA FollowIsPath ==
    ASSUME LinesTyped, NEW file \in SourcePaths, NEW n \in Nat
    PROVE  /\ Follow(file, n) \in SourcePaths
           /\ Follow(file, n) \in Sources =>
                /\ file \in Sources /\ n \in DOMAIN LinesOf(file) /\ IsInclude(LinesOf(file)[n])
                /\ Follow(file, n) = LinesOf(file)[n].path
<1>1. Nowhere \in SourcePaths /\ Nowhere \notin Sources
  BY FilesAssumption DEF FilesAssumption, SourcePaths, Sources, Nowhere, FilePaths, FileKinds
<1>2. ASSUME file \in Sources, n \in DOMAIN LinesOf(file), IsInclude(LinesOf(file)[n])
      PROVE  LinesOf(file)[n].path \in SourcePaths
  <2>1. LinesOf(file) \in Seq(SourceLine)
    BY <1>2 DEF LinesTyped
  <2>2. LinesOf(file)[n] \in SourceLine
    BY <1>2, <2>1, ElementOfSeq
  <2> QED
    BY <1>2, <2>2 DEF IsInclude, SourceLine
<1> QED
  BY <1>1, <1>2 DEF Follow

(* Every line followed on the way to a file is an include of a file. *)
OverFiles(numbers, files, depth) ==
    /\ \A n \in 0..depth - 1 :
            files[n] \in Sources /\ numbers[n + 1] \in DOMAIN LinesOf(files[n])
    /\ \A n \in 1..depth - 1 :
            /\ IsInclude(LinesOf(files[n - 1])[numbers[n]])
            /\ LinesOf(files[n - 1])[numbers[n]].path = files[n]

LEMMA WayIsOverFiles ==
    ASSUME LinesTyped, NEW path, NEW depth \in Nat \ {0},
           NEW numbers \in [1..depth -> Nat], NEW files \in [0..depth - 1 -> SourcePaths],
           Leads(path, numbers, files, depth)
    PROVE  OverFiles(numbers, files, depth)
<1> DEFINE N == depth - 1
           Lost == {n \in 0..N : files[n] \notin Sources}
<1>1. N \in Nat /\ \A n \in 1..N : n \in 1..depth /\ n - 1 \in 0..N /\ n \in 0..N
  OBVIOUS
<1>2. \A n \in 0..N : files[n] \in SourcePaths
  OBVIOUS
<1>3. \A n \in 1..depth : numbers[n] \in Nat
  OBVIOUS
<1>4. /\ \A n \in 1..N : files[n] = Follow(files[n - 1], numbers[n])
      /\ files[N] \in Sources /\ numbers[depth] \in DOMAIN LinesOf(files[N])
  BY DEF Leads
<1>5. depth = N + 1 /\ N \in 0..N
  OBVIOUS
<1> HIDE DEF N
<1>6. ASSUME NEW n \in 1..N, files[n] \in Sources
      PROVE  /\ files[n - 1] \in Sources /\ numbers[n] \in DOMAIN LinesOf(files[n - 1])
             /\ IsInclude(LinesOf(files[n - 1])[numbers[n]])
             /\ LinesOf(files[n - 1])[numbers[n]].path = files[n]
  <2> DEFINE f == files[n - 1]
             x == numbers[n]
  <2>1. f \in SourcePaths /\ x \in Nat /\ files[n] = Follow(f, x)
    BY <1>1, <1>2, <1>3, <1>4
  <2> HIDE DEF f, x
  <2>2. Follow(f, x) \in Sources =>
            /\ f \in Sources /\ x \in DOMAIN LinesOf(f) /\ IsInclude(LinesOf(f)[x])
            /\ Follow(f, x) = LinesOf(f)[x].path
    BY <2>1, FollowIsPath
  <2> QED
    BY <1>6, <2>1, <2>2 DEF f, x
<1>7. ASSUME NEW k \in 0..N, files[k] \notin Sources PROVE FALSE
  <2> DEFINE Kept == {n \in 0..N : n < k \/ files[n] \notin Sources}
  <2>1. 0 \in Kept
    BY <1>1, <1>7
  <2>2. ASSUME NEW n \in 1..N, n - 1 \in Kept PROVE n \in Kept
    <3>1. n \in 0..N
      BY <1>1
    <3>2. CASE n - 1 < k
      <4>1. n < k \/ n = k
        BY <3>2
      <4> QED
        BY <1>7, <3>1, <4>1
    <3>3. CASE files[n - 1] \notin Sources
      BY <1>6, <3>1, <3>3
    <3> QED
      BY <2>2, <3>2, <3>3
  <2>3. \A n \in 0..N : n \in Kept
    <3>1. Kept \in SUBSET (0..N)
      OBVIOUS
    <3> HIDE DEF Kept
    <3> QED
      BY <1>1, <2>1, <2>2, <3>1, LoopKeeps
  <2>4. ~(N < k)
    BY <1>1
  <2> QED
    BY <1>4, <1>5, <2>3, <2>4
<1>8. ASSUME NEW n \in 0..N
      PROVE  files[n] \in Sources /\ numbers[n + 1] \in DOMAIN LinesOf(files[n])
  <2>1. files[n] \in Sources
    BY <1>7
  <2>2. CASE n = N
    BY <1>4, <1>5, <2>1, <2>2
  <2>3. CASE n # N
    <3>1. n + 1 \in 1..N /\ (n + 1) - 1 = n
      BY <1>1, <2>3
    <3>2. files[n + 1] \in Sources
      BY <1>1, <1>7, <3>1
    <3> QED
      BY <1>6, <2>1, <3>1, <3>2
  <2> QED
    BY <2>2, <2>3
<1>9. ASSUME NEW n \in 1..N
      PROVE  /\ IsInclude(LinesOf(files[n - 1])[numbers[n]])
             /\ LinesOf(files[n - 1])[numbers[n]].path = files[n]
  BY <1>1, <1>6, <1>7
<1> QED
  BY <1>8, <1>9 DEF OverFiles, N

(* A load of path fails below it, with includes nested at most left deep. *)
FailsBelow(path, left) ==
    \E depth \in 1..left : \E numbers \in [1..depth -> Nat] :
        \E files \in [0..depth - 1 -> SourcePaths] :
            /\ Leads(path, numbers, files, depth)
            /\ LineFails(LinesOf(files[depth - 1])[numbers[depth]], depth = left)

(* A way of one line. *)
LEMMA ShortWay ==
    ASSUME LinesTyped, NEW path \in Sources, NEW left \in Nat \ {0},
           NEW n \in 1..Len(LinesOf(path)), LineFails(LinesOf(path)[n], left = 1)
    PROVE  FailsBelow(path, left)
<1> PICK one \in Nat : one = 1
  OBVIOUS
<1> DEFINE numbers == [i \in 1..one |-> n]
           files == [i \in 0..one - 1 |-> path]
<1>1. path \in SourcePaths
  BY DEF SourcePaths, Sources, FilePaths
<1>2. DOMAIN LinesOf(path) = 1..Len(LinesOf(path))
  BY DEF LinesTyped
<1>3. n \in Nat
  <2>1. LinesOf(path) \in Seq(SourceLine)
    BY DEF LinesTyped
  <2> QED
    BY <2>1
<1>4. numbers \in [1..one -> Nat] /\ files \in [0..one - 1 -> SourcePaths]
  BY <1>1, <1>3
<1>5. files[0] = path /\ files[one - 1] = path /\ numbers[one] = n
  OBVIOUS
<1>6. one \in 1..left /\ \A i \in 1..one - 1 : FALSE
  OBVIOUS
<1> HIDE DEF numbers, files
<1>7. Leads(path, numbers, files, one)
  BY <1>2, <1>5, <1>6 DEF Leads
<1>8. LineFails(LinesOf(files[one - 1])[numbers[one]], one = left)
  BY <1>5
<1> QED
  BY <1>4, <1>6, <1>7, <1>8 DEF FailsBelow

(* A way behind one more include. *)
LEMMA LongerWay ==
    ASSUME LinesTyped, NEW path \in Sources, NEW left \in Nat,
           NEW n \in 1..Len(LinesOf(path)), IsInclude(LinesOf(path)[n]),
           FailsBelow(LinesOf(path)[n].path, left)
    PROVE  FailsBelow(path, left + 1)
<1> DEFINE next == LinesOf(path)[n].path
<1>1. path \in SourcePaths
  BY DEF SourcePaths, Sources, FilePaths
<1>2. DOMAIN LinesOf(path) = 1..Len(LinesOf(path)) /\ n \in Nat
  <2>1. LinesOf(path) \in Seq(SourceLine)
    BY DEF LinesTyped
  <2> QED
    BY <2>1
<1>3. Follow(path, n) = next
  BY <1>2 DEF Follow
<1>4a. PICK depth \in 1..left :
        \E numbers \in [1..depth -> Nat] : \E files \in [0..depth - 1 -> SourcePaths] :
            /\ Leads(next, numbers, files, depth)
            /\ LineFails(LinesOf(files[depth - 1])[numbers[depth]], depth = left)
  BY DEF FailsBelow, next
<1>4b. PICK numbers \in [1..depth -> Nat] : \E files \in [0..depth - 1 -> SourcePaths] :
            /\ Leads(next, numbers, files, depth)
            /\ LineFails(LinesOf(files[depth - 1])[numbers[depth]], depth = left)
  BY <1>4a
<1>4. PICK files \in [0..depth - 1 -> SourcePaths] :
            /\ Leads(next, numbers, files, depth)
            /\ LineFails(LinesOf(files[depth - 1])[numbers[depth]], depth = left)
  BY <1>4b
<1> HIDE DEF next
<1> DEFINE more == [i \in 1..depth + 1 |-> IF i = 1 THEN n ELSE numbers[i - 1]]
           over == [i \in 0..depth |-> IF i = 0 THEN path ELSE files[i - 1]]
<1>5. depth \in Nat \ {0} /\ depth + 1 \in 1..left + 1 /\ (depth + 1) - 1 = depth
      /\ (depth + 1 = left + 1 <=> depth = left)
  OBVIOUS
<1>6. more \in [1..depth + 1 -> Nat]
  <2>1. \A i \in 1..depth + 1 : i # 1 => i - 1 \in 1..depth
    BY <1>5
  <2> QED
    BY <1>2, <2>1
<1>7. over \in [0..depth -> SourcePaths]
  <2>1. \A i \in 0..depth : i # 0 => i - 1 \in 0..depth - 1
    BY <1>5
  <2> QED
    BY <1>1, <2>1
<1>8. over[0] = path /\ \A i \in 1..depth : over[i] = files[i - 1]
  BY <1>5
<1>9. more[1] = n /\ \A i \in 1..depth : more[i + 1] = numbers[i]
  <2>1. \A i \in 1..depth : i + 1 \in 1..depth + 1 /\ i + 1 # 1 /\ (i + 1) - 1 = i
    BY <1>5
  <2>2. 1 \in 1..depth + 1
    BY <1>5
  <2> QED
    BY <2>1, <2>2
<1> HIDE DEF more, over
<1>10. /\ files[0] = next
       /\ \A i \in 1..depth - 1 : files[i] = Follow(files[i - 1], numbers[i])
       /\ files[depth - 1] \in Sources /\ numbers[depth] \in DOMAIN LinesOf(files[depth - 1])
  BY <1>4 DEF Leads
<1>11. ASSUME NEW i \in 1..depth PROVE over[i] = Follow(over[i - 1], more[i])
  <2>1. CASE i = 1
    <3>1. over[i] = next /\ over[i - 1] = path /\ more[i] = n
      BY <1>5, <1>8, <1>9, <1>10, <2>1
    <3> QED
      BY <1>3, <3>1
  <2>2. CASE i # 1
    <3>1. i - 1 \in 1..depth - 1 /\ i - 1 \in 1..depth /\ (i - 1) + 1 = i
      BY <1>5, <2>2
    <3>2. over[i] = files[i - 1]
      BY <1>8
    <3>3. over[i - 1] = files[(i - 1) - 1]
      BY <1>8, <3>1
    <3>4. more[i] = numbers[i - 1]
      <4>1. more[(i - 1) + 1] = numbers[i - 1]
        BY <1>9, <3>1
      <4> QED
        BY <3>1, <4>1
    <3>5. files[i - 1] = Follow(files[(i - 1) - 1], numbers[i - 1])
      BY <1>10, <3>1
    <3> QED
      BY <3>2, <3>3, <3>4, <3>5
  <2> QED
    BY <2>1, <2>2
<1>12. over[depth] = files[depth - 1] /\ more[depth + 1] = numbers[depth]
  BY <1>5, <1>8, <1>9
<1>13. Leads(path, more, over, depth + 1)
  BY <1>5, <1>8, <1>10, <1>11, <1>12 DEF Leads
<1>14. LineFails(LinesOf(over[(depth + 1) - 1])[more[depth + 1]], depth + 1 = left + 1)
  BY <1>4, <1>5, <1>12
<1>15. over \in [0..(depth + 1) - 1 -> SourcePaths]
  BY <1>5, <1>7
<1> QED
  BY <1>5, <1>6, <1>13, <1>14, <1>15 DEF FailsBelow

(* The first step of a way: its only line, or an include with a way behind it. *)
LEMMA WaySplit ==
    ASSUME LinesTyped, NEW path \in SourcePaths, NEW left \in Nat \ {0}, FailsBelow(path, left)
    PROVE  /\ path \in Sources
           /\ \E n \in 1..Len(LinesOf(path)) :
                \/ LineFails(LinesOf(path)[n], left = 1)
                \/ /\ IsInclude(LinesOf(path)[n])
                   /\ FailsBelow(LinesOf(path)[n].path, left - 1)
<1>1a. PICK depth \in 1..left :
        \E numbers \in [1..depth -> Nat] : \E files \in [0..depth - 1 -> SourcePaths] :
            /\ Leads(path, numbers, files, depth)
            /\ LineFails(LinesOf(files[depth - 1])[numbers[depth]], depth = left)
  BY DEF FailsBelow
<1>1b. PICK numbers \in [1..depth -> Nat] : \E files \in [0..depth - 1 -> SourcePaths] :
            /\ Leads(path, numbers, files, depth)
            /\ LineFails(LinesOf(files[depth - 1])[numbers[depth]], depth = left)
  BY <1>1a
<1>1. PICK files \in [0..depth - 1 -> SourcePaths] :
            /\ Leads(path, numbers, files, depth)
            /\ LineFails(LinesOf(files[depth - 1])[numbers[depth]], depth = left)
  BY <1>1b
<1>2. depth \in Nat \ {0} /\ left \in Nat
  OBVIOUS
<1>3. /\ \A n \in 0..depth - 1 :
            files[n] \in Sources /\ numbers[n + 1] \in DOMAIN LinesOf(files[n])
      /\ \A n \in 1..depth - 1 :
            /\ IsInclude(LinesOf(files[n - 1])[numbers[n]])
            /\ LinesOf(files[n - 1])[numbers[n]].path = files[n]
  <2>1. OverFiles(numbers, files, depth)
    BY <1>1, <1>2, WayIsOverFiles
  <2> QED
    BY <2>1 DEF OverFiles
<1>4. files[0] = path
  BY <1>1 DEF Leads
<1>5. path \in Sources /\ numbers[1] \in 1..Len(LinesOf(path))
  <2>1. 0 \in 0..depth - 1 /\ 0 + 1 = 1
    BY <1>2
  <2>2. path \in Sources /\ numbers[1] \in DOMAIN LinesOf(path)
    BY <1>3, <1>4, <2>1
  <2>3. LinesOf(path) \in Seq(SourceLine)
    BY <2>2 DEF LinesTyped
  <2> QED
    BY <2>2, <2>3
<1>6. CASE depth = 1
  <2>1. LineFails(LinesOf(path)[numbers[1]], 1 = left)
    BY <1>1, <1>4, <1>6
  <2>2. (1 = left) = (left = 1)
    OBVIOUS
  <2>3. LineFails(LinesOf(path)[numbers[1]], left = 1)
    BY <2>1, <2>2
  <2> QED
    BY <1>5, <2>3
<1>7. CASE depth # 1
  <2> DEFINE D == depth - 1
             rest == [i \in 1..D |-> numbers[i + 1]]
             over == [i \in 0..D - 1 |-> files[i + 1]]
             next == files[1]
  <2>1. D \in 1..left - 1 /\ D \in Nat /\ depth = D + 1 /\ left - 1 \in Nat
    BY <1>2, <1>7
  <2> HIDE DEF D
  <2>2. \A i \in 1..D : i + 1 \in 1..depth
    BY <2>1
  <2>3. \A i \in 0..D - 1 : i + 1 \in 0..depth - 1
    BY <2>1
  <2>4. rest \in [1..D -> Nat] /\ over \in [0..D - 1 -> SourcePaths]
    BY <2>2, <2>3
  <2>5. over[0] = next /\ over[D - 1] = files[depth - 1] /\ rest[D] = numbers[depth]
    <3>1. 0 \in 0..D - 1 /\ 0 + 1 = 1 /\ D - 1 \in 0..D - 1 /\ (D - 1) + 1 = depth - 1
          /\ D \in 1..D
      BY <2>1
    <3> QED
      BY <2>1, <3>1
  <2>6. /\ \A n \in 1..depth - 1 : files[n] = Follow(files[n - 1], numbers[n])
        /\ files[depth - 1] \in Sources /\ numbers[depth] \in DOMAIN LinesOf(files[depth - 1])
    BY <1>1 DEF Leads
  <2>7. ASSUME NEW i \in 1..D - 1 PROVE over[i] = Follow(over[i - 1], rest[i])
    <3>1. i + 1 \in 1..depth - 1 /\ (i + 1) - 1 = (i - 1) + 1
      BY <2>1
    <3>2. i \in 0..D - 1 /\ i - 1 \in 0..D - 1 /\ i \in 1..D
      BY <2>1
    <3>3. over[i] = files[i + 1] /\ over[i - 1] = files[(i - 1) + 1]
          /\ rest[i] = numbers[i + 1]
      BY <3>2
    <3> QED
      BY <2>6, <3>1, <3>3
  <2> HIDE DEF rest, over, next
  <2>8. Leads(next, rest, over, D)
    BY <2>5, <2>6, <2>7 DEF Leads
  <2>9. (depth = left) = (D = left - 1)
    BY <2>1
  <2>10. LineFails(LinesOf(over[D - 1])[rest[D]], D = left - 1)
    BY <1>1, <2>5, <2>9
  <2>11. FailsBelow(next, left - 1)
    BY <2>1, <2>4, <2>8, <2>10 DEF FailsBelow
  <2>12. 1 \in 1..depth - 1 /\ 1 - 1 = 0
    BY <2>1
  <2>13. IsInclude(LinesOf(path)[numbers[1]]) /\ LinesOf(path)[numbers[1]].path = next
    BY <1>3, <1>4, <2>12 DEF next
  <2> QED
    BY <1>5, <2>11, <2>13
<1> QED
  BY <1>5, <1>6, <1>7

(* A load returns true if and only if nothing fails below it. *)
LEMMA LoadedOk ==
    ASSUME LinesTyped
    PROVE  \A left \in 0..MaxIncludeDepth + 1 : \A path \in SourcePaths :
                Loaded[left][path].ok <=>
                    path \in Sources /\ left # 0 /\ ~FailsBelow(path, left)
<1> DEFINE N == MaxIncludeDepth + 1
           Told(left) == \A path \in SourcePaths :
                            Loaded[left][path].ok <=>
                                path \in Sources /\ left # 0 /\ ~FailsBelow(path, left)
           Kept == {left \in 0..N : Told(left)}
<1>1. N \in Nat
  BY DepthAssumption DEF DepthAssumption
<1>2. /\ \A left \in 0..N : Loaded[left] \in [SourcePaths -> Result]
      /\ Loaded[0] = [path \in SourcePaths |-> Problem]
      /\ \A left \in 1..N : Loaded[left] = Included(Loaded[left - 1])
  BY LoadedIsResult
<1>3. Problem.ok = FALSE
  BY DEF Problem, Nothing
<1> HIDE DEF N
<1>4. Told(0)
  BY <1>2, <1>3
<1>5. ASSUME NEW left \in 1..N, Told(left - 1) PROVE Told(left)
  <2> SUFFICES ASSUME NEW path \in SourcePaths
               PROVE  Loaded[left][path].ok <=> path \in Sources /\ ~FailsBelow(path, left)
    BY <1>1
  <2> DEFINE before == Loaded[left - 1]
             lines == LinesOf(path)
             fine(n) == LineRead(lines[n], before).ok
  <2>1. left - 1 \in 0..N /\ left \in Nat \ {0} /\ left - 1 \in Nat
        /\ (left - 1) + 1 = left /\ (left - 1 = 0 <=> left = 1)
    BY <1>1
  <2>2. before \in [SourcePaths -> Result]
    BY <1>2, <2>1
  <2>3. \A p \in SourcePaths :
            before[p].ok <=> p \in Sources /\ left # 1 /\ ~FailsBelow(p, left - 1)
    BY <1>5, <2>1
  <2>4. Loaded[left][path] = IF path \notin Sources THEN Problem ELSE Text(lines, before)
    BY <1>2 DEF Included
  <2> HIDE DEF before
  <2>5. CASE path \notin Sources
    BY <1>3, <2>4, <2>5
  <2>6. CASE path \in Sources
    <3>1. lines \in Seq(SourceLine)
      BY <2>6 DEF LinesTyped
    <3>2. \A n \in 1..Len(lines) : lines[n] \in SourceLine
      BY <3>1, ElementOfSeq
    <3>3. Loaded[left][path].ok <=> \A n \in 1..Len(lines) : fine(n)
      BY <2>2, <2>4, <2>6, <3>1, TextOk
    <3>4. ASSUME NEW n \in 1..Len(lines), ~fine(n) PROVE FailsBelow(path, left)
      <4>1. CASE ~IsInclude(lines[n])
        <5>1. (left = 1) \in BOOLEAN
          OBVIOUS
        <5>2. LineFails(lines[n], left = 1)
          BY <2>2, <3>2, <3>4, <4>1, <5>1, LineOk
        <5> QED
          BY <2>1, <2>6, <5>2, ShortWay
      <4>2. CASE IsInclude(lines[n])
        <5>1. lines[n].path \in SourcePaths /\ ~before[lines[n].path].ok
          BY <2>2, <3>2, <3>4, <4>2, LineOk
        <5>2. CASE lines[n].path \notin Sources \/ left = 1
          <6>1. LineFails(lines[n], left = 1)
            BY <4>2, <5>2 DEF LineFails
          <6> QED
            BY <2>1, <2>6, <6>1, ShortWay
        <5>3. CASE lines[n].path \in Sources /\ left # 1
          <6>1. FailsBelow(lines[n].path, left - 1)
            BY <2>3, <5>1, <5>3
          <6>2. FailsBelow(path, (left - 1) + 1)
            BY <2>1, <2>6, <4>2, <6>1, LongerWay
          <6> QED
            BY <2>1, <6>2
        <5> QED
          BY <5>2, <5>3
      <4> QED
        BY <4>1, <4>2
    <3>5. ASSUME FailsBelow(path, left) PROVE \E n \in 1..Len(lines) : ~fine(n)
      <4>1. PICK n \in 1..Len(lines) :
                \/ LineFails(lines[n], left = 1)
                \/ IsInclude(lines[n]) /\ FailsBelow(lines[n].path, left - 1)
        BY <2>1, <3>5, WaySplit
      <4>2. CASE ~IsInclude(lines[n])
        <5>1. (left = 1) \in BOOLEAN
          OBVIOUS
        <5>2. ~fine(n)
          BY <2>2, <3>2, <4>1, <4>2, <5>1, LineOk
        <5> QED
          BY <5>2
      <4>3. CASE IsInclude(lines[n])
        <5>1. lines[n].path \in SourcePaths
              /\ LineRead(lines[n], before) = before[lines[n].path]
          BY <2>2, <3>2, <4>3, LineOk
        <5>2. CASE LineFails(lines[n], left = 1)
          <6>1. lines[n].path \notin Sources \/ left = 1
            BY <4>3, <5>2 DEF LineFails
          <6> QED
            BY <2>3, <5>1, <6>1
        <5>3. CASE FailsBelow(lines[n].path, left - 1)
          BY <2>3, <5>1, <5>3
        <5> QED
          BY <4>1, <5>2, <5>3
      <4> QED
        BY <4>2, <4>3
    <3> HIDE DEF fine, lines
    <3> QED
      BY <2>6, <3>3, <3>4, <3>5
  <2> QED
    BY <2>5, <2>6
<1>6. 0 \in Kept
  BY <1>1, <1>4
<1>7. ASSUME NEW left \in 1..N, left - 1 \in Kept PROVE left \in Kept
  <2>1. left \in 0..N
    BY <1>1
  <2>2. Told(left - 1)
    BY <1>7
  <2> HIDE DEF Told
  <2> QED
    BY <1>5, <2>1, <2>2
<1>8. \A left \in 0..N : left \in Kept
  <2>1. Kept \in SUBSET (0..N)
    OBVIOUS
  <2> HIDE DEF Kept
  <2> QED
    BY <1>1, <1>6, <1>7, <2>1, LoopKeeps
<1> QED
  BY <1>8 DEF N

IsAt(path, place, at) ==
    at = [n \in 0..Len(place) - 1 |-> IF n = 0 THEN path ELSE Follow(at[n - 1], place[n])]

LEMMA FunctionIsSequence ==
    ASSUME NEW n \in Nat, NEW S, NEW s \in [1..n -> S]
    PROVE  s \in Seq(S) /\ Len(s) = n
  OBVIOUS

(* The files SourceAt passes, to the one a place is in. *)
PassesFiles(path, place, depth) ==
    \E files \in [0..depth - 1 -> SourcePaths] :
        /\ files[0] = path
        /\ \A n \in 1..depth - 1 : files[n] = Follow(files[n - 1], place[n])
        /\ SourceAt(path, place) = files[depth - 1]

LEMMA FilesAtPlace ==
    ASSUME LinesTyped, NEW path \in SourcePaths, NEW depth \in Nat \ {0},
           NEW place \in [1..depth -> Nat]
    PROVE  PassesFiles(path, place, depth)
<1> DEFINE N == depth - 1
           X == SourcePaths
           After(n) == [x \in X |-> Follow(x, place[n])]
           step == [n \in 1..N |-> After(n)]
           at == CHOOSE a : IsAt(path, place, a)
<1>1. N \in Nat /\ Len(place) = depth /\ \A n \in 1..N : place[n] \in Nat
  BY FunctionIsSequence
<1>2. SourceAt(path, place) = at[N]
  BY <1>1 DEF SourceAt, IsAt
<1> HIDE DEF N
<1>3. step \in [1..N -> [X -> X]]
  <2>1. ASSUME NEW n \in 1..N PROVE After(n) \in [X -> X]
    <3>1. \A x \in X : Follow(x, place[n]) \in X
      BY <1>1, FollowIsPath
    <3> HIDE DEF X
    <3> QED
      BY <3>1
  <2> HIDE DEF After
  <2> QED
    BY <2>1
<1>4. PICK run \in [0..N -> X] : Runs(N, path, step, run)
  <2> HIDE DEF step, X
  <2>1. path \in X
    BY DEF X
  <2> QED
    BY <1>1, <1>3, <2>1, LoopRuns
<1>5. ASSUME NEW n \in 1..N PROVE run[n] = Follow(run[n - 1], place[n])
  <2>1. run[n] = step[n][run[n - 1]]
    BY <1>4 DEF Runs
  <2>2. n - 1 \in 0..N
    BY <1>1, StepBefore
  <2>3. run[n - 1] \in X
    BY <1>4, <2>2
  <2> HIDE DEF X
  <2> QED
    BY <2>1, <2>3
<1>6. IsAt(path, place, run)
  <2>1. run[0] = path
    BY <1>4 DEF Runs
  <2>2. \A n \in 0..N : n # 0 => n \in 1..N
    BY <1>1
  <2>3. run = [n \in 0..N |-> run[n]]
    BY <1>4
  <2>4. run = [n \in 0..N |-> IF n = 0 THEN path ELSE Follow(run[n - 1], place[n])]
    BY <2>1, <2>2, <2>3, <1>5
  <2> QED
    BY <1>1, <2>4 DEF IsAt, N
<1>7. IsAt(path, place, at)
  BY <1>6
<1> HIDE DEF at
<1>8. at[0] = path /\ \A n \in 1..N : at[n] = Follow(at[n - 1], place[n])
  <2>1. 0 \in 0..N /\ \A n \in 1..N : n \in 0..N /\ n # 0
    BY <1>1
  <2>2. at = [n \in 0..N |-> IF n = 0 THEN path ELSE Follow(at[n - 1], place[n])]
    BY <1>1, <1>7 DEF IsAt, N
  <2> QED
    BY <2>1, <2>2
<1> DEFINE Kept == {n \in 0..N : at[n] = run[n]}
<1>9. 0 \in Kept
  BY <1>1, <1>4, <1>8 DEF Runs
<1>10. ASSUME NEW n \in 1..N, n - 1 \in Kept PROVE n \in Kept
  <2>1. n \in 0..N /\ at[n - 1] = run[n - 1]
    BY <1>1, <1>10
  <2> QED
    BY <1>5, <1>8, <2>1
<1>11. \A n \in 0..N : n \in Kept
  <2>1. Kept \in SUBSET (0..N)
    OBVIOUS
  <2> HIDE DEF Kept
  <2> QED
    BY <1>1, <1>9, <1>10, <2>1, LoopKeeps
<1>12. at[N] = run[N]
  <2>1. N \in 0..N
    BY <1>1
  <2> QED
    BY <1>11, <2>1
<1>13. run[0] = path /\ SourceAt(path, place) = run[N]
  BY <1>2, <1>4, <1>12 DEF Runs
<1> QED
  BY <1>4, <1>5, <1>13 DEF PassesFiles, N, X

(* A function that follows the lines from path ends where SourceAt does. *)
LEMMA FileAtIs ==
    ASSUME LinesTyped, NEW path \in SourcePaths, NEW depth \in Nat \ {0},
           NEW numbers \in [1..depth -> Nat], NEW files \in [0..depth - 1 -> SourcePaths],
           files[0] = path,
           \A n \in 1..depth - 1 : files[n] = Follow(files[n - 1], numbers[n])
    PROVE  SourceAt(path, numbers) = files[depth - 1]
<1> DEFINE N == depth - 1
<1>1. PICK at \in [0..N -> SourcePaths] :
        /\ at[0] = path
        /\ \A n \in 1..N : at[n] = Follow(at[n - 1], numbers[n])
        /\ SourceAt(path, numbers) = at[N]
  <2>1. PassesFiles(path, numbers, depth)
    BY FilesAtPlace
  <2> QED
    BY <2>1 DEF PassesFiles
<1>3. N \in Nat
  OBVIOUS
<1> DEFINE Kept == {n \in 0..N : at[n] = files[n]}
<1> HIDE DEF N
<1>4. 0 \in Kept
  BY <1>1, <1>3
<1>5. ASSUME NEW n \in 1..N, n - 1 \in Kept PROVE n \in Kept
  <2>1. n \in 0..N /\ at[n - 1] = files[n - 1]
    BY <1>3, <1>5
  <2>2. files[n] = Follow(files[n - 1], numbers[n])
    BY DEF N
  <2> QED
    BY <1>1, <2>1, <2>2
<1>6. \A n \in 0..N : n \in Kept
  <2>1. Kept \in SUBSET (0..N)
    OBVIOUS
  <2> HIDE DEF Kept
  <2> QED
    BY <1>3, <1>4, <1>5, <2>1, LoopKeeps
<1>7. N \in 0..N
  BY <1>3
<1> QED
  BY <1>1, <1>6, <1>7 DEF N

(* A way that leads somewhere is the one SourceAt takes. *)
LEMMA WayIsFileAt ==
    ASSUME LinesTyped, NEW path \in SourcePaths, NEW depth \in Nat \ {0},
           NEW numbers \in [1..depth -> Nat], NEW files \in [0..depth - 1 -> SourcePaths],
           Leads(path, numbers, files, depth)
    PROVE  SourceAt(path, numbers) = files[depth - 1]
  BY FileAtIs DEF Leads

FailingPlace(path) == \E place \in Places(path) : Fails(path, place)

(* The loader meets a failure exactly if one is written somewhere below the file. *)
LEMMA FailsIffWritten ==
    ASSUME LinesTyped, NEW path \in SourcePaths
    PROVE  FailsBelow(path, MaxIncludeDepth + 1) <=> FailingPlace(path)
<1> DEFINE N == MaxIncludeDepth + 1
           lineNumbers == UNION {DOMAIN LinesOf(f) : f \in Sources}
<1>1. N \in Nat \ {0} /\ MaxIncludeDepth \in Nat
  BY DepthAssumption DEF DepthAssumption
<1>2. lineNumbers \subseteq Nat
  <2> SUFFICES ASSUME NEW f \in Sources PROVE DOMAIN LinesOf(f) \subseteq Nat
    OBVIOUS
  <2>1. LinesOf(f) \in Seq(SourceLine)
    BY DEF LinesTyped
  <2> QED
    BY <2>1
<1>3. Places(path) =
        {p \in UNION {[1..n -> lineNumbers] : n \in 1..N} :
            SourceAt(path, p) \in Sources /\ Last(p) \in DOMAIN LinesOf(SourceAt(path, p))}
  BY DEF Places
<1>4. ASSUME NEW depth \in 1..N, NEW place \in [1..depth -> Nat]
      PROVE  /\ Last(place) = place[depth]
             /\ Fails(path, place) <=>
                    LineFails(LinesOf(SourceAt(path, place))[place[depth]], depth = N)
  <2>1. depth \in Nat /\ (depth > MaxIncludeDepth <=> depth = N)
    BY <1>1
  <2>2. Len(place) = depth
    BY <2>1, FunctionIsSequence
  <2>3. Last(place) = place[depth]
    BY <2>2 DEF Last
  <2> DEFINE line == LinesOf(SourceAt(path, place))[place[depth]]
  <2>4. LineAt(path, place) = line
    BY <2>3 DEF LineAt
  <2> HIDE DEF line, N
  <2>5. Fails(path, place) <=> LineFails(line, depth = N)
    BY <2>1, <2>2, <2>4 DEF Fails, LineFails
  <2> QED
    BY <2>3, <2>5 DEF line
<1> HIDE DEF N, lineNumbers
<1>5. ASSUME FailingPlace(path) PROVE FailsBelow(path, N)
  <2>1. PICK place \in Places(path) : Fails(path, place)
    BY <1>5 DEF FailingPlace
  <2>2. PICK depth \in 1..N : place \in [1..depth -> lineNumbers]
    BY <1>3, <2>1
  <2>3. place \in [1..depth -> Nat] /\ depth \in Nat \ {0}
    <3>1. \A n \in 1..depth : place[n] \in Nat
      BY <1>2, <2>2
    <3>2. place = [n \in 1..depth |-> place[n]]
      BY <2>2
    <3>3. depth \in Nat \ {0}
      BY <1>1
    <3> QED
      BY <3>1, <3>2, <3>3
  <2>4. /\ SourceAt(path, place) \in Sources
        /\ place[depth] \in DOMAIN LinesOf(SourceAt(path, place))
        /\ LineFails(LinesOf(SourceAt(path, place))[place[depth]], depth = N)
    <3>1. SourceAt(path, place) \in Sources /\ Last(place) \in DOMAIN LinesOf(SourceAt(path, place))
      BY <1>3, <2>1
    <3> QED
      BY <1>4, <2>1, <2>3, <3>1
  <2>5. PICK files \in [0..depth - 1 -> SourcePaths] :
            /\ files[0] = path
            /\ \A n \in 1..depth - 1 : files[n] = Follow(files[n - 1], place[n])
            /\ SourceAt(path, place) = files[depth - 1]
    <3>1. PassesFiles(path, place, depth)
      BY <2>3, FilesAtPlace
    <3> QED
      BY <3>1 DEF PassesFiles
  <2>6. Leads(path, place, files, depth)
    BY <2>4, <2>5 DEF Leads
  <2>7. LineFails(LinesOf(files[depth - 1])[place[depth]], depth = N)
    BY <2>4, <2>5
  <2> QED
    BY <2>3, <2>6, <2>7 DEF FailsBelow
<1>6. ASSUME FailsBelow(path, N) PROVE FailingPlace(path)
  <2>1. PICK depth \in 1..N :
        \E numbers \in [1..depth -> Nat] : \E files \in [0..depth - 1 -> SourcePaths] :
            /\ Leads(path, numbers, files, depth)
            /\ LineFails(LinesOf(files[depth - 1])[numbers[depth]], depth = N)
    BY <1>6 DEF FailsBelow
  <2>2. PICK numbers \in [1..depth -> Nat] : \E files \in [0..depth - 1 -> SourcePaths] :
            /\ Leads(path, numbers, files, depth)
            /\ LineFails(LinesOf(files[depth - 1])[numbers[depth]], depth = N)
    BY <2>1
  <2>3. PICK files \in [0..depth - 1 -> SourcePaths] :
            /\ Leads(path, numbers, files, depth)
            /\ LineFails(LinesOf(files[depth - 1])[numbers[depth]], depth = N)
    BY <2>2
  <2>4. depth \in Nat \ {0}
    BY <1>1
  <2>5. SourceAt(path, numbers) = files[depth - 1]
    BY <2>3, <2>4, WayIsFileAt
  <2>6. OverFiles(numbers, files, depth)
    BY <2>3, <2>4, WayIsOverFiles
  <2>7. numbers \in [1..depth -> lineNumbers]
    <3> SUFFICES ASSUME NEW n \in 1..depth PROVE numbers[n] \in lineNumbers
      OBVIOUS
    <3>1. n - 1 \in 0..depth - 1 /\ (n - 1) + 1 = n
      BY <2>4
    <3>2. files[n - 1] \in Sources /\ numbers[(n - 1) + 1] \in DOMAIN LinesOf(files[n - 1])
      BY <2>6, <3>1 DEF OverFiles
    <3>3. numbers[n] \in DOMAIN LinesOf(files[n - 1])
      BY <3>1, <3>2
    <3> QED
      BY <3>2, <3>3 DEF lineNumbers
  <2>8. files[depth - 1] \in Sources /\ numbers[depth] \in DOMAIN LinesOf(files[depth - 1])
    BY <2>3 DEF Leads
  <2>9. numbers \in Places(path)
    <3>1. Last(numbers) = numbers[depth]
      BY <1>4
    <3> QED
      BY <1>3, <2>5, <2>7, <2>8, <3>1
  <2>10. Fails(path, numbers)
    BY <1>4, <2>3, <2>5
  <2> QED
    BY <2>9, <2>10 DEF FailingPlace
<1> QED
  BY <1>5, <1>6 DEF N

(* RuleSet::load_file: what a load returns is told by the text of the files alone. *)
LEMMA LoadOk ==
    ASSUME LinesTyped, NEW path \in SourcePaths
    PROVE  Loaded[MaxIncludeDepth + 1][path].ok <=> path \in Sources /\ ~FailingPlace(path)
<1> DEFINE N == MaxIncludeDepth + 1
<1>1. N \in 0..N /\ N # 0
  BY DepthAssumption DEF DepthAssumption
<1>2. Loaded[N][path].ok <=> path \in Sources /\ ~FailsBelow(path, N)
  <2> HIDE DEF N
  <2>1. \A left \in 0..N : \A p \in SourcePaths :
            Loaded[left][p].ok <=> p \in Sources /\ left # 0 /\ ~FailsBelow(p, left)
    BY LoadedOk DEF N
  <2> QED
    BY <1>1, <2>1
<1> QED
  BY <1>2, FailsIffWritten
-----------------------------------------------------------------------------
(* Lists in order *)

(* s has the values of the elements of S, each behind those that come before it. *)
Tells(s, S, value, before) ==
    \E e \in [1..Len(s) -> S] :
        /\ \A a, b \in 1..Len(s) : a < b => <<e[a], e[b]>> \in before
        /\ \A x \in S : \E a \in 1..Len(s) : e[a] = x
        /\ \A a \in 1..Len(s) : s[a] = value[e[a]]

LEMMA TellsNothing ==
    ASSUME NEW value, NEW before PROVE Tells(<<>>, {}, value, before)
<1> DEFINE s == <<>>
           e == [a \in 1..Len(s) |-> a]
<1>1. Len(s) = 0 /\ \A a \in 1..Len(s) : FALSE
  OBVIOUS
<1>2. e \in [1..Len(s) -> {}]
  BY <1>1
<1> HIDE DEF e, s
<1>3. Tells(s, {}, value, before)
  BY <1>1, <1>2 DEF Tells
<1> QED
  BY <1>3 DEF s

LEMMA TellsOne ==
    ASSUME NEW value, NEW before, NEW x, NEW v, v = value[x]
    PROVE  Tells(<<v>>, {x}, value, before)
<1> DEFINE s == <<v>>
           e == [a \in 1..Len(s) |-> x]
<1>1. Len(s) = 1 /\ s[1] = v /\ (\A a \in 1..Len(s) : a = 1) /\ 1 \in 1..Len(s)
  OBVIOUS
<1>2. e \in [1..Len(s) -> {x}] /\ \A a \in 1..Len(s) : e[a] = x
  OBVIOUS
<1> HIDE DEF e, s
<1>3. \A a, b \in 1..Len(s) : ~(a < b)
  BY <1>1
<1>4. \A y \in {x} : \E a \in 1..Len(s) : e[a] = y
  BY <1>1, <1>2
<1>5. \A a \in 1..Len(s) : s[a] = value[e[a]]
  BY <1>1, <1>2
<1>6. Tells(s, {x}, value, before)
  BY <1>2, <1>3, <1>4, <1>5 DEF Tells
<1> QED
  BY <1>6 DEF s

LEMMA TellsBoth ==
    ASSUME NEW V, NEW s \in Seq(V), NEW t \in Seq(V), NEW S, NEW T, NEW value, NEW before,
           Tells(s, S, value, before), Tells(t, T, value, before),
           \A x \in S, y \in T : <<x, y>> \in before
    PROVE  Tells(s \o t, S \cup T, value, before)
<1> DEFINE m == Len(s)
           n == Len(t)
           u == s \o t
<1>1. m \in Nat /\ n \in Nat
  OBVIOUS
<1>2. Len(u) = m + n /\ \A i \in 1..m + n : u[i] = IF i <= m THEN s[i] ELSE t[i - m]
  BY ConcatProperties
<1>3. PICK e \in [1..m -> S] :
        /\ \A a, b \in 1..m : a < b => <<e[a], e[b]>> \in before
        /\ \A x \in S : \E a \in 1..m : e[a] = x
        /\ \A a \in 1..m : s[a] = value[e[a]]
  BY DEF Tells
<1>4. PICK f \in [1..n -> T] :
        /\ \A a, b \in 1..n : a < b => <<f[a], f[b]>> \in before
        /\ \A x \in T : \E a \in 1..n : f[a] = x
        /\ \A a \in 1..n : t[a] = value[f[a]]
  BY DEF Tells
<1> HIDE DEF m, n, u
<1> DEFINE g == [i \in 1..m + n |-> IF i <= m THEN e[i] ELSE f[i - m]]
<1>5. \A i \in 1..m + n : (i <= m /\ i \in 1..m) \/ (~(i <= m) /\ i - m \in 1..n)
  BY <1>1
<1>6. \A i \in 1..m : i \in 1..m + n /\ i <= m
  BY <1>1
<1>7. \A i \in 1..n : i + m \in 1..m + n /\ ~(i + m <= m) /\ (i + m) - m = i
  BY <1>1
<1>8. g \in [1..m + n -> S \cup T]
  BY <1>5
<1>9. \A i \in 1..m + n : g[i] = IF i <= m THEN e[i] ELSE f[i - m]
  OBVIOUS
<1> HIDE DEF g
<1>10. ASSUME NEW a \in 1..m + n, NEW b \in 1..m + n, a < b PROVE <<g[a], g[b]>> \in before
  <2>1. CASE b <= m
    <3>1. a \in 1..m /\ b \in 1..m /\ a <= m
      BY <1>1, <1>10, <2>1
    <3>2. g[a] = e[a] /\ g[b] = e[b]
      BY <1>9, <2>1, <3>1
    <3> QED
      BY <1>3, <1>10, <3>1, <3>2
  <2>2. CASE ~(b <= m) /\ a <= m
    <3>1. a \in 1..m /\ b - m \in 1..n
      BY <1>1, <2>2
    <3>2. g[a] = e[a] /\ g[b] = f[b - m] /\ e[a] \in S /\ f[b - m] \in T
      BY <1>9, <2>2, <3>1
    <3> QED
      BY <3>2
  <2>3. CASE ~(b <= m) /\ ~(a <= m)
    <3>1. a - m \in 1..n /\ b - m \in 1..n /\ a - m < b - m
      BY <1>1, <1>10, <2>3
    <3>2. g[a] = f[a - m] /\ g[b] = f[b - m]
      BY <1>9, <2>3
    <3> QED
      BY <1>4, <3>1, <3>2
  <2> QED
    BY <2>1, <2>2, <2>3
<1>11. \A x \in S \cup T : \E a \in 1..m + n : g[a] = x
  <2>1. ASSUME NEW x \in S PROVE \E a \in 1..m + n : g[a] = x
    <3>1. PICK a \in 1..m : e[a] = x
      BY <1>3
    <3>2. a \in 1..m + n /\ g[a] = x
      BY <1>6, <1>9, <3>1
    <3> QED
      BY <3>2
  <2>2. ASSUME NEW x \in T PROVE \E a \in 1..m + n : g[a] = x
    <3>1. PICK a \in 1..n : f[a] = x
      BY <1>4
    <3>2. a + m \in 1..m + n /\ g[a + m] = f[(a + m) - m] /\ (a + m) - m = a
      BY <1>7, <1>9
    <3>3. g[a + m] = x
      BY <3>1, <3>2
    <3> QED
      BY <3>2, <3>3
  <2> QED
    BY <2>1, <2>2
<1>12. ASSUME NEW a \in 1..m + n PROVE u[a] = value[g[a]]
  <2>1. CASE a <= m
    <3>1. a \in 1..m
      BY <1>1, <2>1
    <3>2. u[a] = s[a] /\ g[a] = e[a]
      BY <1>2, <1>9, <2>1
    <3> QED
      BY <1>3, <3>1, <3>2
  <2>2. CASE ~(a <= m)
    <3>1. a - m \in 1..n
      BY <1>1, <2>2
    <3>2. u[a] = t[a - m] /\ g[a] = f[a - m]
      BY <1>2, <1>9, <2>2
    <3> QED
      BY <1>4, <3>1, <3>2
  <2> QED
    BY <2>1, <2>2
<1>13. Tells(u, S \cup T, value, before)
  <2>1. g \in [1..Len(u) -> S \cup T]
    BY <1>2, <1>8
  <2>2. \A a, b \in 1..Len(u) : a < b => <<g[a], g[b]>> \in before
    BY <1>2, <1>10
  <2>3. \A x \in S \cup T : \E a \in 1..Len(u) : g[a] = x
    BY <1>2, <1>11
  <2>4. \A a \in 1..Len(u) : u[a] = value[g[a]]
    BY <1>2, <1>12
  <2> QED
    BY <2>1, <2>2, <2>3, <2>4 DEF Tells
<1> QED
  BY <1>13 DEF u

(* sorted has the elements of S by their rank, how many of S come before them. *)
OneWay(S, before) == \A x, y \in S : <<x, y>> \in before => <<y, x>> \notin before
Ranks(rank, S, before) ==
    \A x \in S : rank[x] = Cardinality({y \in S : <<y, x>> \in before})
ByRank(sorted, S, rank) ==
    sorted = [n \in 1..Cardinality(S) |-> CHOOSE x \in S : rank[x] = n - 1]
ValuesOf(s, sorted, S, value) ==
    /\ s = [n \in DOMAIN sorted |-> value[sorted[n]]]
    /\ \A n \in DOMAIN sorted : sorted[n] \in S

(* Where no two elements come before each other, the n-th has n - 1 before it. *)
LEMMA TellsByRank ==
    ASSUME NEW V, NEW s \in Seq(V), NEW S, NEW value, NEW before, NEW rank, NEW sorted,
           Tells(s, S, value, before), OneWay(S, before), Ranks(rank, S, before),
           ByRank(sorted, S, rank)
    PROVE  ValuesOf(s, sorted, S, value)
<1> DEFINE N == Len(s)
<1>1. PICK e \in [1..N -> S] :
        /\ \A a, b \in 1..N : a < b => <<e[a], e[b]>> \in before
        /\ \A x \in S : \E a \in 1..N : e[a] = x
        /\ \A a \in 1..N : s[a] = value[e[a]]
  BY DEF Tells
<1>2. N \in Nat /\ \A x, y \in S : <<x, y>> \in before => <<y, x>> \notin before
  BY DEF OneWay
<1> HIDE DEF N
<1>3. \A a, b \in 1..N : <<e[a], e[b]>> \in before => a < b
  <2> SUFFICES ASSUME NEW a \in 1..N, NEW b \in 1..N, <<e[a], e[b]>> \in before, ~(a < b)
               PROVE  FALSE
    OBVIOUS
  <2>1. e[a] \in S /\ e[b] \in S
    OBVIOUS
  <2>2. <<e[b], e[a]>> \notin before
    BY <1>2, <2>1
  <2>3. a = b \/ b < a
    BY <1>2
  <2> QED
    BY <1>1, <2>2, <2>3
<1>4. \A a, b \in 1..N : e[a] = e[b] => a = b
  <2> SUFFICES ASSUME NEW a \in 1..N, NEW b \in 1..N, e[a] = e[b], a < b PROVE FALSE
    BY <1>2
  <2>1. <<e[a], e[b]>> \in before
    BY <1>1
  <2>2. <<e[b], e[a]>> \in before
    BY <2>1
  <2>3. b < a
    BY <1>3, <2>2
  <2> QED
    BY <1>2, <2>3
<1>5. IsFiniteSet(S) /\ Cardinality(S) = N
  <2>1. e \in Bijection(1..N, S)
    BY <1>1, <1>4, Fun_IsBij
  <2>2. IsFiniteSet(1..N) /\ Cardinality(1..N) = N
    BY <1>2, FS_Interval
  <2> QED
    BY <2>1, <2>2, FS_Bijection DEF ExistsBijection
<1>6. ASSUME NEW a \in 1..N PROVE rank[e[a]] = a - 1
  <2> DEFINE T == {y \in S : <<y, e[a]>> \in before}
             f == [b \in 1..a - 1 |-> e[b]]
  <2>1. \A b \in 1..a - 1 : b \in 1..N /\ b < a
    BY <1>2
  <2>2. f \in [1..a - 1 -> T]
    <3> SUFFICES ASSUME NEW b \in 1..a - 1 PROVE e[b] \in T
      OBVIOUS
    <3>1. b \in 1..N /\ b < a
      BY <2>1
    <3> QED
      BY <1>1, <3>1
  <2>3. \A b, c \in 1..a - 1 : f[b] = f[c] => b = c
    BY <1>4, <2>1
  <2>4. ASSUME NEW y \in T PROVE \E b \in 1..a - 1 : f[b] = y
    <3>1. PICK b \in 1..N : e[b] = y
      BY <1>1
    <3>2. b < a
      BY <1>3, <3>1
    <3>3. b \in 1..a - 1
      BY <1>2, <3>2
    <3> QED
      BY <3>1, <3>3
  <2> HIDE DEF f, T
  <2>5. f \in Bijection(1..a - 1, T)
    BY <2>2, <2>3, <2>4, Fun_IsBij
  <2>6. IsFiniteSet(1..a - 1) /\ Cardinality(1..a - 1) = a - 1
    <3> DEFINE k == a - 1
    <3>1. k \in Nat
      BY <1>2
    <3> HIDE DEF k
    <3>2. PICK one \in Nat : one = 1
      OBVIOUS
    <3>3. IsFiniteSet(one..k) /\ Cardinality(one..k) = IF one > k THEN 0 ELSE k - one + 1
      BY <3>1, FS_Interval
    <3>4. IsFiniteSet(1..k) /\ Cardinality(1..k) = k
      BY <3>1, <3>2, <3>3
    <3> QED
      BY <3>4 DEF k
  <2>7. Cardinality(T) = a - 1
    BY <2>5, <2>6, FS_Bijection DEF ExistsBijection
  <2>8. e[a] \in S
    OBVIOUS
  <2> QED
    BY <2>7, <2>8 DEF T, Ranks
<1>7. ASSUME NEW n \in 1..N PROVE sorted[n] \in S /\ s[n] = value[sorted[n]]
  <2> DEFINE x == CHOOSE y \in S : rank[y] = n - 1
  <2>1. e[n] \in S /\ rank[e[n]] = n - 1
    BY <1>6
  <2>2. x \in S /\ rank[x] = n - 1
    BY <2>1
  <2>3. sorted[n] = x
    BY <1>5 DEF ByRank
  <2> HIDE DEF x
  <2>4. PICK a \in 1..N : e[a] = x
    BY <1>1, <2>2
  <2>5. a = n
    <3>1. a - 1 = n - 1
      BY <1>6, <2>2, <2>4
    <3> QED
      BY <1>2, <3>1
  <2>6. s[a] = value[e[a]]
    BY <1>1
  <2> QED
    BY <2>2, <2>3, <2>4, <2>5, <2>6
<1>8. DOMAIN sorted = 1..N
  BY <1>5 DEF ByRank
<1>9. s = [n \in 1..N |-> s[n]]
  BY DEF N
<1> QED
  BY <1>7, <1>8, <1>9 DEF ValuesOf

IndexOrder == {pair \in Nat \X Nat : pair[1] < pair[2]}
PlaceOrder == {pair \in Seq(Nat) \X Seq(Nat) : Before(pair[1], pair[2])}
Prefixed(n, S) == {<<n>> \o p : p \in S}

(* A place behind the line n. *)
LEMMA Behind ==
    ASSUME NEW n \in Nat, NEW p \in Seq(Nat)
    PROVE  LET q == <<n>> \o p
           IN  /\ q \in Seq(Nat) /\ Len(q) = Len(p) + 1 /\ q[1] = n
               /\ \A i \in 1..Len(p) : q[i + 1] = p[i]
               /\ Head(q) = n /\ Tail(q) = p
               /\ p # <<>> => Last(q) = Last(p)
<1> DEFINE one == <<n>>
           q == one \o p
           m == Len(p)
<1>1. one \in Seq(Nat) /\ Len(one) = 1 /\ one[1] = n
  OBVIOUS
<1>2. m \in Nat /\ (p # <<>> => m # 0)
  OBVIOUS
<1> HIDE DEF one
<1>3. /\ q \in Seq(Nat) /\ Len(q) = 1 + m
      /\ \A i \in 1..1 + m : q[i] = IF i <= 1 THEN one[i] ELSE p[i - 1]
  <2>1. /\ q \in Seq(Nat) /\ Len(q) = Len(one) + Len(p)
        /\ \A i \in 1..Len(one) + Len(p) :
                q[i] = IF i <= Len(one) THEN one[i] ELSE p[i - Len(one)]
    BY <1>1, ConcatProperties
  <2> QED
    BY <1>1, <2>1
<1> HIDE DEF q, m
<1>4. Len(q) = m + 1 /\ q[1] = n
  BY <1>1, <1>2, <1>3
<1>5. ASSUME NEW i \in 1..m PROVE q[i + 1] = p[i]
  <2>1. i + 1 \in 1..1 + m /\ ~(i + 1 <= 1) /\ (i + 1) - 1 = i
    BY <1>2
  <2> QED
    BY <1>3, <2>1
<1>6. q # <<>>
  BY <1>2, <1>4
<1>7. Head(q) = n
  BY <1>3, <1>4, <1>6
<1>8. Tail(q) = p
  <2>1. /\ Tail(q) \in Seq(Nat) /\ Len(Tail(q)) = Len(q) - 1
        /\ \A i \in 1..Len(Tail(q)) : Tail(q)[i] = q[i + 1]
    BY <1>3, <1>6, HeadTailProperties
  <2>2. Len(Tail(q)) = Len(p)
    BY <1>2, <1>4, <2>1 DEF m
  <2>3. \A i \in 1..Len(Tail(q)) : Tail(q)[i] = p[i]
    BY <1>5, <2>1, <2>2 DEF m
  <2> QED
    BY <2>1, <2>2, <2>3, SeqEqual
<1>9. ASSUME p # <<>> PROVE Last(q) = Last(p)
  <2>1. m \in 1..m
    BY <1>2, <1>9
  <2>2. q[m + 1] = p[m]
    BY <1>5, <2>1
  <2> QED
    BY <1>4, <2>2 DEF Last, m
<1> QED
  BY <1>3, <1>4, <1>5, <1>7, <1>8, <1>9 DEF q, one, m

LEMMA IsBehind ==
    ASSUME NEW q \in Seq(Nat), q # <<>>
    PROVE  Head(q) \in Nat /\ Tail(q) \in Seq(Nat) /\ q = <<Head(q)>> \o Tail(q)
<1>1. /\ Head(q) \in Nat /\ Tail(q) \in Seq(Nat) /\ Len(Tail(q)) = Len(q) - 1
      /\ \A i \in 1..Len(Tail(q)) : Tail(q)[i] = q[i + 1]
  BY HeadTailProperties
<1>2. Head(q) = q[1] /\ Len(q) \in Nat
  OBVIOUS
<1> DEFINE n == Head(q)
           t == Tail(q)
           p == <<n>> \o t
<1>3. n \in Nat /\ t \in Seq(Nat)
  BY <1>1
<1> HIDE DEF n, t
<1>4. /\ p \in Seq(Nat) /\ Len(p) = Len(t) + 1 /\ p[1] = n
      /\ \A i \in 1..Len(t) : p[i + 1] = t[i]
  BY <1>3, Behind
<1> HIDE DEF p
<1>5. Len(p) = Len(q)
  BY <1>1, <1>2, <1>4 DEF t
<1>6. ASSUME NEW i \in 1..Len(p) PROVE p[i] = q[i]
  <2>1. CASE i = 1
    BY <1>2, <1>4, <2>1 DEF n
  <2>2. CASE i # 1
    <3>1. i - 1 \in 1..Len(t) /\ (i - 1) + 1 = i
      BY <1>1, <1>2, <1>5, <2>2 DEF t
    <3>2. p[(i - 1) + 1] = t[i - 1] /\ t[i - 1] = q[(i - 1) + 1]
      BY <1>1, <1>4, <3>1 DEF t
    <3> QED
      BY <3>1, <3>2
  <2> QED
    BY <2>1, <2>2
<1>7. p = q
  BY <1>4, <1>5, <1>6, SeqEqual
<1> QED
  BY <1>1, <1>7 DEF p, n, t

LEMMA OrderedBehind ==
    ASSUME NEW n \in Nat, NEW p \in Seq(Nat), NEW q \in Seq(Nat), <<p, q>> \in PlaceOrder
    PROVE  << <<n>> \o p, <<n>> \o q>> \in PlaceOrder
<1> DEFINE a == <<n>> \o p
           b == <<n>> \o q
<1>1. PICK k \in DOMAIN p \cap DOMAIN q : p[k] < q[k] /\ \A m \in 1..k - 1 : p[m] = q[m]
  BY DEF PlaceOrder, Before
<1>2. DOMAIN p = 1..Len(p) /\ DOMAIN q = 1..Len(q) /\ Len(p) \in Nat /\ Len(q) \in Nat
  OBVIOUS
<1>3. /\ a \in Seq(Nat) /\ Len(a) = Len(p) + 1 /\ a[1] = n
      /\ \A i \in 1..Len(p) : a[i + 1] = p[i]
  BY Behind
<1>4. /\ b \in Seq(Nat) /\ Len(b) = Len(q) + 1 /\ b[1] = n
      /\ \A i \in 1..Len(q) : b[i + 1] = q[i]
  BY Behind
<1> HIDE DEF a, b
<1>5. DOMAIN a = 1..Len(a) /\ DOMAIN b = 1..Len(b)
  BY <1>3, <1>4
<1>6. k \in 1..Len(p) /\ k \in 1..Len(q) /\ k \in Nat
  BY <1>1, <1>2
<1>7. k + 1 \in DOMAIN a \cap DOMAIN b
  BY <1>2, <1>3, <1>4, <1>5, <1>6
<1>8. a[k + 1] < b[k + 1]
  BY <1>1, <1>3, <1>4, <1>6
<1>9. ASSUME NEW m \in 1..(k + 1) - 1 PROVE a[m] = b[m]
  <2>1. CASE m = 1
    BY <1>3, <1>4, <2>1
  <2>2. CASE m # 1
    <3>1. m - 1 \in 1..k - 1 /\ (m - 1) + 1 = m /\ m - 1 \in 1..Len(p) /\ m - 1 \in 1..Len(q)
      BY <1>2, <1>6, <2>2
    <3>2. a[(m - 1) + 1] = p[m - 1] /\ b[(m - 1) + 1] = q[m - 1]
      BY <1>3, <1>4, <3>1
    <3> QED
      BY <1>1, <3>1, <3>2
  <2> QED
    BY <2>1, <2>2
<1>10. Before(a, b)
  BY <1>7, <1>8, <1>9 DEF Before
<1> QED
  BY <1>3, <1>4, <1>10 DEF PlaceOrder, a, b

LEMMA OrderedByHead ==
    ASSUME NEW p \in Seq(Nat) \ {<<>>}, NEW q \in Seq(Nat) \ {<<>>}, Head(p) < Head(q)
    PROVE  <<p, q>> \in PlaceOrder
<1> PICK one \in Nat : one = 1
  OBVIOUS
<1>1. Head(p) = p[one] /\ Head(q) = q[one]
  OBVIOUS
<1>2. one \in DOMAIN p \cap DOMAIN q /\ \A m \in 1..one - 1 : p[m] = q[m]
  OBVIOUS
<1>3. Before(p, q)
  BY <1>1, <1>2 DEF Before
<1> QED
  BY <1>3 DEF PlaceOrder

LEMMA OrderedOneWay ==
    ASSUME NEW p \in Seq(Nat), NEW q \in Seq(Nat), <<p, q>> \in PlaceOrder
    PROVE  <<q, p>> \notin PlaceOrder
<1> SUFFICES ASSUME <<q, p>> \in PlaceOrder PROVE FALSE
  OBVIOUS
<1>1. PICK k \in DOMAIN p \cap DOMAIN q : p[k] < q[k] /\ \A m \in 1..k - 1 : p[m] = q[m]
  BY DEF PlaceOrder, Before
<1>2. PICK l \in DOMAIN p \cap DOMAIN q : q[l] < p[l] /\ \A m \in 1..l - 1 : q[m] = p[m]
  BY DEF PlaceOrder, Before
<1>3. k \in Nat /\ l \in Nat /\ k # 0 /\ l # 0
  OBVIOUS
<1>4. p[k] \in Nat /\ q[k] \in Nat /\ p[l] \in Nat /\ q[l] \in Nat
  OBVIOUS
<1>5. k < l => k \in 1..l - 1
  BY <1>3
<1>6. l < k => l \in 1..k - 1
  BY <1>3
<1>7. k = l \/ k < l \/ l < k
  BY <1>3
<1> QED
  BY <1>1, <1>2, <1>4, <1>5, <1>6, <1>7

LEMMA TellsAlike ==
    ASSUME NEW s, NEW S, NEW value, NEW other, NEW before, Tells(s, S, value, before),
           \A x \in S : value[x] = other[x]
    PROVE  Tells(s, S, other, before)
<1>1. PICK e \in [1..Len(s) -> S] :
        /\ \A a, b \in 1..Len(s) : a < b => <<e[a], e[b]>> \in before
        /\ \A x \in S : \E a \in 1..Len(s) : e[a] = x
        /\ \A a \in 1..Len(s) : s[a] = value[e[a]]
  BY DEF Tells
<1>2. \A a \in 1..Len(s) : s[a] = other[e[a]]
  BY <1>1
<1> QED
  BY <1>1, <1>2 DEF Tells

LEMMA TellsBehind ==
    ASSUME NEW s, NEW S \in SUBSET Seq(Nat), NEW value, NEW n \in Nat, NEW other,
           Tells(s, S, value, PlaceOrder), \A p \in S : other[<<n>> \o p] = value[p]
    PROVE  Tells(s, Prefixed(n, S), other, PlaceOrder)
<1> DEFINE D == 1..Len(s)
<1>1. PICK e \in [D -> S] :
        /\ \A a, b \in D : a < b => <<e[a], e[b]>> \in PlaceOrder
        /\ \A x \in S : \E a \in D : e[a] = x
        /\ \A a \in D : s[a] = value[e[a]]
  BY DEF Tells
<1> HIDE DEF D
<1> DEFINE g == [a \in D |-> <<n>> \o e[a]]
           P == Prefixed(n, S)
<1>2. g \in [D -> P] /\ \A a \in D : g[a] = <<n>> \o e[a]
  <2>1. \A a \in D : <<n>> \o e[a] \in P
    BY DEF Prefixed
  <2> HIDE DEF P
  <2> QED
    BY <2>1
<1> HIDE DEF g
<1>3. \A a \in D : e[a] \in S /\ e[a] \in Seq(Nat)
  OBVIOUS
<1>4. \A a, b \in D : a < b => <<g[a], g[b]>> \in PlaceOrder
  BY <1>1, <1>2, <1>3, OrderedBehind
<1>5. ASSUME NEW x \in P PROVE \E a \in D : g[a] = x
  <2>1. PICK p \in S : x = <<n>> \o p
    BY DEF Prefixed
  <2>2. PICK a \in D : e[a] = p
    BY <1>1
  <2>3. g[a] = x
    BY <1>2, <2>1, <2>2
  <2> QED
    BY <2>3
<1>6. \A a \in D : s[a] = other[g[a]]
  BY <1>1, <1>2, <1>3
<1> HIDE DEF P
<1>7. Tells(s, P, other, PlaceOrder)
  BY <1>2, <1>4, <1>5, <1>6 DEF Tells, D
<1> QED
  BY <1>7 DEF P

(* A list that tells S is what the elements of S in order have for values. *)
LEMMA PlacesSorted ==
    ASSUME NEW V, NEW s \in Seq(V), NEW S \in SUBSET Seq(Nat), NEW value,
           Tells(s, S, value, PlaceOrder)
    PROVE  ValuesOf(s, Sorted(S, Before), S, value)
<1> DEFINE rank == [x \in S |-> Cardinality({y \in S : Before(y, x)})]
           places == Sorted(S, Before)
<1>1. Ranks(rank, S, PlaceOrder)
  <2>1. ASSUME NEW x \in S
        PROVE  {y \in S : Before(y, x)} = {y \in S : <<y, x>> \in PlaceOrder}
    BY DEF PlaceOrder
  <2> QED
    BY <2>1 DEF Ranks
<1>2. ByRank(places, S, rank)
  BY DEF Sorted, ByRank
<1>3. OneWay(S, PlaceOrder)
  BY OrderedOneWay DEF OneWay
<1> HIDE DEF rank, places
<1>4. ValuesOf(s, places, S, value)
  BY <1>1, <1>2, <1>3, TellsByRank
<1> QED
  BY <1>4 DEF places

LEMMA IndicesSorted ==
    ASSUME NEW V, NEW s \in Seq(V), NEW S \in SUBSET Nat, NEW value,
           Tells(s, S, value, IndexOrder)
    PROVE  ValuesOf(s, Sorted(S, <), S, value)
<1> DEFINE rank == [x \in S |-> Cardinality({y \in S : y < x})]
           indices == Sorted(S, <)
<1>1. Ranks(rank, S, IndexOrder)
  <2>1. ASSUME NEW x \in S
        PROVE  {y \in S : y < x} = {y \in S : <<y, x>> \in IndexOrder}
    BY DEF IndexOrder
  <2> QED
    BY <2>1 DEF Ranks
<1>2. ByRank(indices, S, rank)
  BY DEF Sorted, ByRank
<1>3. OneWay(S, IndexOrder)
  BY DEF IndexOrder, OneWay
<1> HIDE DEF rank, indices
<1>4. ValuesOf(s, indices, S, value)
  BY <1>1, <1>2, <1>3, TellsByRank
<1> QED
  BY <1>4 DEF indices
-----------------------------------------------------------------------------
(* What is read below a file *)

(* The file of a place behind an include is the place's file below what it includes. *)
LEMMA FileAtBehind ==
    ASSUME LinesTyped, NEW path \in SourcePaths, NEW n \in Nat,
           NEW p \in Seq(Nat), p # <<>>
    PROVE  /\ SourceAt(path, <<n>> \o p) = SourceAt(Follow(path, n), p)
           /\ SourceAt(path, <<n>> \o p) \in SourcePaths
<1> DEFINE depth == Len(p)
           q == <<n>> \o p
           next == Follow(path, n)
<1>1. depth \in Nat \ {0} /\ p \in [1..depth -> Nat]
  OBVIOUS
<1>2. q \in Seq(Nat) /\ Len(q) = depth + 1 /\ q[1] = n /\ \A i \in 1..depth : q[i + 1] = p[i]
  BY Behind
<1>3. next \in SourcePaths
  BY FollowIsPath
<1> HIDE DEF depth, q, next
<1>4. PICK files \in [0..depth - 1 -> SourcePaths] :
        /\ files[0] = next
        /\ \A i \in 1..depth - 1 : files[i] = Follow(files[i - 1], p[i])
        /\ SourceAt(next, p) = files[depth - 1]
  <2>1. PassesFiles(next, p, depth)
    BY <1>1, <1>3, FilesAtPlace
  <2> QED
    BY <2>1 DEF PassesFiles
<1> DEFINE over == [i \in 0..depth |-> IF i = 0 THEN path ELSE files[i - 1]]
<1>5. over \in [0..depth -> SourcePaths]
  <2>1. \A i \in 0..depth : i # 0 => i - 1 \in 0..depth - 1
    BY <1>1
  <2> QED
    BY <2>1
<1>6. over[0] = path /\ \A i \in 1..depth : over[i] = files[i - 1]
  BY <1>1
<1> HIDE DEF over
<1>7. q \in [1..depth + 1 -> Nat]
  BY <1>2
<1>8. ASSUME NEW i \in 1..depth PROVE over[i] = Follow(over[i - 1], q[i])
  <2>1. CASE i = 1
    <3>1. over[i] = next /\ over[i - 1] = path /\ q[i] = n
      BY <1>2, <1>4, <1>6, <2>1
    <3> QED
      BY <3>1 DEF next
  <2>2. CASE i # 1
    <3>1. i - 1 \in 1..depth - 1 /\ i - 1 \in 1..depth /\ (i - 1) + 1 = i
      BY <1>1, <2>2
    <3>2. over[i] = files[i - 1] /\ over[i - 1] = files[(i - 1) - 1]
      BY <1>6, <3>1
    <3>3. q[(i - 1) + 1] = p[i - 1]
      BY <1>2, <3>1
    <3>4. files[i - 1] = Follow(files[(i - 1) - 1], p[i - 1])
      BY <1>4, <3>1
    <3> QED
      BY <3>1, <3>2, <3>3, <3>4
  <2> QED
    BY <2>1, <2>2
<1>9. /\ depth + 1 \in Nat \ {0} /\ (depth + 1) - 1 = depth /\ depth \in 1..depth
      /\ depth - 1 \in 0..depth - 1
  BY <1>1
<1>10. SourceAt(path, q) = over[depth]
  <2> DEFINE d == depth + 1
  <2>1. d \in Nat \ {0} /\ d - 1 = depth
    BY <1>9
  <2> HIDE DEF d
  <2>2. q \in [1..d -> Nat] /\ over \in [0..d - 1 -> SourcePaths]
    BY <1>5, <1>7, <2>1 DEF d
  <2>3. \A i \in 1..d - 1 : over[i] = Follow(over[i - 1], q[i])
    BY <1>8, <2>1
  <2>4. SourceAt(path, q) = over[d - 1]
    BY <1>6, <2>1, <2>2, <2>3, FileAtIs
  <2> QED
    BY <2>1, <2>4
<1>11. over[depth] = files[depth - 1] /\ files[depth - 1] \in SourcePaths
  BY <1>4, <1>6, <1>9
<1> QED
  BY <1>4, <1>10, <1>11 DEF q, next

LEMMA FileAtFirst ==
    ASSUME LinesTyped, NEW path \in SourcePaths, NEW n \in Nat
    PROVE  SourceAt(path, <<n>>) = path
<1> PICK one \in Nat : one = 1
  OBVIOUS
<1> DEFINE q == <<n>>
           files == [i \in 0..one - 1 |-> path]
<1>1. q \in [1..one -> Nat] /\ files \in [0..one - 1 -> SourcePaths] /\ one \in Nat \ {0}
  OBVIOUS
<1>2. files[0] = path /\ files[one - 1] = path /\ \A i \in 1..one - 1 : FALSE
  OBVIOUS
<1> HIDE DEF q, files
<1>3. \A i \in 1..one - 1 : files[i] = Follow(files[i - 1], q[i])
  BY <1>2
<1>4. SourceAt(path, q) = files[one - 1]
  <2>1. files[0] = path
    BY <1>2
  <2> QED
    BY <1>1, <1>3, <2>1, FileAtIs
<1> QED
  BY <1>2, <1>4 DEF q

(* The places that are read below a file, with includes nested at most left deep. *)
Below(path, left) ==
    {p \in Seq(Nat) :
        /\ p # <<>> /\ Len(p) <= left
        /\ SourceAt(path, p) \in Sources /\ Last(p) \in DOMAIN LinesOf(SourceAt(path, p))}

LEMMA NothingBelowNoFile ==
    ASSUME LinesTyped, NEW path \in SourcePaths, NEW p \in Seq(Nat), p # <<>>,
           SourceAt(path, p) \in Sources, Last(p) \in DOMAIN LinesOf(SourceAt(path, p))
    PROVE  path \in Sources
<1> DEFINE depth == Len(p)
<1>1. depth \in Nat \ {0} /\ p \in [1..depth -> Nat] /\ Last(p) = p[depth]
  BY DEF Last
<1> HIDE DEF depth
<1>2. PICK files \in [0..depth - 1 -> SourcePaths] :
        /\ files[0] = path
        /\ \A i \in 1..depth - 1 : files[i] = Follow(files[i - 1], p[i])
        /\ SourceAt(path, p) = files[depth - 1]
  <2>1. PassesFiles(path, p, depth)
    BY <1>1, FilesAtPlace
  <2> QED
    BY <2>1 DEF PassesFiles
<1>3. Leads(path, p, files, depth)
  BY <1>1, <1>2 DEF Leads
<1>4. OverFiles(p, files, depth)
  BY <1>1, <1>3, WayIsOverFiles
<1>5. 0 \in 0..depth - 1
  BY <1>1
<1> QED
  BY <1>2, <1>4, <1>5 DEF OverFiles

(* Below a file are its lines, and below those that include what their files hold. *)
LEMMA BelowSplit ==
    ASSUME LinesTyped, NEW path \in Sources, NEW left \in Nat \ {0}, NEW p
    PROVE  p \in Below(path, left) <=>
             \E n \in 1..Len(LinesOf(path)) :
                \/ p = <<n>>
                \/ /\ IsInclude(LinesOf(path)[n])
                   /\ p \in Prefixed(n, Below(LinesOf(path)[n].path, left - 1))
<1>1. path \in SourcePaths
  BY DEF SourcePaths, Sources, FilePaths
<1>2. DOMAIN LinesOf(path) = 1..Len(LinesOf(path)) /\ Len(LinesOf(path)) \in Nat
  <2>1. LinesOf(path) \in Seq(SourceLine)
    BY DEF LinesTyped
  <2> QED
    BY <2>1
<1>3. ASSUME p \in Below(path, left)
      PROVE  \E n \in 1..Len(LinesOf(path)) :
                \/ p = <<n>>
                \/ /\ IsInclude(LinesOf(path)[n])
                   /\ p \in Prefixed(n, Below(LinesOf(path)[n].path, left - 1))
  <2> DEFINE n == Head(p)
             q == Tail(p)
  <2>1. /\ p \in Seq(Nat) /\ p # <<>> /\ Len(p) <= left
        /\ SourceAt(path, p) \in Sources /\ Last(p) \in DOMAIN LinesOf(SourceAt(path, p))
    BY <1>3 DEF Below
  <2>2. n \in Nat /\ q \in Seq(Nat) /\ p = <<n>> \o q
    BY <2>1, IsBehind
  <2> HIDE DEF n, q
  <2>3. Len(p) = Len(q) + 1 /\ (q # <<>> => Last(p) = Last(q))
    BY <2>2, Behind
  <2>4. CASE q = <<>>
    <3>1. p = <<n>>
      BY <2>2, <2>4
    <3>2. SourceAt(path, p) = path
      BY <1>1, <2>2, <3>1, FileAtFirst
    <3>3. Last(p) = n
      BY <3>1 DEF Last
    <3>4. n \in 1..Len(LinesOf(path))
      BY <1>2, <2>1, <3>2, <3>3
    <3> QED
      BY <3>1, <3>4
  <2>5. CASE q # <<>>
    <3> DEFINE next == Follow(path, n)
    <3>1. SourceAt(path, p) = SourceAt(next, q) /\ next \in SourcePaths
      BY <1>1, <2>2, <2>5, FileAtBehind, FollowIsPath
    <3> HIDE DEF next
    <3>2. SourceAt(next, q) \in Sources /\ Last(q) \in DOMAIN LinesOf(SourceAt(next, q))
      BY <2>1, <2>3, <2>5, <3>1
    <3>3. next \in Sources
      BY <2>2, <2>5, <3>1, <3>2, NothingBelowNoFile
    <3>4. n \in DOMAIN LinesOf(path) /\ IsInclude(LinesOf(path)[n]) /\ next = LinesOf(path)[n].path
      BY <1>1, <2>2, <3>3, FollowIsPath DEF next
    <3>5. Len(q) <= left - 1
      BY <2>1, <2>2, <2>3
    <3>6. q \in Below(next, left - 1)
      BY <2>2, <2>5, <3>2, <3>5 DEF Below
    <3>7. p \in Prefixed(n, Below(next, left - 1))
      BY <2>2, <3>6 DEF Prefixed
    <3> QED
      BY <1>2, <3>4, <3>7
  <2> QED
    BY <2>4, <2>5
<1>4. ASSUME NEW n \in 1..Len(LinesOf(path)), p = <<n>> PROVE p \in Below(path, left)
  <2>1. n \in Nat /\ p \in Seq(Nat) /\ p # <<>> /\ Len(p) <= left /\ Last(p) = n
    BY <1>2, <1>4 DEF Last
  <2>2. SourceAt(path, p) = path
    BY <1>1, <1>4, <2>1, FileAtFirst
  <2> QED
    BY <1>2, <2>1, <2>2 DEF Below
<1>5. ASSUME NEW n \in 1..Len(LinesOf(path)), IsInclude(LinesOf(path)[n]),
             p \in Prefixed(n, Below(LinesOf(path)[n].path, left - 1))
      PROVE  p \in Below(path, left)
  <2> DEFINE next == LinesOf(path)[n].path
  <2>1. n \in Nat /\ n \in DOMAIN LinesOf(path)
    BY <1>2
  <2>2. Follow(path, n) = next
    BY <1>5, <2>1 DEF Follow
  <2>3. PICK q \in Below(next, left - 1) : p = <<n>> \o q
    BY <1>5 DEF Prefixed
  <2> HIDE DEF next
  <2>4. /\ q \in Seq(Nat) /\ q # <<>> /\ Len(q) <= left - 1
        /\ SourceAt(next, q) \in Sources /\ Last(q) \in DOMAIN LinesOf(SourceAt(next, q))
    BY DEF Below
  <2>5. p \in Seq(Nat) /\ Len(p) = Len(q) + 1 /\ Last(p) = Last(q)
    BY <2>1, <2>3, <2>4, Behind
  <2>6. p # <<>> /\ Len(p) <= left
    BY <2>4, <2>5
  <2>7. SourceAt(path, p) = SourceAt(next, q)
    BY <1>1, <2>1, <2>2, <2>3, <2>4, FileAtBehind
  <2> QED
    BY <2>4, <2>5, <2>6, <2>7 DEF Below
<1> QED
  BY <1>3, <1>4, <1>5

(* The line at a place, one include further. *)
LEMMA LineAtBehind ==
    ASSUME LinesTyped, NEW path \in Sources, NEW n \in 1..Len(LinesOf(path))
    PROVE  /\ LineAt(path, <<n>>) = LinesOf(path)[n]
           /\ IsInclude(LinesOf(path)[n]) =>
                \A p \in Seq(Nat) \ {<<>>} :
                    LineAt(path, <<n>> \o p) = LineAt(LinesOf(path)[n].path, p)
<1>1. path \in SourcePaths
  BY DEF SourcePaths, Sources, FilePaths
<1>2. n \in DOMAIN LinesOf(path) /\ n \in Nat
  <2>1. LinesOf(path) \in Seq(SourceLine)
    BY DEF LinesTyped
  <2> QED
    BY <2>1
<1>3. LineAt(path, <<n>>) = LinesOf(path)[n]
  <2>1. Last(<<n>>) = n
    BY DEF Last
  <2>2. SourceAt(path, <<n>>) = path
    BY <1>1, <1>2, FileAtFirst
  <2> QED
    BY <2>1, <2>2 DEF LineAt
<1>4. ASSUME IsInclude(LinesOf(path)[n]), NEW p \in Seq(Nat) \ {<<>>}
      PROVE  LineAt(path, <<n>> \o p) = LineAt(LinesOf(path)[n].path, p)
  <2>1. Follow(path, n) = LinesOf(path)[n].path
    BY <1>2, <1>4 DEF Follow
  <2>2. SourceAt(path, <<n>> \o p) = SourceAt(LinesOf(path)[n].path, p)
    BY <1>1, <1>2, <2>1, FileAtBehind
  <2>3. Last(<<n>> \o p) = Last(p)
    BY <1>2, Behind
  <2> QED
    BY <2>2, <2>3 DEF LineAt
<1> QED
  BY <1>3, <1>4
-----------------------------------------------------------------------------
(* What a line is read as *)

LEMMA TakenWhole ==
    ASSUME NEW line \in LineSpace, NEW token \in Token, Take(line, token).ok
    PROVE  LET taken == Take(line, token)
           IN  /\ line.ok
               /\ taken.matchers = IF Matching(token)
                                   THEN Append(line.matchers, token.matcher)
                                   ELSE line.matchers
               /\ taken.priority = IF token.kind = "priority"
                                   THEN token.priority ELSE line.priority
<1> DEFINE taken == Take(line, token)
           added == Append(line.matchers, token.matcher)
<1>1. Matching(token) <=> token.kind \in {"network", "host"}
  BY DEF Matching
<1>2. [line EXCEPT !.ok = FALSE].ok = FALSE
  BY DEF LineSpace
<1>3. /\ line.ok /\ token.valid
      /\ \/ /\ token.kind \in {"network", "host"}
            /\ taken = [line EXCEPT !.matchers = added]
         \/ token.kind = "action" /\ taken = [line EXCEPT !.acts = TRUE]
         \/ token.kind = "priority" /\ taken = [line EXCEPT !.priority = token.priority]
         \/ token.kind = "option" /\ taken = line
  BY <1>2 DEF Take
<1>4. CASE token.kind \in {"network", "host"} /\ taken = [line EXCEPT !.matchers = added]
  <2>1. taken.matchers = added /\ taken.priority = line.priority
    BY <1>4 DEF LineSpace
  <2> QED
    BY <1>1, <1>3, <1>4, <2>1
<1>5. CASE token.kind = "action" /\ taken = [line EXCEPT !.acts = TRUE]
  <2>1. taken.matchers = line.matchers /\ taken.priority = line.priority
    BY <1>5 DEF LineSpace
  <2> QED
    BY <1>1, <1>3, <1>5, <2>1
<1>6. CASE token.kind = "priority" /\ taken = [line EXCEPT !.priority = token.priority]
  <2>1. taken.matchers = line.matchers /\ taken.priority = token.priority
    BY <1>6 DEF LineSpace
  <2> QED
    BY <1>1, <1>3, <1>6, <2>1
<1>7. CASE token.kind = "option" /\ taken = line
  BY <1>1, <1>3, <1>7
<1> QED
  BY <1>3, <1>4, <1>5, <1>6, <1>7

MatcherAt(tokens) == [i \in Nat |-> tokens[i].matcher]
MatchingUpto(tokens, n) == {i \in 1..n : Matching(tokens[i])}
PrioritiesUpto(tokens, n) == {i \in 1..n : tokens[i].kind = "priority"}
PriorityUpto(tokens, n) ==
    LET set == PrioritiesUpto(tokens, n)
    IN  IF set = {} THEN 0 ELSE tokens[Max(set)].priority

(* What n tokens leave, if all of them are taken: their matchers in order, and the
   last priority.                                                             *)
ReadUpto(tokens, n, line) ==
    /\ Tells(line.matchers, MatchingUpto(tokens, n), MatcherAt(tokens), IndexOrder)
    /\ line.priority = PriorityUpto(tokens, n)

LEMMA TokenRead ==
    ASSUME NEW tokens \in Seq(Token), NEW n \in 1..Len(tokens), NEW line \in LineSpace,
           ReadUpto(tokens, n - 1, line), Take(line, tokens[n]).ok
    PROVE  ReadUpto(tokens, n, Take(line, tokens[n]))
<1> DEFINE token == tokens[n]
           taken == Take(line, token)
<1>1. token \in Token /\ n \in Nat
  BY ElementOfSeq
<1>2. \A i : i \in 1..n <=> i \in 1..n - 1 \/ i = n
  BY <1>1
<1>3. \A i \in 1..n - 1 : i < n /\ i \in Nat
  BY <1>1
<1>4. /\ taken.matchers = IF Matching(token) THEN Append(line.matchers, token.matcher)
                          ELSE line.matchers
      /\ taken.priority = IF token.kind = "priority" THEN token.priority ELSE line.priority
  BY <1>1, TakenWhole
<1>5. Tells(taken.matchers, MatchingUpto(tokens, n), MatcherAt(tokens), IndexOrder)
  <2> DEFINE S == MatchingUpto(tokens, n - 1)
  <2>1. Tells(line.matchers, S, MatcherAt(tokens), IndexOrder)
    BY DEF ReadUpto
  <2>2. CASE ~Matching(token)
    <3>1. MatchingUpto(tokens, n) = S
      BY <1>2, <2>2 DEF MatchingUpto
    <3> QED
      BY <1>4, <2>1, <2>2, <3>1
  <2>3. CASE Matching(token)
    <3>1. MatchingUpto(tokens, n) = S \cup {n}
      BY <1>2, <2>3 DEF MatchingUpto
    <3>2. S \subseteq 1..n - 1
      BY DEF MatchingUpto
    <3> DEFINE m == token.matcher
    <3>3. m \in Matcher
      BY <1>1, <2>3 DEF Matching, Token, Matcher
    <3>4. line.matchers \in Seq(Matcher)
      BY DEF LineSpace
    <3>5. m = MatcherAt(tokens)[n]
      BY <1>1 DEF MatcherAt
    <3> HIDE DEF m, S
    <3>6. Tells(<<m>>, {n}, MatcherAt(tokens), IndexOrder)
      BY <3>5, TellsOne
    <3>7. <<m>> \in Seq(Matcher)
      BY <3>3
    <3>8. \A x \in S, y \in {n} : <<x, y>> \in IndexOrder
      BY <1>1, <1>3, <3>2 DEF IndexOrder
    <3>9. Tells(line.matchers \o <<m>>, S \cup {n}, MatcherAt(tokens), IndexOrder)
      BY <2>1, <3>4, <3>6, <3>7, <3>8, TellsBoth
    <3>10. Append(line.matchers, m) = line.matchers \o <<m>>
      BY <3>3, <3>4, AppendIsConcat
    <3> QED
      BY <1>4, <2>3, <3>1, <3>9, <3>10 DEF m
  <2> QED
    BY <2>2, <2>3
<1>6. taken.priority = PriorityUpto(tokens, n)
  <2> DEFINE T == PrioritiesUpto(tokens, n - 1)
             U == PrioritiesUpto(tokens, n)
  <2>1. line.priority = PriorityUpto(tokens, n - 1)
    BY DEF ReadUpto
  <2>2. CASE token.kind # "priority"
    <3>1. U = T
      BY <1>2, <2>2 DEF PrioritiesUpto
    <3> QED
      BY <1>4, <2>1, <2>2, <3>1 DEF PriorityUpto
  <2>3. CASE token.kind = "priority"
    <3>1. n \in U /\ \A i \in U : i \in Nat /\ n >= i
      BY <1>1, <1>2, <1>3, <2>3 DEF PrioritiesUpto
    <3> HIDE DEF U
    <3>2. \A x \in U : (\A y \in U : x >= y) => x = n
      BY <1>1, <3>1
    <3>3. Max(U) = n
      BY <3>1, <3>2 DEF Max
    <3> QED
      BY <1>4, <2>3, <3>1, <3>3 DEF PriorityUpto, U
  <2> QED
    BY <2>2, <2>3
<1> QED
  BY <1>5, <1>6 DEF ReadUpto

(* parse_rule_line: a well-formed line becomes the rule that is written there. *)
LEMMA RuleLineReads ==
    ASSUME NEW tokens \in Seq(Token)
    PROVE  /\ ParseRuleLine(tokens).rules = IF WellFormed(tokens) THEN <<Written(tokens)>>
                                            ELSE <<>>
           /\ ParseRuleLine(tokens).excludes = {}
<1> DEFINE N == Len(tokens)
<1>1. N \in Nat /\ DOMAIN tokens = 1..N /\ \A n \in 1..N : tokens[n] \in Token
  BY ElementOfSeq
<1>2. PICK upto :
        /\ upto[0] = Blank /\ \A n \in 0..N : upto[n] \in LineSpace
        /\ \A n \in 1..N : upto[n] = Take(upto[n - 1], tokens[n])
        /\ ParseRuleLine(tokens) = IF Accepted(upto[N]) THEN Line(upto[N]) ELSE Problem
  BY TokensTaken
<1> DEFINE line == upto[N]
           Kept == {n \in 0..N : upto[n].ok => ReadUpto(tokens, n, upto[n])}
<1>3. 0 \in Kept
  <2>1. upto[0].matchers = <<>> /\ upto[0].priority = 0
    BY <1>2 DEF Blank
  <2>2. MatchingUpto(tokens, 0) = {} /\ PrioritiesUpto(tokens, 0) = {}
    BY DEF MatchingUpto, PrioritiesUpto
  <2>3. Tells(<<>>, {}, MatcherAt(tokens), IndexOrder)
    BY TellsNothing
  <2>4. ReadUpto(tokens, 0, upto[0])
    BY <2>1, <2>2, <2>3 DEF ReadUpto, PriorityUpto
  <2> QED
    BY <1>1, <2>4
<1>4. ASSUME NEW n \in 1..N, n - 1 \in Kept PROVE n \in Kept
  <2>1. n \in 0..N /\ n - 1 \in 0..N
    BY <1>1, StepBefore
  <2>2. upto[n - 1] \in LineSpace /\ upto[n] = Take(upto[n - 1], tokens[n])
    BY <1>2, <2>1
  <2>3. tokens[n] \in Token
    BY <1>1
  <2>4. ASSUME upto[n].ok PROVE ReadUpto(tokens, n, upto[n])
    <3>1. upto[n - 1].ok
      BY <2>2, <2>3, <2>4, TakenWhole
    <3>2. ReadUpto(tokens, n - 1, upto[n - 1])
      BY <1>4, <3>1
    <3> QED
      BY <2>2, <2>4, <3>2, TokenRead
  <2> QED
    BY <2>1, <2>4
<1>5. \A n \in 0..N : n \in Kept
  <2>1. Kept \in SUBSET (0..N)
    OBVIOUS
  <2> HIDE DEF Kept, N
  <2> QED
    BY <1>1, <1>3, <1>4, <2>1, LoopKeeps
<1>6. line \in LineSpace /\ (line.ok => ReadUpto(tokens, N, line))
  <2>1. N \in 0..N
    BY <1>1
  <2> QED
    BY <1>2, <1>5, <2>1
<1>7. Accepted(line) <=> WellFormed(tokens)
  <2>1. Line(line).ok = TRUE /\ Problem.ok = FALSE
    BY DEF Line, Problem, Nothing
  <2>2. ParseRuleLine(tokens).ok <=> WellFormed(tokens)
    BY RuleLineOk
  <2> QED
    BY <1>2, <2>1, <2>2
<1> HIDE DEF line
<1>8. ASSUME line.ok
      PROVE  [priority |-> line.priority, matchers |-> line.matchers] = Written(tokens)
  <2> DEFINE S == {i \in DOMAIN tokens : Matching(tokens[i])}
             indices == Sorted(S, <)
             priorities == {i \in DOMAIN tokens : tokens[i].kind = "priority"}
  <2>1. S = MatchingUpto(tokens, N) /\ priorities = PrioritiesUpto(tokens, N)
    BY <1>1 DEF MatchingUpto, PrioritiesUpto
  <2>2. S \in SUBSET Nat
    BY <1>1
  <2>3. Written(tokens) =
            [priority |-> IF priorities = {} THEN 0 ELSE tokens[Max(priorities)].priority,
             matchers |-> [n \in DOMAIN indices |-> tokens[indices[n]].matcher]]
    BY DEF Written
  <2> HIDE DEF S, priorities, N
  <2>4. line.priority = IF priorities = {} THEN 0 ELSE tokens[Max(priorities)].priority
    BY <1>6, <1>8, <2>1 DEF ReadUpto, PriorityUpto
  <2>5. line.matchers \in Seq(Matcher)
    BY <1>6 DEF LineSpace
  <2>6. Tells(line.matchers, S, MatcherAt(tokens), IndexOrder)
    BY <1>6, <1>8, <2>1 DEF ReadUpto
  <2>7. /\ line.matchers = [n \in DOMAIN indices |-> MatcherAt(tokens)[indices[n]]]
        /\ \A n \in DOMAIN indices : indices[n] \in S
    BY <2>2, <2>5, <2>6, IndicesSorted DEF ValuesOf
  <2> HIDE DEF indices
  <2>8. \A n \in DOMAIN indices : MatcherAt(tokens)[indices[n]] = tokens[indices[n]].matcher
    BY <2>2, <2>7 DEF MatcherAt
  <2>9. line.matchers = [n \in DOMAIN indices |-> tokens[indices[n]].matcher]
    BY <2>7, <2>8
  <2> QED
    BY <2>3, <2>4, <2>9
<1>9. Problem.rules = <<>> /\ Problem.excludes = {}
  BY DEF Problem, Nothing
<1>10. /\ Line(line).rules = <<[priority |-> line.priority, matchers |-> line.matchers]>>
       /\ Line(line).excludes = {}
  BY DEF Line, Nothing
<1>11. Accepted(line) => line.ok
  BY DEF Accepted
<1>12. ParseRuleLine(tokens) = IF Accepted(line) THEN Line(line) ELSE Problem
  BY <1>2 DEF line
<1> QED
  BY <1>7, <1>8, <1>9, <1>10, <1>11, <1>12

(* A line that becomes a rule, or an excluded name. *)
Sound(line, kind) == line.kind = kind /\ ~LineFails(line, FALSE)
EntryOf(line) == [text |-> line.text, subdomains_only |-> line.subdomains_only]

LEMMA LineReads ==
    ASSUME NEW line \in SourceLine, NEW included, ~IsInclude(line)
    PROVE  LET read == LineRead(line, included)
           IN  /\ read.rules = IF Sound(line, "rule") THEN <<Written(line.tokens)>> ELSE <<>>
               /\ read.excludes = IF Sound(line, "entry") THEN {EntryOf(line)} ELSE {}
<1>1. CASE line.kind = "rule"
  <2>1. LineRead(line, included) = ParseRuleLine(line.tokens)
    BY <1>1 DEF LineRead
  <2>2. line.tokens \in Seq(Token)
    BY <1>1 DEF SourceLine
  <2>3. (Sound(line, "rule") <=> WellFormed(line.tokens)) /\ ~Sound(line, "entry")
    BY <1>1 DEF Sound, LineFails
  <2> QED
    BY <2>1, <2>2, <2>3, RuleLineReads
<1>2. CASE line.kind # "rule"
  <2>1. LineRead(line, included) = ReadExcludeLine(line)
    BY <1>2 DEF LineRead
  <2>2. line.kind \in {"entry", "junk"}
    BY <1>2 DEF SourceLine, IsInclude
  <2>3. /\ Nothing.rules = <<>> /\ Nothing.excludes = {}
        /\ [Nothing EXCEPT !.excludes = {EntryOf(line)}].rules = <<>>
        /\ [Nothing EXCEPT !.excludes = {EntryOf(line)}].excludes = {EntryOf(line)}
    BY DEF Nothing, Problem
  <2>4. ReadExcludeLine(line) = IF line.kind = "entry"
                                THEN [Nothing EXCEPT !.excludes = {EntryOf(line)}]
                                ELSE Nothing
    BY DEF ReadExcludeLine, EntryOf
  <2>5. ~Sound(line, "rule")
    BY <1>2 DEF Sound
  <2>6. Sound(line, "entry") <=> line.kind = "entry"
    BY <1>2 DEF Sound, LineFails
  <2> QED
    BY <2>1, <2>2, <2>3, <2>4, <2>5, <2>6
<1> QED
  BY <1>1, <1>2
-----------------------------------------------------------------------------
(* What a file is read as *)

SoundBelow(path, left, kind) == {p \in Below(path, left) : Sound(LineAt(path, p), kind)}
SoundUpto(path, left, kind, m) == {p \in SoundBelow(path, left, kind) : Head(p) \in 1..m}
SoundBehind(path, left, kind, n) == {p \in SoundBelow(path, left, kind) : Head(p) = n}

RuleAt(path) == [p \in Seq(Nat) |-> Written(LineAt(path, p).tokens)]
EntriesAt(path, S) == {EntryOf(LineAt(path, p)) : p \in S}

(* r has the rules of the places S in order, and the entries of the places E. *)
ComesTo(r, path, S, E) ==
    Tells(r.rules, S, RuleAt(path), PlaceOrder) /\ r.excludes = EntriesAt(path, E)
ComesToBelow(r, path, left) ==
    ComesTo(r, path, SoundBelow(path, left, "rule"), SoundBelow(path, left, "entry"))

LEMMA BelowArePlaces ==
    ASSUME NEW path, NEW left, NEW kind
    PROVE  /\ SoundBelow(path, left, kind) \in SUBSET (Seq(Nat) \ {<<>>})
           /\ \A n : SoundBehind(path, left, kind, n) \in SUBSET (Seq(Nat) \ {<<>>})
           /\ \A m : SoundUpto(path, left, kind, m) \in SUBSET (Seq(Nat) \ {<<>>})
  BY DEF SoundBelow, Below, SoundBehind, SoundUpto

LEMMA NoneBelow ==
    ASSUME LinesTyped, NEW path \in SourcePaths, NEW left \in Nat, path \notin Sources \/ left = 0,
           NEW kind
    PROVE  SoundBelow(path, left, kind) = {}
<1> SUFFICES ASSUME NEW p \in SoundBelow(path, left, kind) PROVE FALSE
  OBVIOUS
<1>1. /\ p \in Seq(Nat) /\ p # <<>> /\ Len(p) <= left
      /\ SourceAt(path, p) \in Sources /\ Last(p) \in DOMAIN LinesOf(SourceAt(path, p))
  BY DEF SoundBelow, Below
<1>2. path \in Sources
  BY <1>1, NothingBelowNoFile
<1>3. left # 0
  BY <1>1
<1> QED
  BY <1>2, <1>3

LEMMA ProblemComesTo ==
    ASSUME NEW path PROVE ComesTo(Problem, path, {}, {}) /\ ComesTo(Nothing, path, {}, {})
<1>1. /\ Nothing.rules = <<>> /\ Nothing.excludes = {}
      /\ Problem.rules = <<>> /\ Problem.excludes = {}
  BY DEF Nothing, Problem
<1>2. Tells(<<>>, {}, RuleAt(path), PlaceOrder)
  BY TellsNothing
<1>3. EntriesAt(path, {}) = {}
  BY DEF EntriesAt
<1> QED
  BY <1>1, <1>2, <1>3 DEF ComesTo

(* What becomes of line n: what it includes, or itself. *)
LEMMA SoundSplit ==
    ASSUME LinesTyped, NEW path \in Sources, NEW left \in Nat \ {0},
           NEW n \in 1..Len(LinesOf(path)), NEW kind \in {"rule", "entry"}
    PROVE  SoundBehind(path, left, kind, n) =
             IF IsInclude(LinesOf(path)[n])
             THEN Prefixed(n, SoundBelow(LinesOf(path)[n].path, left - 1, kind))
             ELSE IF Sound(LinesOf(path)[n], kind) THEN {<<n>>} ELSE {}
<1> DEFINE line == LinesOf(path)[n]
           next == SoundBelow(line.path, left - 1, kind)
           lines == 1..Len(LinesOf(path))
<1>1. \A m \in lines : m \in Nat
  OBVIOUS
<1>2. IsInclude(line) => ~Sound(line, kind)
  BY DEF IsInclude, Sound
<1>3. LineAt(path, <<n>>) = line
      /\ (IsInclude(line) => \A q \in Seq(Nat) \ {<<>>} :
                                LineAt(path, <<n>> \o q) = LineAt(line.path, q))
  BY LineAtBehind
<1>4. \A p : p \in Below(path, left) <=>
            \E m \in lines :
                \/ p = <<m>>
                \/ /\ IsInclude(LinesOf(path)[m])
                   /\ p \in Prefixed(m, Below(LinesOf(path)[m].path, left - 1))
  BY BelowSplit
<1>5. ASSUME NEW p
      PROVE  p \in Below(path, left) /\ Head(p) = n <=>
                \/ p = <<n>>
                \/ IsInclude(line) /\ p \in Prefixed(n, Below(line.path, left - 1))
  <2>1. \A m \in lines : Head(<<m>>) = m
    OBVIOUS
  <2>2. ASSUME NEW m \in lines, NEW S \in SUBSET Seq(Nat), p \in Prefixed(m, S)
        PROVE  Head(p) = m
    <3>1. PICK q \in S : p = <<m>> \o q
      BY <2>2 DEF Prefixed
    <3> QED
      BY <1>1, <3>1, Behind
  <2>3. \A m \in lines : Below(LinesOf(path)[m].path, left - 1) \in SUBSET Seq(Nat)
    BY DEF Below
  <2>4. n \in lines
    OBVIOUS
  <2> HIDE DEF lines
  <2>5. ASSUME p \in Below(path, left), Head(p) = n
        PROVE  \/ p = <<n>>
               \/ IsInclude(line) /\ p \in Prefixed(n, Below(line.path, left - 1))
    <3>1. PICK m \in lines :
                \/ p = <<m>>
                \/ /\ IsInclude(LinesOf(path)[m])
                   /\ p \in Prefixed(m, Below(LinesOf(path)[m].path, left - 1))
      BY <1>4, <2>5
    <3>2. m = n
      BY <2>1, <2>2, <2>3, <2>5, <3>1
    <3> QED
      BY <3>1, <3>2
  <2>6. ASSUME \/ p = <<n>>
               \/ IsInclude(line) /\ p \in Prefixed(n, Below(line.path, left - 1))
        PROVE  p \in Below(path, left) /\ Head(p) = n
    <3>1. p \in Below(path, left)
      BY <1>4, <2>4, <2>6
    <3>2. Head(p) = n
      BY <2>1, <2>2, <2>3, <2>4, <2>6
    <3> QED
      BY <3>1, <3>2
  <2> QED
    BY <2>5, <2>6
<1>6. n \in Nat
  BY <1>1
<1> HIDE DEF line, lines
<1>7. CASE IsInclude(line)
  <2>1. ASSUME NEW p \in SoundBehind(path, left, kind, n) PROVE p \in Prefixed(n, next)
    <3>1. p \in Below(path, left) /\ Head(p) = n /\ Sound(LineAt(path, p), kind)
      BY DEF SoundBehind, SoundBelow
    <3>2. p # <<n>>
      BY <1>2, <1>3, <1>7, <3>1
    <3>3. PICK q \in Below(line.path, left - 1) : p = <<n>> \o q
      BY <1>5, <3>1, <3>2 DEF Prefixed
    <3>4. q \in Seq(Nat) \ {<<>>}
      BY DEF Below
    <3>5. Sound(LineAt(line.path, q), kind)
      BY <1>3, <1>7, <3>1, <3>3, <3>4
    <3> QED
      BY <3>3, <3>5 DEF Prefixed, SoundBelow
  <2>2. ASSUME NEW p \in Prefixed(n, next) PROVE p \in SoundBehind(path, left, kind, n)
    <3>1. PICK q \in next : p = <<n>> \o q
      BY DEF Prefixed
    <3>2. q \in Below(line.path, left - 1) /\ Sound(LineAt(line.path, q), kind)
      BY DEF SoundBelow
    <3>3. q \in Seq(Nat) \ {<<>>}
      BY <3>2 DEF Below
    <3>4. LineAt(path, p) = LineAt(line.path, q)
      BY <1>3, <1>7, <3>1, <3>3
    <3>5. p \in Below(path, left) /\ Head(p) = n
      BY <1>5, <1>7, <3>1, <3>2 DEF Prefixed
    <3> QED
      BY <3>2, <3>4, <3>5 DEF SoundBehind, SoundBelow
  <2> HIDE DEF next
  <2>3. SoundBehind(path, left, kind, n) = Prefixed(n, next)
    BY <2>1, <2>2
  <2> QED
    BY <1>7, <2>3 DEF line, next
<1>8. CASE ~IsInclude(line)
  <2>1. \A p : p \in SoundBehind(path, left, kind, n) <=> p = <<n>> /\ Sound(line, kind)
    BY <1>3, <1>5, <1>8 DEF SoundBehind, SoundBelow
  <2>2. SoundBehind(path, left, kind, n) = IF Sound(line, kind) THEN {<<n>>} ELSE {}
    BY <2>1
  <2> QED
    BY <1>8, <2>2 DEF line
<1> QED
  BY <1>7, <1>8

LEMMA LineComesTo ==
    ASSUME LinesTyped, NEW path \in Sources, NEW left \in Nat \ {0},
           NEW included \in [SourcePaths -> Result],
           \A f \in SourcePaths : ComesToBelow(included[f], f, left - 1),
           NEW n \in 1..Len(LinesOf(path))
    PROVE  ComesTo(LineRead(LinesOf(path)[n], included), path,
                   SoundBehind(path, left, "rule", n), SoundBehind(path, left, "entry", n))
<1> DEFINE line == LinesOf(path)[n]
           read == LineRead(line, included)
           R == SoundBehind(path, left, "rule", n)
           E == SoundBehind(path, left, "entry", n)
<1>1. line \in SourceLine /\ n \in Nat
  <2>1. LinesOf(path) \in Seq(SourceLine)
    BY DEF LinesTyped
  <2> QED
    BY <2>1, ElementOfSeq
<1>2. LineAt(path, <<n>>) = line
      /\ (IsInclude(line) => \A q \in Seq(Nat) \ {<<>>} :
                                LineAt(path, <<n>> \o q) = LineAt(line.path, q))
  BY LineAtBehind
<1>3. \A kind \in {"rule", "entry"} :
        SoundBehind(path, left, kind, n) =
            IF IsInclude(line) THEN Prefixed(n, SoundBelow(line.path, left - 1, kind))
            ELSE IF Sound(line, kind) THEN {<<n>>} ELSE {}
  BY SoundSplit
<1> HIDE DEF line
<1>4. CASE IsInclude(line)
  <2> DEFINE next == line.path
             S == SoundBelow(next, left - 1, "rule")
             F == SoundBelow(next, left - 1, "entry")
  <2>1. next \in SourcePaths
    BY <1>1, <1>4 DEF IsInclude, SourceLine
  <2>2. read = included[next]
    BY <1>4 DEF LineRead
  <2>3. Tells(read.rules, S, RuleAt(next), PlaceOrder) /\ read.excludes = EntriesAt(next, F)
    BY <2>1, <2>2 DEF ComesToBelow, ComesTo
  <2>4. R = Prefixed(n, S) /\ E = Prefixed(n, F)
    BY <1>3, <1>4
  <2>5. S \in SUBSET (Seq(Nat) \ {<<>>}) /\ F \in SUBSET (Seq(Nat) \ {<<>>})
    BY BelowArePlaces
  <2> HIDE DEF S, F, next, read, R, E
  <2>6. ASSUME NEW p \in S PROVE RuleAt(path)[<<n>> \o p] = RuleAt(next)[p]
    <3>1. p \in Seq(Nat) \ {<<>>} /\ <<n>> \o p \in Seq(Nat)
      BY <1>1, <2>5, Behind
    <3>2. LineAt(path, <<n>> \o p) = LineAt(next, p)
      BY <1>2, <1>4, <3>1 DEF next
    <3> QED
      BY <3>1, <3>2 DEF RuleAt
  <2>7. Tells(read.rules, R, RuleAt(path), PlaceOrder)
    <3>1. S \in SUBSET Seq(Nat)
      BY <2>5
    <3> QED
      BY <1>1, <2>3, <2>4, <2>6, <3>1, TellsBehind
  <2>8. \A q \in F : LineAt(path, <<n>> \o q) = LineAt(next, q)
    BY <1>2, <1>4, <2>5 DEF next
  <2>9. EntriesAt(path, E) = EntriesAt(next, F)
    BY <2>4, <2>8 DEF EntriesAt, Prefixed
  <2>10. ComesTo(read, path, R, E)
    BY <2>3, <2>7, <2>9 DEF ComesTo
  <2> QED
    BY <2>10 DEF read, R, E, line
<1>5. CASE ~IsInclude(line)
  <2>1. /\ read.rules = IF Sound(line, "rule") THEN <<Written(line.tokens)>> ELSE <<>>
        /\ read.excludes = IF Sound(line, "entry") THEN {EntryOf(line)} ELSE {}
    BY <1>1, <1>5, LineReads
  <2>2. R = (IF Sound(line, "rule") THEN {<<n>>} ELSE {})
        /\ E = (IF Sound(line, "entry") THEN {<<n>>} ELSE {})
    BY <1>3, <1>5
  <2> HIDE DEF read, R, E
  <2>3. Tells(read.rules, R, RuleAt(path), PlaceOrder)
    <3>1. CASE Sound(line, "rule")
      <4> DEFINE x == <<n>>
      <4>1. x \in Seq(Nat)
        BY <1>1
      <4>2. RuleAt(path)[x] = Written(line.tokens)
        <5>1. LineAt(path, x) = line
          BY <1>2
        <5> HIDE DEF x
        <5> QED
          BY <4>1, <5>1 DEF RuleAt
      <4>3. read.rules = <<Written(line.tokens)>> /\ R = {x}
        BY <2>1, <2>2, <3>1
      <4> HIDE DEF x
      <4> QED
        BY <4>2, <4>3, TellsOne
    <3>2. CASE ~Sound(line, "rule")
      BY <2>1, <2>2, <3>2, TellsNothing
    <3> QED
      BY <3>1, <3>2
  <2>4. read.excludes = EntriesAt(path, E)
    <3>1. EntriesAt(path, {<<n>>}) = {EntryOf(line)} /\ EntriesAt(path, {}) = {}
      BY <1>2 DEF EntriesAt
    <3> QED
      BY <2>1, <2>2, <3>1
  <2>5. ComesTo(read, path, R, E)
    BY <2>3, <2>4 DEF ComesTo
  <2> QED
    BY <2>5 DEF read, R, E, line
<1> QED
  BY <1>4, <1>5

(* load_text, load_exclude_file: line by line, the rules in the order of the places. *)
LEMMA TextComesTo ==
    ASSUME LinesTyped, NEW path \in Sources, NEW left \in Nat \ {0},
           NEW included \in [SourcePaths -> Result],
           \A f \in SourcePaths : ComesToBelow(included[f], f, left - 1)
    PROVE  ComesToBelow(Text(LinesOf(path), included), path, left)
<1> DEFINE lines == LinesOf(path)
           N == Len(lines)
           R(m) == SoundUpto(path, left, "rule", m)
           E(m) == SoundUpto(path, left, "entry", m)
<1>1. lines \in Seq(SourceLine)
  BY DEF LinesTyped
<1>2. N \in Nat /\ DOMAIN lines = 1..N
  BY <1>1
<1>3. PICK upto :
        /\ upto[0] = Nothing /\ \A n \in 0..N : upto[n] \in Result
        /\ \A n \in 1..N : upto[n] = Followed(upto[n - 1], LineRead(lines[n], included))
        /\ Text(lines, included) = upto[N]
  BY <1>1, LinesRead
<1>4. \A n \in 1..N : LineRead(lines[n], included) \in Result
  <2>1. \A n \in 1..N : lines[n] \in SourceLine
    BY <1>1, ElementOfSeq
  <2> QED
    BY <2>1, LineIsResult
<1>5. \A n \in 1..N :
        ComesTo(LineRead(lines[n], included), path,
                SoundBehind(path, left, "rule", n), SoundBehind(path, left, "entry", n))
  BY LineComesTo
<1> DEFINE Kept == {m \in 0..N : ComesTo(upto[m], path, R(m), E(m))}
<1> HIDE DEF N, lines
<1>6. 0 \in Kept
  <2>1. \A m : ~(m \in 1..0)
    OBVIOUS
  <2>2. R(0) = {} /\ E(0) = {}
    BY <2>1 DEF SoundUpto
  <2>3. ComesTo(upto[0], path, R(0), E(0))
    BY <1>3, <2>2, ProblemComesTo
  <2> QED
    BY <1>2, <2>3
<1>7. ASSUME NEW m \in 1..N, m - 1 \in Kept PROVE m \in Kept
  <2> DEFINE a == upto[m - 1]
             b == LineRead(lines[m], included)
             P == SoundBehind(path, left, "rule", m)
             F == SoundBehind(path, left, "entry", m)
             Q == R(m - 1)
             G == E(m - 1)
  <2>1. m \in 0..N /\ m - 1 \in 0..N /\ m \in Nat
    BY <1>2, StepBefore
  <2>2. upto[m] = Followed(a, b)
    BY <1>3
  <2>3. a \in Result /\ b \in Result
    BY <1>3, <1>4, <2>1
  <2>4. ComesTo(a, path, Q, G) /\ ComesTo(b, path, P, F)
    BY <1>5, <1>7
  <2>5. \A i : i \in 1..m <=> i \in 1..m - 1 \/ i = m
    BY <2>1
  <2>6. R(m) = Q \cup P /\ E(m) = G \cup F
    BY <2>5 DEF SoundUpto, SoundBehind
  <2>7. ASSUME NEW x \in Q, NEW y \in P PROVE <<x, y>> \in PlaceOrder
    <3>1. x \in Seq(Nat) \ {<<>>} /\ y \in Seq(Nat) \ {<<>>}
      BY BelowArePlaces
    <3>2. Head(x) \in 1..m - 1 /\ Head(y) = m
      BY DEF SoundUpto, SoundBehind
    <3>3. Head(x) < Head(y)
      BY <2>1, <3>2
    <3> QED
      BY <3>1, <3>3, OrderedByHead
  <2> HIDE DEF a, b, P, F, Q, G
  <2>8. a.rules \in Seq(Rule) /\ b.rules \in Seq(Rule)
    BY <2>3 DEF Result
  <2>9. /\ Tells(a.rules, Q, RuleAt(path), PlaceOrder)
        /\ Tells(b.rules, P, RuleAt(path), PlaceOrder)
        /\ a.excludes = EntriesAt(path, G) /\ b.excludes = EntriesAt(path, F)
    BY <2>4 DEF ComesTo
  <2>10. Tells(a.rules \o b.rules, Q \cup P, RuleAt(path), PlaceOrder)
    BY <2>7, <2>8, <2>9, TellsBoth
  <2>11. a.excludes \cup b.excludes = EntriesAt(path, G \cup F)
    BY <2>9 DEF EntriesAt
  <2>12. /\ Followed(a, b).rules = a.rules \o b.rules
         /\ Followed(a, b).excludes = a.excludes \cup b.excludes
    BY DEF Followed
  <2>13. ComesTo(Followed(a, b), path, Q \cup P, G \cup F)
    BY <2>10, <2>11, <2>12 DEF ComesTo
  <2> QED
    BY <2>1, <2>2, <2>6, <2>13
<1>8. ComesTo(upto[N], path, R(N), E(N))
  <2>1. Kept \in SUBSET (0..N)
    OBVIOUS
  <2>2. N \in 0..N
    BY <1>2
  <2> HIDE DEF Kept
  <2>3. N \in Kept
    BY <1>2, <1>6, <1>7, <2>1, <2>2, LoopKeeps
  <2> QED
    BY <2>3 DEF Kept
<1>9. ASSUME NEW kind PROVE SoundUpto(path, left, kind, N) = SoundBelow(path, left, kind)
  <2> SUFFICES ASSUME NEW p \in SoundBelow(path, left, kind) PROVE Head(p) \in 1..N
    BY DEF SoundUpto
  <2>1. p \in Below(path, left)
    BY DEF SoundBelow
  <2>2. PICK n \in 1..N :
            \/ p = <<n>>
            \/ /\ IsInclude(lines[n]) /\ p \in Prefixed(n, Below(lines[n].path, left - 1))
    BY <2>1, BelowSplit DEF N, lines
  <2>3. n \in Nat
    BY <1>2
  <2>4. CASE p = <<n>>
    BY <2>4
  <2>5. CASE p \in Prefixed(n, Below(lines[n].path, left - 1))
    <3>1. PICK q \in Below(lines[n].path, left - 1) : p = <<n>> \o q
      BY <2>5 DEF Prefixed
    <3>2. q \in Seq(Nat)
      BY DEF Below
    <3> QED
      BY <2>3, <3>1, <3>2, Behind
  <2> QED
    BY <2>2, <2>4, <2>5
<1>10. ComesTo(Text(lines, included), path, SoundBelow(path, left, "rule"),
               SoundBelow(path, left, "entry"))
  BY <1>3, <1>8, <1>9
<1> QED
  BY <1>10 DEF ComesToBelow, lines

(* Whatever files include one another, what a load brings is what is written below. *)
LEMMA LoadedComesTo ==
    ASSUME LinesTyped
    PROVE  \A left \in 0..MaxIncludeDepth + 1 : \A path \in SourcePaths :
                ComesToBelow(Loaded[left][path], path, left)
<1> DEFINE N == MaxIncludeDepth + 1
           Told(left) == \A path \in SourcePaths : ComesToBelow(Loaded[left][path], path, left)
           Kept == {left \in 0..N : Told(left)}
<1>1. N \in Nat
  BY DepthAssumption DEF DepthAssumption
<1>2. /\ \A left \in 0..N : Loaded[left] \in [SourcePaths -> Result]
      /\ Loaded[0] = [path \in SourcePaths |-> Problem]
      /\ \A left \in 1..N : Loaded[left] = Included(Loaded[left - 1])
  BY LoadedIsResult
<1> HIDE DEF N
<1>3. ASSUME NEW path \in SourcePaths, NEW left \in Nat, path \notin Sources \/ left = 0
      PROVE  ComesToBelow(Problem, path, left)
  <2>1. SoundBelow(path, left, "rule") = {} /\ SoundBelow(path, left, "entry") = {}
    BY <1>3, NoneBelow
  <2> QED
    BY <2>1, ProblemComesTo DEF ComesToBelow
<1>4. Told(0)
  <2> PICK zero \in Nat : zero = 0
    OBVIOUS
  <2>1. \A path \in SourcePaths : ComesToBelow(Problem, path, zero)
    BY <1>3
  <2>2. \A path \in SourcePaths : Loaded[0][path] = Problem
    BY <1>2
  <2> QED
    BY <2>1, <2>2
<1>5. ASSUME NEW left \in 1..N, Told(left - 1) PROVE Told(left)
  <2> SUFFICES ASSUME NEW path \in SourcePaths PROVE ComesToBelow(Loaded[left][path], path, left)
    OBVIOUS
  <2> DEFINE before == Loaded[left - 1]
  <2>1. left - 1 \in 0..N /\ left \in Nat \ {0} /\ left \in Nat
    BY <1>1
  <2>2. before \in [SourcePaths -> Result]
    BY <1>2, <2>1
  <2>3. \A f \in SourcePaths : ComesToBelow(before[f], f, left - 1)
    BY <1>5
  <2>4. Loaded[left][path] = IF path \notin Sources THEN Problem ELSE Text(LinesOf(path), before)
    BY <1>2 DEF Included
  <2> HIDE DEF before
  <2>5. CASE path \notin Sources
    BY <1>3, <2>1, <2>4, <2>5
  <2>6. CASE path \in Sources
    <3>1. ComesToBelow(Text(LinesOf(path), before), path, left)
      BY <2>1, <2>2, <2>3, <2>6, TextComesTo
    <3> QED
      BY <2>4, <2>6, <3>1
  <2> QED
    BY <2>5, <2>6
<1>6. 0 \in Kept
  BY <1>1, <1>4
<1>7. ASSUME NEW left \in 1..N, left - 1 \in Kept PROVE left \in Kept
  <2>1. left \in 0..N
    BY <1>1
  <2>2. Told(left - 1)
    BY <1>7
  <2> HIDE DEF Told
  <2> QED
    BY <1>5, <2>1, <2>2
<1>8. \A left \in 0..N : left \in Kept
  <2>1. Kept \in SUBSET (0..N)
    OBVIOUS
  <2> HIDE DEF Kept
  <2> QED
    BY <1>1, <1>6, <1>7, <2>1, LoopKeeps
<1> QED
  BY <1>8 DEF N

(* The places of the property are the places below a file. *)
LEMMA PlacesAreBelow ==
    ASSUME LinesTyped, NEW path \in SourcePaths
    PROVE  Places(path) = Below(path, MaxIncludeDepth + 1)
<1> DEFINE N == MaxIncludeDepth + 1
           lineNumbers == UNION {DOMAIN LinesOf(f) : f \in Sources}
<1>1. N \in Nat \ {0}
  BY DepthAssumption DEF DepthAssumption
<1>2. lineNumbers \subseteq Nat
  <2> SUFFICES ASSUME NEW f \in Sources PROVE DOMAIN LinesOf(f) \subseteq Nat
    OBVIOUS
  <2>1. LinesOf(f) \in Seq(SourceLine)
    BY DEF LinesTyped
  <2> QED
    BY <2>1
<1>3. Places(path) =
        {p \in UNION {[1..n -> lineNumbers] : n \in 1..N} :
            SourceAt(path, p) \in Sources /\ Last(p) \in DOMAIN LinesOf(SourceAt(path, p))}
  BY DEF Places
<1> HIDE DEF N, lineNumbers
<1>4. ASSUME NEW p \in Places(path) PROVE p \in Below(path, N)
  <2>1. PICK depth \in 1..N : p \in [1..depth -> lineNumbers]
    BY <1>3
  <2>2. depth \in Nat \ {0} /\ depth <= N
    BY <1>1
  <2>3. p \in [1..depth -> Nat]
    <3>1. \A n \in 1..depth : p[n] \in Nat
      BY <1>2, <2>1
    <3>2. p = [n \in 1..depth |-> p[n]]
      BY <2>1
    <3> QED
      BY <3>1, <3>2
  <2>4. p \in Seq(Nat) /\ Len(p) = depth
    BY <2>2, <2>3, FunctionIsSequence
  <2>5. p # <<>>
    BY <2>2, <2>4
  <2>6. SourceAt(path, p) \in Sources /\ Last(p) \in DOMAIN LinesOf(SourceAt(path, p))
    BY <1>3
  <2> QED
    BY <2>2, <2>4, <2>5, <2>6 DEF Below
<1>5. ASSUME NEW p \in Below(path, N) PROVE p \in Places(path)
  <2> DEFINE depth == Len(p)
  <2>1. /\ p \in Seq(Nat) /\ p # <<>> /\ depth <= N
        /\ SourceAt(path, p) \in Sources /\ Last(p) \in DOMAIN LinesOf(SourceAt(path, p))
    BY DEF Below
  <2>2. depth \in Nat \ {0} /\ p \in [1..depth -> Nat] /\ Last(p) = p[depth]
    BY <2>1 DEF Last
  <2> HIDE DEF depth
  <2>3. PICK files \in [0..depth - 1 -> SourcePaths] :
            /\ files[0] = path
            /\ \A i \in 1..depth - 1 : files[i] = Follow(files[i - 1], p[i])
            /\ SourceAt(path, p) = files[depth - 1]
    <3>1. PassesFiles(path, p, depth)
      BY <2>2, FilesAtPlace
    <3> QED
      BY <3>1 DEF PassesFiles
  <2>4. Leads(path, p, files, depth)
    BY <2>1, <2>2, <2>3 DEF Leads
  <2>5. OverFiles(p, files, depth)
    BY <2>2, <2>4, WayIsOverFiles
  <2>6. p \in [1..depth -> lineNumbers]
    <3> SUFFICES ASSUME NEW n \in 1..depth PROVE p[n] \in lineNumbers
      BY <2>2
    <3>1. n - 1 \in 0..depth - 1 /\ (n - 1) + 1 = n
      BY <2>2
    <3>2. files[n - 1] \in Sources /\ p[(n - 1) + 1] \in DOMAIN LinesOf(files[n - 1])
      BY <2>5, <3>1 DEF OverFiles
    <3>3. p[n] \in DOMAIN LinesOf(files[n - 1])
      BY <3>1, <3>2
    <3> QED
      BY <3>2, <3>3 DEF lineNumbers
  <2>7. depth \in 1..N
    BY <1>1, <2>1, <2>2
  <2> QED
    BY <1>3, <2>1, <2>6, <2>7
<1> QED
  BY <1>4, <1>5 DEF N

LEMMA GoodIsSound ==
    ASSUME LinesTyped, NEW path \in SourcePaths, NEW kind \in {"rule", "entry"}
    PROVE  Good(path, kind) = SoundBelow(path, MaxIncludeDepth + 1, kind)
<1>1. ASSUME NEW p
      PROVE  LineAt(path, p).kind = kind /\ ~Fails(path, p) <=> Sound(LineAt(path, p), kind)
  <2> DEFINE line == LineAt(path, p)
  <2>1. line.kind = kind => ~IsInclude(line)
    BY DEF IsInclude
  <2>2. Fails(path, p) <=>
            IF IsInclude(line) THEN line.path \notin Sources \/ Len(p) > MaxIncludeDepth
            ELSE line.kind = "rule" /\ ~WellFormed(line.tokens)
    BY DEF Fails
  <2> HIDE DEF line
  <2>3. line.kind = kind /\ ~Fails(path, p) <=> Sound(line, kind)
    BY <2>1, <2>2 DEF Sound, LineFails
  <2> QED
    BY <2>3 DEF line
<1> QED
  BY <1>1, PlacesAreBelow DEF Good, SoundBelow

(* RuleSet::load_file: a load brings what is written below its file. *)
LEMMA LoadBrings ==
    ASSUME LinesTyped, NEW path \in SourcePaths
    PROVE  LET read == Loaded[MaxIncludeDepth + 1][path]
           IN  /\ read.rules \in Seq(Rule)
               /\ Good(path, "rule") \in SUBSET (Seq(Nat) \ {<<>>})
               /\ Tells(read.rules, Good(path, "rule"), RuleAt(path), PlaceOrder)
               /\ read.excludes = EntriesWritten(path)
<1> DEFINE N == MaxIncludeDepth + 1
           read == Loaded[N][path]
<1>1. N \in 0..N
  BY DepthAssumption DEF DepthAssumption
<1>2. ComesToBelow(read, path, N)
  BY <1>1, LoadedComesTo
<1>3. read \in Result
  BY <1>1, LoadedIsResult
<1>4. /\ Good(path, "rule") = SoundBelow(path, N, "rule")
      /\ Good(path, "entry") = SoundBelow(path, N, "entry")
  BY GoodIsSound
<1> HIDE DEF N, read
<1>5. Tells(read.rules, Good(path, "rule"), RuleAt(path), PlaceOrder)
      /\ read.excludes = EntriesAt(path, Good(path, "entry"))
  BY <1>2, <1>4 DEF ComesToBelow, ComesTo
<1>6. read.excludes = EntriesWritten(path)
  BY <1>5 DEF EntriesAt, EntriesWritten, EntryOf
<1>7. Good(path, "rule") \in SUBSET (Seq(Nat) \ {<<>>})
  BY <1>4, BelowArePlaces
<1>8. read.rules \in Seq(Rule)
  BY <1>3 DEF Result
<1> QED
  BY <1>5, <1>6, <1>7, <1>8 DEF read, N

-----------------------------------------------------------------------------
(* The theorems *)

(* The type of the state, and what the two ways to tell of a failure say: load() has
   returned false if and only if a problem has been added.                    *)
FilesInv ==
    /\ LinesTyped
    /\ RulesTyped /\ excludes \subseteq Entry
    /\ problems \in Nat /\ ok \in BOOLEAN /\ (ok <=> problems = 0)

LEMMA InitFiles == Init => FilesInv
<1> SUFFICES ASSUME Init PROVE FilesInv
  OBVIOUS
<1>1. LinesTyped
  BY FilesAssumption, LinesAreTyped DEF Init, FilesAssumption
<1>2. RulesTyped
  BY EmptySeq DEF Init, RulesTyped
<1> QED
  BY <1>1, <1>2 DEF Init, FilesInv

LEMMA LoadKeepsFiles ==
    ASSUME FilesInv, NEW path \in SourcePaths, Load(path) PROVE FilesInv'
<1> DEFINE read == Loaded[MaxIncludeDepth + 1][path]
<1>1. read \in Result
  <2>1. MaxIncludeDepth + 1 \in 0..MaxIncludeDepth + 1
    BY DepthAssumption DEF DepthAssumption
  <2> QED
    BY <2>1, LoadedIsResult DEF FilesInv
<1>2. /\ rules' = rules \o read.rules /\ excludes' = excludes \cup read.excludes
      /\ problems' = problems + read.problems /\ ok' = (ok /\ read.ok)
      /\ disk' = disk
  BY DEF Load
<1> HIDE DEF read
<1>3. /\ read.rules \in Seq(Rule) /\ read.excludes \subseteq Entry /\ read.problems \in Nat
      /\ read.ok \in BOOLEAN /\ (read.ok <=> read.problems = 0)
  BY <1>1 DEF Result
<1>4. LinesTyped'
  BY <1>2, LinesStay DEF FilesInv
<1>5. RulesTyped'
  <2>1. rules \in Seq(Rule)
    BY DEF FilesInv, RulesTyped
  <2>2. rules \o read.rules \in Seq(Rule)
    BY <1>3, <2>1, ConcatProperties
  <2>3. rules' \in Seq(Rule)
    BY <1>2, <2>2
  <2>4. RulesTyped' <=> rules' \in Seq(Rule)
    BY DEF RulesTyped, Rule, Matcher, HostMatcher, NetworkMatcher
  <2> QED
    BY <2>3, <2>4
<1>6. excludes' \subseteq Entry
  BY <1>2, <1>3 DEF FilesInv
<1>7. problems' \in Nat /\ ok' \in BOOLEAN /\ (ok' <=> problems' = 0)
  <2>1. /\ problems \in Nat /\ read.problems \in Nat
        /\ ok <=> problems = 0
        /\ read.ok <=> read.problems = 0
    BY <1>3 DEF FilesInv
  <2>2. problems + read.problems \in Nat
        /\ (problems + read.problems = 0 <=> problems = 0 /\ read.problems = 0)
    BY <2>1
  <2>3. problems' \in Nat /\ (problems' = 0 <=> problems = 0 /\ read.problems = 0)
    BY <1>2, <2>2
  <2>4. ok' <=> (ok /\ read.ok)
    BY <1>2
  <2>5. ok' \in BOOLEAN
    BY <1>2
  <2> QED
    BY <2>1, <2>3, <2>4, <2>5
<1> QED
  BY <1>4, <1>5, <1>6, <1>7 DEF FilesInv

(* Whatever the files hold and however they include one another, what has been loaded
   is well typed, and a failure is told of by load()'s result and by a problem, or by
   neither (RuleSet::load_text, load_exclude_file).                           *)
THEOREM FilesAreTyped == Spec => []FilesInv
<1>1. FilesInv /\ [Next]_vars => FilesInv'
  <2> SUFFICES ASSUME FilesInv, [Next]_vars PROVE FilesInv'
    OBVIOUS
  <2>1. \A list \in FileKinds, path \in RuleFileNames \cup ExcludeFileNames :
            [list |-> list, path |-> path] \in SourcePaths
    BY FilesAssumption DEF FilesAssumption, SourcePaths, FilePaths
  <2>2. CASE Next
    <3>1. PICK list \in FileKinds, path \in RuleFileNames \cup ExcludeFileNames :
            Load([list |-> list, path |-> path])
      BY <2>2 DEF Next, FileKinds
    <3> QED
      BY <2>1, <3>1, LoadKeepsFiles
  <2>3. CASE UNCHANGED vars
    <3>1. LinesTyped'
      BY <2>3, LinesStay DEF vars, FilesInv
    <3> QED
      BY <2>3, <3>1 DEF vars, FilesInv, RulesTyped, Rule, Matcher, HostMatcher,
                        NetworkMatcher, Entry
  <2> QED
    BY <2>2, <2>3
<1> QED
  BY <1>1, InitFiles, PTL DEF Spec

(* The state, and that the loads so far were good exactly if no line below them fails. *)
CleanLoad(path) == Readable(path) /\ \A p \in Places(path) : ~Fails(path, p)
LoadsInv ==
    /\ FilesInv
    /\ loads \in Seq(SourcePaths)
    /\ ok <=> \A path \in ToSet(loads) : CleanLoad(path)

(* What stands in the files stays as long as they do. *)
LEMMA PlacesStay ==
    ASSUME UNCHANGED disk, NEW path
    PROVE  /\ Places(path)' = Places(path)
           /\ \A p : LineAt(path, p)' = LineAt(path, p)
           /\ \A p : Fails(path, p)' <=> Fails(path, p)
<1>1. Places(path)' = Places(path)
  BY DEF Places, LineAt, SourceAt, Follow, IsInclude, LinesOf, Taken, Sources,
         FilePaths, FileKinds, Nowhere
<1>2. ASSUME NEW p PROVE LineAt(path, p)' = LineAt(path, p)
  BY DEF LineAt, SourceAt, Follow, IsInclude, LinesOf, Taken, Sources, FilePaths,
         FileKinds, Nowhere
<1>3. ASSUME NEW p PROVE Fails(path, p)' <=> Fails(path, p)
  BY <1>2 DEF Fails, IsInclude, WellFormed, Matching, Sources, FileKinds
<1> QED
  BY <1>1, <1>2, <1>3

LEMMA CleanStays ==
    ASSUME UNCHANGED disk, NEW path PROVE CleanLoad(path)' <=> CleanLoad(path)
<1>1. Readable(path)' <=> Readable(path)
  BY DEF Readable, Sources, FileKinds
<1>2. CleanLoad(path)' <=> Readable(path)' /\ \A p \in Places(path)' : ~Fails(path, p)'
  BY DEF CleanLoad
<1> QED
  BY <1>1, <1>2, PlacesStay DEF CleanLoad

LEMMA InitLoads == Init => LoadsInv
<1> SUFFICES ASSUME Init PROVE LoadsInv
  OBVIOUS
<1>1. loads = <<>> /\ ok = TRUE
  BY DEF Init
<1>2. loads \in Seq(SourcePaths)
  BY <1>1, EmptySeq
<1>3. ToSet(loads) = {}
  BY <1>1 DEF ToSet
<1> QED
  BY <1>1, <1>2, <1>3, InitFiles DEF LoadsInv

LEMMA LoadKeepsLoads ==
    ASSUME LoadsInv, NEW path \in SourcePaths, Load(path) PROVE LoadsInv'
<1> DEFINE read == Loaded[MaxIncludeDepth + 1][path]
<1>1. FilesInv'
  BY LoadKeepsFiles DEF LoadsInv
<1>2. ok' = (ok /\ read.ok) /\ loads' = Append(loads, path) /\ disk' = disk
  BY DEF Load
<1>3. read.ok <=> CleanLoad(path)
  <2>1. read.ok <=> path \in Sources /\ ~FailingPlace(path)
    BY LoadOk DEF LoadsInv, FilesInv
  <2> QED
    BY <2>1 DEF CleanLoad, Readable, FailingPlace
<1> HIDE DEF read
<1>4. loads \in Seq(SourcePaths)
  BY DEF LoadsInv
<1>5. loads' \in Seq(SourcePaths)
  BY <1>2, <1>4, AppendProperties
<1>6. ToSet(loads') = ToSet(loads) \cup {path}
  <2> DEFINE s == Append(loads, path)
  <2>1. /\ s \in Seq(SourcePaths) /\ Len(s) = Len(loads) + 1 /\ s[Len(loads) + 1] = path
        /\ \A n \in 1..Len(loads) : s[n] = loads[n]
    BY <1>4, AppendProperties
  <2>2. DOMAIN s = 1..Len(s) /\ DOMAIN loads = 1..Len(loads) /\ Len(loads) \in Nat
    BY <1>4, <2>1
  <2> HIDE DEF s
  <2>3. \A n \in 1..Len(s) : n \in 1..Len(loads) \/ n = Len(loads) + 1
    BY <2>1, <2>2
  <2>4. \A n \in 1..Len(loads) : n \in 1..Len(s)
    BY <2>1, <2>2
  <2>5. Len(loads) + 1 \in 1..Len(s)
    BY <2>1, <2>2
  <2>6. ToSet(s) = ToSet(loads) \cup {path}
    BY <2>1, <2>2, <2>3, <2>4, <2>5 DEF ToSet
  <2> QED
    BY <1>2, <2>6 DEF s
<1>7. \A f : CleanLoad(f)' <=> CleanLoad(f)
  BY <1>2, CleanStays
<1>8. ok' <=> \A f \in ToSet(loads') : CleanLoad(f)
  BY <1>2, <1>3, <1>6 DEF LoadsInv
<1>9. ok' <=> \A f \in ToSet(loads') : CleanLoad(f)'
  BY <1>7, <1>8
<1>10. SourcePaths' = SourcePaths
  BY DEF SourcePaths, FilePaths, FileKinds
<1> QED
  BY <1>1, <1>5, <1>9, <1>10 DEF LoadsInv, ToSet

LEMMA LoadsStay == ASSUME LoadsInv, UNCHANGED vars PROVE LoadsInv'
<1>1. \A f : CleanLoad(f)' <=> CleanLoad(f)
  BY CleanStays DEF vars
<1>2. loads' \in Seq(SourcePaths) /\ (ok' <=> \A f \in ToSet(loads') : CleanLoad(f)')
  BY <1>1 DEF LoadsInv, vars
<1>3. FilesInv'
  <2>1. LinesTyped'
    BY LinesStay DEF vars, LoadsInv, FilesInv
  <2> QED
    BY <2>1 DEF vars, LoadsInv, FilesInv, RulesTyped, Rule, Matcher, HostMatcher,
                NetworkMatcher, Entry
<1> QED
  BY <1>2, <1>3 DEF LoadsInv, ToSet, SourcePaths, FilePaths, FileKinds

(* RuleSet::load_file, load_text, load_exclude_file: the loads return true exactly if
   every file is there and no line anywhere below it fails, through includes and
   include cycles of any depth, and a problem is added if and only if they do not. *)
THEOREM FailuresAlwaysReported == Spec => []FailuresReported
<1>1. LoadsInv /\ [Next]_vars => LoadsInv'
  <2> SUFFICES ASSUME LoadsInv, [Next]_vars PROVE LoadsInv'
    OBVIOUS
  <2>1. \A list \in FileKinds, path \in RuleFileNames \cup ExcludeFileNames :
            [list |-> list, path |-> path] \in SourcePaths
    BY FilesAssumption DEF FilesAssumption, SourcePaths, FilePaths
  <2>2. CASE Next
    <3>1. PICK list \in FileKinds, path \in RuleFileNames \cup ExcludeFileNames :
            Load([list |-> list, path |-> path])
      BY <2>2 DEF Next, FileKinds
    <3> QED
      BY <2>1, <3>1, LoadKeepsLoads
  <2>3. CASE UNCHANGED vars
    BY <2>3, LoadsStay
  <2> QED
    BY <2>2, <2>3
<1>2. LoadsInv => FailuresReported
  BY DEF LoadsInv, FilesInv, FailuresReported, CleanLoad
<1> QED
  BY <1>1, <1>2, InitLoads, PTL DEF Spec

(* What the loads l are to bring: the places of their rules, each behind the number of
   its load, and the rules written there.                                     *)
PlacesOf(l) == UNION {Prefixed(k, Good(l[k], "rule")) : k \in DOMAIN l}
RuleOf(l) == [p \in Seq(Nat) |-> Written(LineAt(l[Head(p)], Tail(p)).tokens)]
EntriesOf(l) == UNION {EntriesWritten(f) : f \in ToSet(l)}
Brought(l, r, x) ==
    Tells(r, PlacesOf(l), RuleOf(l), PlaceOrder) /\ x = EntriesOf(l)

LEMMA BroughtMore ==
    ASSUME LinesTyped, NEW l \in Seq(SourcePaths), NEW r \in Seq(Rule), NEW x, Brought(l, r, x),
           NEW path \in SourcePaths
    PROVE  LET read == Loaded[MaxIncludeDepth + 1][path]
           IN  Brought(Append(l, path), r \o read.rules, x \cup read.excludes)
<1> DEFINE read == Loaded[MaxIncludeDepth + 1][path]
           more == Append(l, path)
           n == Len(l)
           S == PlacesOf(l)
           G == Good(path, "rule")
           T == Prefixed(n + 1, G)
<1>1. /\ read.rules \in Seq(Rule) /\ G \in SUBSET (Seq(Nat) \ {<<>>})
      /\ Tells(read.rules, G, RuleAt(path), PlaceOrder)
      /\ read.excludes = EntriesWritten(path)
  BY LoadBrings
<1>2. /\ more \in Seq(SourcePaths) /\ Len(more) = n + 1 /\ more[n + 1] = path
      /\ \A k \in 1..n : more[k] = l[k]
  BY AppendProperties
<1>3. n \in Nat /\ DOMAIN l = 1..n
  OBVIOUS
<1> HIDE DEF more, n
<1>4. DOMAIN more = 1..n + 1
  BY <1>2
<1>5. \A k : k \in 1..n + 1 <=> k \in 1..n \/ k = n + 1
  BY <1>3
<1>6. ASSUME NEW k \in 1..n
      PROVE  k \in Nat /\ l[k] \in SourcePaths /\ Good(l[k], "rule") \in SUBSET Seq(Nat)
  <2>1. k \in Nat /\ l[k] \in SourcePaths
    BY <1>3, ElementOfSeq DEF n
  <2> QED
    BY <2>1, LoadBrings
<1>7. ASSUME NEW p \in S PROVE p \in Seq(Nat) \ {<<>>} /\ Head(p) \in 1..n
  <2>1. PICK k \in 1..n : p \in Prefixed(k, Good(l[k], "rule"))
    BY <1>3 DEF PlacesOf
  <2>2. PICK q \in Good(l[k], "rule") : p = <<k>> \o q
    BY <2>1 DEF Prefixed
  <2>3. q \in Seq(Nat) /\ k \in Nat
    BY <1>6
  <2>4. p \in Seq(Nat) /\ Head(p) = k /\ Len(p) = Len(q) + 1
    BY <2>2, <2>3, Behind
  <2>5. p # <<>>
    BY <2>3, <2>4
  <2> QED
    BY <2>4, <2>5
<1>8. ASSUME NEW q \in G
      PROVE  LET p == <<n + 1>> \o q
             IN  p \in Seq(Nat) \ {<<>>} /\ Head(p) = n + 1 /\ Tail(p) = q
  <2> DEFINE p == <<n + 1>> \o q
  <2>1. q \in Seq(Nat) /\ n + 1 \in Nat
    BY <1>1, <1>3
  <2>2. p \in Seq(Nat) /\ Head(p) = n + 1 /\ Tail(p) = q /\ Len(p) = Len(q) + 1
    BY <2>1, Behind
  <2> HIDE DEF p
  <2>3. p # <<>>
    BY <2>1, <2>2
  <2> QED
    BY <2>2, <2>3 DEF p
<1>9. PlacesOf(more) = S \cup T
  BY <1>2, <1>3, <1>4, <1>5 DEF PlacesOf
<1>10. Tells(r, S, RuleOf(more), PlaceOrder)
  <2>1. \A p \in S : RuleOf(l)[p] = RuleOf(more)[p]
    BY <1>2, <1>7 DEF RuleOf
  <2>2. Tells(r, S, RuleOf(l), PlaceOrder)
    BY DEF Brought
  <2> HIDE DEF S
  <2> QED
    BY <2>1, <2>2, TellsAlike
<1> HIDE DEF S, G, read
<1>11. Tells(read.rules, T, RuleOf(more), PlaceOrder)
  <2>1. \A q \in G : RuleOf(more)[<<n + 1>> \o q] = RuleAt(path)[q]
    BY <1>1, <1>2, <1>8 DEF RuleOf, RuleAt
  <2>2. n + 1 \in Nat /\ G \in SUBSET Seq(Nat)
    BY <1>1, <1>3
  <2> QED
    BY <1>1, <2>1, <2>2, TellsBehind
<1>12. ASSUME NEW p \in S, NEW q \in T PROVE <<p, q>> \in PlaceOrder
  <2>1. q \in Seq(Nat) \ {<<>>} /\ Head(q) = n + 1
    BY <1>8 DEF Prefixed
  <2>2. p \in Seq(Nat) \ {<<>>} /\ Head(p) < n + 1
    BY <1>3, <1>7
  <2> QED
    BY <2>1, <2>2, OrderedByHead
<1> HIDE DEF T
<1>13. Tells(r \o read.rules, PlacesOf(more), RuleOf(more), PlaceOrder)
  BY <1>1, <1>9, <1>10, <1>11, <1>12, TellsBoth
<1>14. x \cup read.excludes = EntriesOf(more)
  <2>1. ToSet(more) = ToSet(l) \cup {path}
    BY <1>2, <1>3, <1>4, <1>5 DEF ToSet
  <2>2. x = EntriesOf(l)
    BY DEF Brought
  <2> QED
    BY <1>1, <2>1, <2>2 DEF EntriesOf
<1> QED
  BY <1>13, <1>14 DEF Brought, read, more

LEMMA GoodStays ==
    ASSUME UNCHANGED disk, NEW path, NEW kind PROVE Good(path, kind)' = Good(path, kind)
<1>1. Good(path, kind)' =
        {p \in Places(path)' : LineAt(path, p)'.kind = kind /\ ~Fails(path, p)'}
  BY DEF Good
<1> QED
  BY <1>1, PlacesStay DEF Good

LEMMA BroughtStays ==
    ASSUME UNCHANGED disk, NEW l, NEW r, NEW x
    PROVE  Brought(l, r, x)' <=> Brought(l, r, x)
<1>1. PlacesOf(l)' = PlacesOf(l)
  <2>1. PlacesOf(l)' = UNION {Prefixed(k, Good(l[k], "rule")') : k \in DOMAIN l}
    BY DEF PlacesOf, Prefixed
  <2>2. \A k \in DOMAIN l : Good(l[k], "rule")' = Good(l[k], "rule")
    BY GoodStays
  <2> QED
    BY <2>1, <2>2 DEF PlacesOf
<1>2. RuleOf(l)' = RuleOf(l)
  BY DEF RuleOf, LineAt, SourceAt, Follow, IsInclude, LinesOf, Taken, Sources, FilePaths,
         FileKinds, Nowhere
<1>3. EntriesOf(l)' = EntriesOf(l)
  <2>1. \A f \in ToSet(l) : EntriesWritten(f)' = EntriesWritten(f)
    <3> SUFFICES ASSUME NEW f \in ToSet(l) PROVE EntriesWritten(f)' = EntriesWritten(f)
      OBVIOUS
    <3>1. EntriesWritten(f)' =
            {[text |-> LineAt(f, p)'.text,
              subdomains_only |-> LineAt(f, p)'.subdomains_only] : p \in Good(f, "entry")'}
      BY DEF EntriesWritten
    <3> QED
      BY <3>1, GoodStays, PlacesStay DEF EntriesWritten
  <2>2. EntriesOf(l)' = UNION {EntriesWritten(f)' : f \in ToSet(l)}
    BY DEF EntriesOf, ToSet
  <2> QED
    BY <2>1, <2>2 DEF EntriesOf
<1> QED
  BY <1>1, <1>2, <1>3 DEF Brought

(* What is written below the loads, sorted, is what has been loaded. *)
LEMMA BroughtIsWritten ==
    ASSUME LoadsInv, Brought(loads, rules, excludes)
    PROVE  LoadedAsWritten
<1> DEFINE S == PlacesOf(loads)
           places == Sorted(S, Before)
<1>1. S = UNION {{<<k>> \o p : p \in Good(loads[k], "rule")} : k \in DOMAIN loads}
  BY DEF PlacesOf, Prefixed
<1>2. S \in SUBSET Seq(Nat)
  <2> SUFFICES ASSUME NEW k \in DOMAIN loads, NEW q \in Prefixed(k, Good(loads[k], "rule"))
               PROVE  q \in Seq(Nat)
    BY DEF PlacesOf
  <2>1. PICK p \in Good(loads[k], "rule") : q = <<k>> \o p
    BY DEF Prefixed
  <2>2. loads \in Seq(SourcePaths) /\ LinesTyped
    BY DEF LoadsInv, FilesInv
  <2>3. k \in Nat /\ loads[k] \in SourcePaths
    BY <2>2
  <2>4. p \in Seq(Nat)
    BY <2>2, <2>3, LoadBrings
  <2> QED
    BY <2>1, <2>3, <2>4, Behind
<1>3. RulesWritten = [n \in DOMAIN places |->
                        Written(LineAt(loads[Head(places[n])], Tail(places[n])).tokens)]
  BY <1>1 DEF RulesWritten
<1>4. rules \in Seq(Rule)
  BY DEF LoadsInv, FilesInv, RulesTyped
<1>5. Tells(rules, S, RuleOf(loads), PlaceOrder)
      /\ excludes = EntriesOf(loads)
  BY DEF Brought
<1> HIDE DEF S
<1>6. /\ rules = [n \in DOMAIN places |-> RuleOf(loads)[places[n]]]
      /\ \A n \in DOMAIN places : places[n] \in S
  BY <1>2, <1>4, <1>5, PlacesSorted DEF ValuesOf
<1> HIDE DEF places
<1>7. \A n \in DOMAIN places :
        RuleOf(loads)[places[n]] =
            Written(LineAt(loads[Head(places[n])], Tail(places[n])).tokens)
  BY <1>2, <1>6 DEF RuleOf
<1>8. rules = RulesWritten
  BY <1>3, <1>6, <1>7
<1> QED
  BY <1>5, <1>8 DEF LoadedAsWritten, EntriesOf

LEMMA InitBrought == Init => Brought(loads, rules, excludes)
<1> SUFFICES ASSUME Init PROVE Brought(loads, rules, excludes)
  OBVIOUS
<1>1. loads = <<>> /\ rules = <<>> /\ excludes = {}
  BY DEF Init
<1>2. PlacesOf(<<>>) = {} /\ ToSet(<<>>) = {}
  BY DEF PlacesOf, ToSet
<1>3. Tells(<<>>, {}, RuleOf(<<>>), PlaceOrder)
  BY TellsNothing
<1>4. Brought(<<>>, <<>>, {})
  BY <1>2, <1>3 DEF Brought, EntriesOf
<1> QED
  BY <1>1, <1>4

LEMMA LoadKeepsBrought ==
    ASSUME LoadsInv, Brought(loads, rules, excludes), NEW path \in SourcePaths, Load(path)
    PROVE  Brought(loads, rules, excludes)'
<1> DEFINE read == Loaded[MaxIncludeDepth + 1][path]
           l == Append(loads, path)
           r == rules \o read.rules
           x == excludes \cup read.excludes
<1>1. loads' = l /\ rules' = r /\ excludes' = x /\ disk' = disk
  BY DEF Load
<1>2. Brought(l, r, x)
  <2>1. LinesTyped /\ loads \in Seq(SourcePaths) /\ rules \in Seq(Rule)
    BY DEF LoadsInv, FilesInv, RulesTyped
  <2> QED
    BY <2>1, BroughtMore
<1> HIDE DEF l, r, x
<1>3. PICK l0, r0, x0 : l0 = l /\ r0 = r /\ x0 = x
  OBVIOUS
<1>4. Brought(l0, r0, x0)'
  BY <1>1, <1>2, <1>3, BroughtStays
<1>5. loads' = l0 /\ rules' = r0 /\ excludes' = x0
  BY <1>1, <1>3
<1> QED
  BY <1>4, <1>5 DEF Brought, PlacesOf, RuleOf, EntriesOf

(* RuleSet::load_file, load_text, parse_rule_line, load_exclude_file: the rules are those
   of the well-formed lines, in the order of the text with each include replaced by its
   file, and the excluded names those of the good entries, for any disk, includes and
   cycles of any depth, and any number of loads.                              *)
THEOREM FilesAreLoadedAsWritten == Spec => []LoadedAsWritten
<1> DEFINE Inv == LoadsInv /\ Brought(loads, rules, excludes)
<1>1. Inv /\ [Next]_vars => Inv'
  <2> SUFFICES ASSUME Inv, [Next]_vars PROVE Inv'
    OBVIOUS
  <2>1. \A list \in FileKinds, path \in RuleFileNames \cup ExcludeFileNames :
            [list |-> list, path |-> path] \in SourcePaths
    BY FilesAssumption DEF FilesAssumption, SourcePaths, FilePaths
  <2>2. CASE Next
    <3>1. PICK list \in FileKinds, path \in RuleFileNames \cup ExcludeFileNames :
            Load([list |-> list, path |-> path])
      BY <2>2 DEF Next, FileKinds
    <3> QED
      BY <2>1, <3>1, LoadKeepsLoads, LoadKeepsBrought
  <2>3. CASE UNCHANGED vars
    <3>1. LoadsInv'
      BY <2>3, LoadsStay
    <3>2. PICK l, r, x : l = loads /\ r = rules /\ x = excludes
      OBVIOUS
    <3>3. Brought(l, r, x)'
      BY <2>3, <3>2, BroughtStays DEF vars
    <3>4. loads' = l /\ rules' = r /\ excludes' = x
      BY <2>3, <3>2 DEF vars
    <3> QED
      BY <3>1, <3>3, <3>4 DEF Brought, PlacesOf, RuleOf, EntriesOf
  <2> QED
    BY <2>2, <2>3
<1>2. Inv => LoadedAsWritten
  BY BroughtIsWritten
<1> QED
  BY <1>1, <1>2, InitLoads, InitBrought, PTL DEF Spec

(* RuleSet::match: a rule that is satisfied is not overlooked so that nothing matches,
   and what matches is satisfied, for any rules that can be loaded.           *)
THEOREM SatisfiedIffMatched == Spec => []MatchIffSatisfied
<1>1. FilesInv => MatchIffSatisfied
  BY MatchIffSatisfiedHolds DEF FilesInv
<1> QED
  BY <1>1, FilesAreTyped, PTL

(* RuleSet::match: no satisfied rule has a higher priority than the one chosen. *)
THEOREM PriorityAlwaysDecides == Spec => []PriorityDecides
<1>1. FilesInv => PriorityDecides
  BY PriorityDecidesHolds DEF FilesInv
<1> QED
  BY <1>1, FilesAreTyped, PTL

(* RuleSet::match: with one priority and without exact rules, the longest matching
   suffix wins, then the order of the files.                                  *)
THEOREM LongestSuffixAlwaysWins == Spec => []LongestSuffixWins
<1>1. FilesInv => LongestSuffixWins
  BY LongestSuffixWinsHolds DEF FilesInv
<1> QED
  BY <1>1, FilesAreTyped, PTL

LEMMA ExcludedByLabelsHolds ==
    ASSUME excludes \subseteq Entry PROVE ExcludedByLabels
<1> SUFFICES ASSUME NEW host \in Hosts
             PROVE  Excluded(host) <=>
                        \E e \in excludes : /\ IsPrefix(e.text, host)
                                            /\ e.subdomains_only => Len(host) > Len(e.text)
  BY DEF ExcludedByLabels
<1>1. ASSUME NEW e \in excludes, host # Unnamed
      PROVE  HostMatchesSuffix(host, e.text, e.subdomains_only) <=>
                /\ IsPrefix(e.text, host)
                /\ e.subdomains_only => Len(host) > Len(e.text)
  <2>1. e.text \in Hosts \ {Unnamed} /\ e.subdomains_only \in BOOLEAN
    BY DEF Entry
  <2> QED
    BY <1>1, <2>1, SuffixByLabels
<1>2. ASSUME NEW e \in excludes, host = Unnamed PROVE ~IsPrefix(e.text, host)
  <2>1. e.text \in Hosts \ {Unnamed}
    BY DEF Entry
  <2>2. e.text \in Seq(Labels) /\ host \in Seq(Labels) /\ Len(host) = 0
    BY <1>2, <2>1, HostIsSequence DEF Unnamed
  <2>3. Len(e.text) \in 1..Len(e.text) /\ Len(e.text) \in Nat
    BY <2>1, NamesHaveSizes, HostIsSequence
  <2>4. ~(Len(e.text) <= Len(host))
    BY <2>2, <2>3
  <2> QED
    BY <2>2, <2>4, PrefixElements
<1> QED
  BY <1>1, <1>2 DEF Excluded

(* RuleSet::excluded: a host is excluded exactly if an entry is its name or, label by
   label, a domain above it, for any names and any exclude lists; no other name that
   merely ends with the same characters is (host_matches_suffix).             *)
THEOREM AlwaysExcludedByLabels == Spec => []ExcludedByLabels
<1>1. FilesInv => ExcludedByLabels
  BY ExcludedByLabelsHolds DEF FilesInv
<1> QED
  BY <1>1, FilesAreTyped, PTL
=============================================================================
