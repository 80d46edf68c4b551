----------------------------- MODULE FilterProofs -----------------------------
(***************************************************************************)
(* Recursion over 1 .. N, and what Filter returns. The library's induction  *)
(* theorems take an operator, so a recursion is handled by its least        *)
(* counterexample, and its step is given as a function.                     *)
(***************************************************************************)
EXTENDS Filter, SequenceTheorems, WellFoundedInduction, TLAPS

\* Every set of natural numbers that is not empty has a least element.
LEMMA LeastNatural ==
    ASSUME NEW T, T \subseteq Nat, T # {}
    PROVE  \E n \in T : \A m \in T : n <= m
<1> DEFINE Before == {ss \in Nat \X Nat : ss[1] < ss[2]}
<1>1. IsWellFoundedOn(Before, Nat)
  BY NatLessThanWellFounded DEF OpToRel
<1>2. PICK n \in T : \A m \in T : ~(<<m, n>> \in Before)
  <2> HIDE DEF Before
  <2>1. QED
    BY <1>1, WFMin
<1>3. ASSUME NEW m \in T, m < n
      PROVE  FALSE
  <2>1. <<m, n>> \in Nat \X Nat /\ <<m, n>>[1] < <<m, n>>[2]
    BY <1>3
  <2>2. <<m, n>> \in Before
    BY ONLY <2>1
  <2>3. QED
    BY <1>2, <2>2
<1>4. QED
  BY <1>3

\* The values of a primitive recursion up to N, for a step given as a function.
Runs(f, N, base, step) ==
    /\ DOMAIN f = 0 .. N
    /\ f[0] = base
    /\ \A n \in 1 .. N : f[n] = step[n][f[n - 1]]

\* A recursion over 1 .. N whose step stays in X has values, all of them in X.
LEMMA RecursionExists ==
    ASSUME NEW N \in Nat, NEW X, NEW base \in X, NEW step \in [1 .. N -> [X -> X]]
    PROVE  \E f \in [0 .. N -> X] : Runs(f, N, base, step)
<1> DEFINE P(n) == \E f \in [0 .. n -> X] : Runs(f, n, base, step)
           Bad == {n \in 0 .. N : ~P(n)}
<1>1. SUFFICES Bad = {}
  OBVIOUS
<1>2. SUFFICES ASSUME NEW n \in 0 .. N, ~P(n), \A m \in 0 .. N : ~P(m) => n <= m
               PROVE  FALSE
  <2>1. Bad \subseteq Nat /\ \A m : m \in Bad <=> m \in 0 .. N /\ ~P(m)
    OBVIOUS
  <2> HIDE DEF Bad, P
  <2>2. QED
    BY <1>2, <2>1, LeastNatural
<1>3. P(0)
  <2> DEFINE f == [i \in 0 .. 0 |-> base]
  <2>1. f \in [0 .. 0 -> X] /\ Runs(f, 0, base, step)
    BY DEF Runs
  <2>2. QED
    BY <2>1
<1>4. n # 0 /\ n \in 1 .. N /\ n - 1 \in 0 .. N /\ n - 1 < n
  <2> HIDE DEF P
  <2>1. QED
    BY <1>2, <1>3
<1>5. P(n - 1)
  <2> HIDE DEF P
  <2>1. QED
    BY <1>2, <1>4
<1>6. PICK f \in [0 .. n - 1 -> X] : Runs(f, n - 1, base, step)
  BY <1>5
<1> DEFINE last == step[n][f[n - 1]]
           g == [i \in 0 .. n |-> IF i = n THEN last ELSE f[i]]
<1>7. last \in X
  BY <1>4, <1>6
<1>8. g \in [0 .. n -> X]
  <2> HIDE DEF last
  <2>1. QED
    BY <1>4, <1>6, <1>7
<1>9. Runs(g, n, base, step)
  <2>1. DOMAIN g = 0 .. n /\ g[0] = base
    BY <1>4, <1>6 DEF Runs
  <2>2. ASSUME NEW i \in 1 .. n
        PROVE  g[i] = step[i][g[i - 1]]
    <3>1. CASE i = n
      <4>1. g[i] = last /\ g[i - 1] = f[n - 1]
        BY <1>4, <3>1
      <4>2. QED
        BY <3>1, <4>1
    <3>2. CASE i # n
      <4>1. i \in 1 .. n - 1 /\ g[i] = f[i] /\ g[i - 1] = f[i - 1]
        BY <1>4, <3>2
      <4>2. f[i] = step[i][f[i - 1]]
        BY <1>6, <4>1 DEF Runs
      <4>3. QED
        BY <4>1, <4>2
    <3>3. QED
      BY <3>1, <3>2
  <2> HIDE DEF g
  <2>3. QED
    BY <2>1, <2>2 DEF Runs
<1>10. QED
  <2> HIDE DEF g
  <2>1. QED
    BY <1>2, <1>8, <1>9

\* Two functions that start alike and step alike are alike.
StepAlike(f, g, N) ==
    /\ f[0] = g[0]
    /\ \A n \in 1 .. N : f[n - 1] = g[n - 1] => f[n] = g[n]

LEMMA SameValues ==
    ASSUME NEW N \in Nat, NEW f, NEW g, StepAlike(f, g, N)
    PROVE  \A n \in 0 .. N : f[n] = g[n]
<1> DEFINE Bad == {n \in 0 .. N : f[n] # g[n]}
<1>1. SUFFICES ASSUME NEW n \in 0 .. N, f[n] # g[n], \A m \in 0 .. N : f[m] # g[m] => n <= m
               PROVE  FALSE
  <2>1. Bad \subseteq Nat /\ \A m : m \in Bad <=> m \in 0 .. N /\ f[m] # g[m]
    OBVIOUS
  <2> HIDE DEF Bad
  <2>2. QED
    BY <1>1, <2>1, LeastNatural
<1>2. n - 1 \in 0 .. N /\ n \in 1 .. N /\ n - 1 < n
  BY <1>1 DEF StepAlike
<1>3. f[n - 1] = g[n - 1]
  BY <1>1, <1>2
<1>4. QED
  BY <1>1, <1>2, <1>3 DEF StepAlike

-------------------------------------------------------------------------------
(***************************************************************************)
(* What Only returns, element by element. A recursive function is the last  *)
(* value of a run, and what it does to a sequence with one element more     *)
(* follows by comparing two runs.                                          *)
(***************************************************************************)
OnlyRun(f, s, S) ==
    /\ f[0] = << >>
    /\ \A n \in 1 .. Len(s) : f[n] = IF s[n] \in S THEN Append(f[n - 1], s[n]) ELSE f[n - 1]
    /\ Only(s, S) = f[Len(s)]

LEMMA OnlyValues ==
    ASSUME NEW T, NEW s \in Seq(T), NEW S
    PROVE  \E f \in [0 .. Len(s) -> Seq(T)] : OnlyRun(f, s, S)
<1> DEFINE N == Len(s)
           Grown(n, q) == IF s[n] \in S THEN Append(q, s[n]) ELSE q
           step == [n \in 1 .. N |-> [q \in Seq(T) |-> Grown(n, q)]]
           F(f) == [n \in 0 .. N |-> IF n = 0 THEN << >>
            ELSE IF s[n] \in S THEN Append(f[n - 1], s[n]) ELSE f[n - 1]]
<1>1. N \in Nat /\ << >> \in Seq(T) /\ \A n \in 1 .. N, q \in Seq(T) : Grown(n, q) \in Seq(T)
  OBVIOUS
<1>2. PICK f \in [0 .. N -> Seq(T)] : Runs(f, N, << >>, step)
  <2> HIDE DEF Grown
  <2>1. step \in [1 .. N -> [Seq(T) -> Seq(T)]]
    BY <1>1
  <2> HIDE DEF step
  <2>2. QED
    BY <1>1, <2>1, RecursionExists
<1>3. f[0] = << >> /\ \A n \in 1 .. N : f[n - 1] \in Seq(T) /\ f[n] = Grown(n, f[n - 1])
  <2>1. f[0] = << >>
    BY <1>1, <1>2 DEF Runs
  <2>2. ASSUME NEW n \in 1 .. N
        PROVE  f[n - 1] \in Seq(T) /\ f[n] = Grown(n, f[n - 1])
    <3>1. f[n - 1] \in Seq(T)
      BY <1>1, <1>2
    <3> HIDE DEF Grown
    <3>2. f[n] = step[n][f[n - 1]]
      <4> HIDE DEF step
      <4>1. QED
        BY <1>2 DEF Runs
    <3>3. step[n] = [q \in Seq(T) |-> Grown(n, q)]
      OBVIOUS
    <3> HIDE DEF step
    <3>4. QED
      BY <3>1, <3>2, <3>3
  <2>3. QED
    BY <2>1, <2>2
<1>4. f = F(f)
  <2>1. f = [n \in 0 .. N |-> IF n = 0 THEN << >> ELSE Grown(n, f[n - 1])]
    <3> HIDE DEF Grown
    <3>1. QED
      BY <1>2, <1>3
  <2>2. QED
    BY <2>1
<1> DEFINE h == CHOOSE h : h = F(h)
<1>5. h = F(h)
  BY <1>4
<1>6. Only(s, S) = h[N]
  BY DEF Only
<1> HIDE DEF h
<1>7. h[0] = << >> /\ \A n \in 1 .. N : h[n] = Grown(n, h[n - 1])
  <2>1. \A n \in 0 .. N : h[n] = F(h)[n]
    BY <1>5
  <2>2. 0 \in 0 .. N /\ \A n \in 1 .. N : n \in 0 .. N /\ n # 0
    BY <1>1
  <2>3. QED
    BY <2>1, <2>2
<1> HIDE DEF Grown, F
<1>8. \A n \in 0 .. N : f[n] = h[n]
  <2>1. StepAlike(f, h, N)
    BY <1>3, <1>7 DEF StepAlike
  <2>2. QED
    BY <1>1, <2>1, SameValues
<1>9. Only(s, S) = f[N]
  BY <1>1, <1>6, <1>8
<1>10. QED
   BY <1>2, <1>3, <1>9 DEF Grown, OnlyRun

LEMMA OnlyEmpty == \A S : Only(<< >>, S) = << >>
<1> TAKE S
<1>1. << >> \in Seq({}) /\ Len(<< >>) = 0
  OBVIOUS
<1>2. PICK f \in [0 .. Len(<< >>) -> Seq({})] : OnlyRun(f, << >>, S)
  BY <1>1, OnlyValues
<1>3. QED
  BY <1>1, <1>2 DEF OnlyRun

LEMMA OnlyType ==
    ASSUME NEW T, NEW s \in Seq(T), NEW S
    PROVE  Only(s, S) \in Seq(T)
<1>1. Len(s) \in 0 .. Len(s)
  BY LenProperties
<1>2. PICK f \in [0 .. Len(s) -> Seq(T)] : OnlyRun(f, s, S)
  BY OnlyValues
<1>3. QED
  BY <1>1, <1>2 DEF OnlyRun

LEMMA OnlyAppend ==
    ASSUME NEW T, NEW s \in Seq(T), NEW x \in T, NEW S
    PROVE  Only(Append(s, x), S) = IF x \in S THEN Append(Only(s, S), x) ELSE Only(s, S)
<1>1. PICK t : t = Append(s, x)
  OBVIOUS
<1>2. PICK N : N = Len(s)
  OBVIOUS
<1>3. N \in Nat /\ t \in Seq(T) /\ Len(t) = N + 1 /\ t[N + 1] = x
      /\ \A n \in 1 .. N : t[n] = s[n] /\ n \in 1 .. N + 1
  BY <1>1, <1>2
<1>4. PICK f \in [0 .. Len(s) -> Seq(T)] : OnlyRun(f, s, S)
  BY OnlyValues
<1>5. PICK g \in [0 .. Len(t) -> Seq(T)] : OnlyRun(g, t, S)
  BY <1>3, OnlyValues
<1>6. StepAlike(f, g, N)
  BY <1>2, <1>3, <1>4, <1>5 DEF OnlyRun, StepAlike
<1>7. \A n \in 0 .. N : f[n] = g[n]
  <2>1. N \in Nat
    BY <1>3
  <2>2. QED
    BY <1>6, <2>1, SameValues
<1>8. f[N] = g[N] /\ N + 1 \in 1 .. N + 1 /\ N + 1 - 1 = N
  BY <1>3, <1>7
<1>9. g[N + 1] = IF x \in S THEN Append(g[N], x) ELSE g[N]
  <2>1. \A n \in 1 .. Len(t) : g[n] = IF t[n] \in S THEN Append(g[n - 1], t[n]) ELSE g[n - 1]
    BY <1>5 DEF OnlyRun
  <2>2. QED
    BY <1>3, <1>8, <2>1
<1>10. QED
  BY <1>1, <1>2, <1>3, <1>4, <1>5, <1>8, <1>9 DEF OnlyRun

\* What Only leaves of a list is no longer, is in the set, and is shorter when something is left out.
LEMMA OnlyLeaves ==
    ASSUME NEW T, NEW s \in Seq(T), NEW S
    PROVE  /\ Len(Only(s, S)) <= Len(s)
           /\ \A i \in 1 .. Len(Only(s, S)) : Only(s, S)[i] \in S
           /\ (\E i \in 1 .. Len(s) : s[i] \notin S) => Len(Only(s, S)) < Len(s)
<1>1. PICK f \in [0 .. Len(s) -> Seq(T)] : OnlyRun(f, s, S)
  BY OnlyValues
<1>2. PICK size \in Nat : size = Len(s)
  OBVIOUS
<1> DEFINE Holds(n) == /\ Len(f[n]) <= n
                       /\ \A i \in 1 .. Len(f[n]) : f[n][i] \in S
                       /\ (\E i \in 1 .. n : s[i] \notin S) => Len(f[n]) < n
           Bad == {n \in 0 .. size : ~Holds(n)}
<1>3. Holds(size)
  <2>1. SUFFICES ASSUME NEW m \in 0 .. size, ~Holds(m), \A k \in 0 .. size : ~Holds(k) => m <= k
                 PROVE  FALSE
    <3>1. Bad \subseteq Nat /\ \A m : m \in Bad <=> m \in 0 .. size /\ ~Holds(m)
      OBVIOUS
    <3> HIDE DEF Bad, Holds
    <3>2. size \in 0 .. size
      OBVIOUS
    <3>3. QED
      BY <2>1, <3>1, <3>2, LeastNatural
  <2>2. Holds(0)
    BY <1>1, <1>2 DEF OnlyRun
  <2>3. m \in 1 .. size /\ m - 1 \in 0 .. size /\ m - 1 < m
    <3> HIDE DEF Holds
    <3>1. m # 0
      BY <2>1, <2>2
    <3>2. QED
      BY <3>1
  <2>4. Holds(m - 1)
    <3> HIDE DEF Holds
    <3>1. QED
      BY <2>1, <2>3
  <2>5. PICK q \in Seq(T) : q = f[m - 1]
    BY <1>1, <1>2, <2>3
  <2>6. PICK x \in T : x = s[m]
    BY <1>2, <2>3
  <2>7. PICK r, n \in Nat : r = f[m] /\ n = Len(q)
    OBVIOUS
  <2>8. /\ n <= m - 1 /\ \A i \in 1 .. n : q[i] \in S
        /\ (\E i \in 1 .. m - 1 : s[i] \notin S) => n < m - 1
    BY <2>4, <2>5, <2>7
  <2>9. CASE x \notin S
    <3>1. r = q
      BY <1>1, <1>2, <2>3, <2>5, <2>6, <2>7, <2>9 DEF OnlyRun
    <3>2. Holds(m)
      BY <2>3, <2>7, <2>8, <3>1
    <3>3. QED
      BY <2>1, <3>2
  <2>10. CASE x \in S
    <3>1. r = Append(q, x)
      BY <1>1, <1>2, <2>3, <2>5, <2>6, <2>7, <2>10 DEF OnlyRun
    <3>2. Len(r) = n + 1 /\ r[n + 1] = x /\ \A i \in 1 .. n : r[i] = q[i]
      BY <2>7, <3>1
    <3>3. \A i \in 1 .. Len(r) : r[i] \in S
      BY <2>8, <2>10, <3>2
    <3>4. (\E i \in 1 .. m : s[i] \notin S) => Len(r) < m
      <4>1. ASSUME NEW i \in 1 .. m, s[i] \notin S
            PROVE  i \in 1 .. m - 1
        BY <2>3, <2>6, <2>10, <4>1
      <4>2. QED
        BY <2>3, <2>8, <3>2, <4>1
    <3>5. Holds(m)
      BY <2>3, <2>7, <2>8, <3>2, <3>3, <3>4
    <3>6. QED
      BY <2>1, <3>5
  <2>11. QED
    BY <2>9, <2>10
<1>4. QED
  BY <1>1, <1>2, <1>3 DEF OnlyRun

\* What is in the set stays.
LEMMA OnlyKeeps ==
    ASSUME NEW T, NEW s \in Seq(T), NEW S, NEW i \in 1 .. Len(s), s[i] \in S
    PROVE  \E j \in 1 .. Len(Only(s, S)) : Only(s, S)[j] = s[i]
<1>1. PICK f \in [0 .. Len(s) -> Seq(T)] : OnlyRun(f, s, S)
  BY OnlyValues
<1>2. PICK size \in Nat : size = Len(s)
  OBVIOUS
<1> DEFINE Holds(n) == i <= n => \E j \in 1 .. Len(f[n]) : f[n][j] = s[i]
           Bad == {n \in 0 .. size : ~Holds(n)}
<1>3. Holds(size)
  <2>1. SUFFICES ASSUME NEW m \in 0 .. size, ~Holds(m), \A k \in 0 .. size : ~Holds(k) => m <= k
                 PROVE  FALSE
    <3>1. Bad \subseteq Nat /\ \A m : m \in Bad <=> m \in 0 .. size /\ ~Holds(m)
      OBVIOUS
    <3> HIDE DEF Bad, Holds
    <3>2. size \in 0 .. size
      OBVIOUS
    <3>3. QED
      BY <2>1, <3>1, <3>2, LeastNatural
  <2>2. i <= m
    BY <2>1
  <2>3. m \in 1 .. size /\ m - 1 \in 0 .. size /\ m - 1 < m
    BY <1>2, <2>2
  <2>4. Holds(m - 1)
    <3> HIDE DEF Holds
    <3>1. QED
      BY <2>1, <2>3
  <2>5. PICK q \in Seq(T) : q = f[m - 1]
    BY <1>1, <1>2, <2>3
  <2>6. PICK x \in T : x = s[m]
    BY <1>2, <2>3
  <2>7. PICK r, n \in Nat : r = f[m] /\ n = Len(q)
    OBVIOUS
  <2>8. r = IF x \in S THEN Append(q, x) ELSE q
    BY <1>1, <1>2, <2>3, <2>5, <2>6, <2>7 DEF OnlyRun
  <2>9. CASE i = m
    <3>1. r = Append(q, x) /\ x = s[i]
      BY <2>6, <2>8, <2>9
    <3>2. Len(r) = n + 1 /\ r[n + 1] = x /\ n + 1 \in 1 .. n + 1
      BY <2>7, <3>1
    <3>3. QED
      BY <2>1, <2>7, <3>1, <3>2
  <2>10. CASE i # m
    <3>1. PICK j \in 1 .. n : q[j] = s[i]
      BY <2>2, <2>3, <2>4, <2>5, <2>7, <2>10
    <3>2. j \in 1 .. Len(r) /\ r[j] = q[j]
      BY <2>7, <2>8, <3>1
    <3>3. QED
      BY <2>1, <2>7, <3>1, <3>2
  <2>11. QED
    BY <2>9, <2>10
<1>4. QED
  BY <1>1, <1>2, <1>3 DEF OnlyRun
================================================================================
