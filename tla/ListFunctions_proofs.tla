----------------------- MODULE ListFunctions_proofs -------------------------
(***************************************************************************)
(* What the recursive functions of ListFunctions compute, for every list.  *)
(* The library has induction only for operators; here it is over sets.     *)
(***************************************************************************)
EXTENDS ListFunctions, FiniteSetTheorems, WellFoundedInduction, TLAPS

----------------------------------------------------------------------------
(* Recursion along a sequence *)

\* Induction up to n, over a set of numbers.
LEMMA Upwards ==
    ASSUME NEW n \in Nat, NEW K, 0 \in K,
           \A k \in 1 .. n : k - 1 \in K => k \in K
    PROVE  0 .. n \subseteq K
<1> DEFINE Bad == {k \in 0 .. n : k \notin K}
<1> SUFFICES ASSUME Bad # {} PROVE FALSE
  OBVIOUS
<1>1. PICK k \in Bad : \A j \in Bad : <<j, k>> \notin OpToRel(<, Nat)
  <2>1. Bad \subseteq Nat
    OBVIOUS
  <2> HIDE DEF Bad
  <2> QED
    BY <2>1, NatLessThanWellFounded, WFMin
<1>2. k # 0 /\ k \in 1 .. n /\ k - 1 \in 0 .. n
  OBVIOUS
<1>3. k - 1 \in K
  <2> SUFFICES ASSUME k - 1 \in Bad PROVE FALSE
    BY <1>2
  <2>1. <<k - 1, k>> \in OpToRel(<, Nat)
    BY <1>2 DEF OpToRel
  <2> QED
    BY <1>1, <2>1
<1> QED
  BY <1>2, <1>3

StepsOver(n, V, base, step) ==
    n \in Nat /\ base \in V /\ step \in [1 .. n -> [V -> V]]

Follows(f, n, V, base, step) ==
    /\ f \in [0 .. n -> V] /\ f[0] = base
    /\ \A i \in 1 .. n : f[i] = step[i][f[i - 1]]

\* The entries of a sequence.
LEMMA Entries ==
    ASSUME NEW S, NEW s \in Seq(S)
    PROVE  Len(s) \in Nat /\ DOMAIN s = 1 .. Len(s) /\ \A n \in 1 .. Len(s) : s[n] \in S
OBVIOUS

\* A function on 0 .. n may be defined by its value at 0 and by a step.
LEMMA Recursion ==
    ASSUME NEW n, NEW V, NEW base, NEW step, StepsOver(n, V, base, step)
    PROVE  \E f : Follows(f, n, V, base, step)
<1>0. n \in Nat /\ base \in V /\ step \in [1 .. n -> [V -> V]]
  BY DEF StepsOver
<1> DEFINE Starts(f, m) == /\ f \in [0 .. m -> V] /\ f[0] = base
                           /\ \A i \in 1 .. m : f[i] = step[i][f[i - 1]]
           Reached == {m \in 0 .. n : \E f : Starts(f, m)}
<1>1. 0 \in Reached
  <2>1. Starts([i \in 0 .. 0 |-> base], 0)
    BY <1>0
  <2> HIDE DEF Starts
  <2> QED
    BY <1>0, <2>1
<1>2. \A m \in 1 .. n : m - 1 \in Reached => m \in Reached
  <2> SUFFICES ASSUME NEW m \in 1 .. n, NEW f, Starts(f, m - 1)
               PROVE  \E g : Starts(g, m)
    <3> HIDE DEF Starts
    <3> QED
      BY <1>0
  <2> DEFINE g == [i \in 0 .. m |-> IF i = m THEN step[m][f[m - 1]] ELSE f[i]]
  <2>1. f[m - 1] \in V
    BY <1>0
  <2>2. step[m][f[m - 1]] \in V
    BY <1>0, <2>1
  <2>3. g \in [0 .. m -> V] /\ g[0] = base
    BY <1>0, <2>2
  <2>4. ASSUME NEW i \in 1 .. m PROVE g[i] = step[i][g[i - 1]]
    <3>1. g[i - 1] = f[i - 1]
      BY <1>0
    <3>2. CASE i = m
      <4>1. g[m] = step[m][f[m - 1]]
        BY <1>0
      <4>2. g[m - 1] = f[m - 1]
        BY <3>1, <3>2
      <4> HIDE DEF g
      <4> QED
        BY <3>2, <4>1, <4>2
    <3>3. CASE i # m
      <4>1. i \in 1 .. m - 1 /\ g[i] = f[i]
        BY <1>0, <3>3
      <4>2. f[i] = step[i][f[i - 1]]
        BY <4>1
      <4> QED
        BY <3>1, <4>1, <4>2
    <3> QED
      BY <3>2, <3>3
  <2>5. Starts(g, m)
    BY <2>3, <2>4
  <2> QED
    BY <2>5
<1>3. n \in Reached
  <2> HIDE DEF Reached
  <2>1. 0 .. n \subseteq Reached
    BY <1>0, <1>1, <1>2, Upwards
  <2> QED
    BY <1>0, <2>1
<1> QED
  BY <1>3 DEF Follows

\* Total adds the numbers up one by one.
LEMMA Totals ==
    ASSUME NEW s \in Seq(Int)
    PROVE  \E sum \in [0 .. Len(s) -> Int] :
              /\ sum[0] = 0 /\ \A n \in 1 .. Len(s) : sum[n] = sum[n - 1] + s[n]
              /\ Total(s) = sum[Len(s)]
<1> DEFINE Body(f, n) == IF n = 0 THEN 0 ELSE f[n - 1] + s[n]
           step == [n \in 1 .. Len(s) |-> [x \in Int |-> x + s[n]]]
           upTo == CHOOSE upTo : upTo = [n \in 0 .. Len(s) |-> Body(upTo, n)]
<1>0. Len(s) \in Nat /\ \A n \in 1 .. Len(s) : s[n] \in Int
  OBVIOUS
<1>1. step \in [1 .. Len(s) -> [Int -> Int]] /\ 0 \in Int
  BY <1>0
<1>2. PICK f \in [0 .. Len(s) -> Int] :
         f[0] = 0 /\ \A n \in 1 .. Len(s) : f[n] = step[n][f[n - 1]]
  <2> DEFINE N == Len(s)
             I == Int
  <2>1. StepsOver(N, I, 0, step)
    BY <1>0, <1>1 DEF StepsOver
  <2> HIDE DEF step, N, I
  <2>2. PICK f : Follows(f, N, I, 0, step)
    BY <2>1, Recursion
  <2> QED
    BY <2>2 DEF Follows, N, I
<1>3. ASSUME NEW n \in 1 .. Len(s) PROVE f[n] = f[n - 1] + s[n]
  <2>1. n - 1 \in 0 .. Len(s) /\ f[n - 1] \in Int
    BY <1>0
  <2>2. step[n] = [x \in Int |-> x + s[n]]
    OBVIOUS
  <2>3. f[n] = step[n][f[n - 1]]
    BY <1>2
  <2> HIDE DEF step
  <2> QED
    BY <2>1, <2>2, <2>3
<1>4. f = [n \in 0 .. Len(s) |-> Body(f, n)]
  <2>1. \A n \in 0 .. Len(s) : f[n] = Body(f, n)
    BY <1>0, <1>2, <1>3
  <2> HIDE DEF Body
  <2> QED
    BY <2>1
<1>5. upTo = [n \in 0 .. Len(s) |-> Body(upTo, n)]
  <2> HIDE DEF Body
  <2> QED
    BY <1>4
<1>6. Total(s) = upTo[Len(s)]
  BY DEF Total
<1> HIDE DEF upTo
<1>7. \A n \in 0 .. Len(s) : upTo[n] = Body(upTo, n)
  <2> HIDE DEF Body
  <2> QED
    BY <1>5
<1>8. \A n \in 0 .. Len(s) : upTo[n] = f[n]
  <2> DEFINE K == {n \in 0 .. Len(s) : upTo[n] = f[n]}
  <2>1. 0 \in K
    BY <1>0, <1>2, <1>7
  <2>2. \A n \in 1 .. Len(s) : n - 1 \in K => n \in K
    BY <1>0, <1>3, <1>7
  <2> HIDE DEF K
  <2>3. 0 .. Len(s) \subseteq K
    BY <1>0, <2>1, <2>2, Upwards
  <2> QED
    BY <2>3 DEF K
<1> QED
  BY <1>0, <1>2, <1>3, <1>6, <1>8

\* A sum of positive numbers is positive, unless there are none.
LEMMA TotalPositive ==
    ASSUME NEW s \in Seq(Int), \A n \in DOMAIN s : s[n] > 0
    PROVE  Total(s) \in Int /\ (s # <<>> => Total(s) > 0)
<1>0. Len(s) \in Nat /\ DOMAIN s = 1 .. Len(s) /\ (s # <<>> => Len(s) > 0) /\ \A n \in 1 .. Len(s) : s[n] \in Int
  OBVIOUS
<1>1. PICK sum \in [0 .. Len(s) -> Int] :
         /\ sum[0] = 0 /\ \A n \in 1 .. Len(s) : sum[n] = sum[n - 1] + s[n]
         /\ Total(s) = sum[Len(s)]
  BY Totals
<1> DEFINE K == {n \in 0 .. Len(s) : sum[n] \in Int /\ sum[n] >= n}
<1>2. 0 \in K
  BY <1>0, <1>1
<1>3. ASSUME NEW n \in 1 .. Len(s), n - 1 \in K PROVE n \in K
  <2>1. n \in 0 .. Len(s) /\ s[n] \in Int /\ s[n] > 0 /\ sum[n - 1] \in Int /\ sum[n - 1] >= n - 1
    BY <1>0, <1>3
  <2>2. sum[n] = sum[n - 1] + s[n]
    BY <1>1
  <2> QED
    BY <2>1, <2>2
<1> HIDE DEF K
<1>4. 0 .. Len(s) \subseteq K
  BY <1>0, <1>2, <1>3, Upwards
<1> QED
  BY <1>0, <1>1, <1>4 DEF K

\* A sum of integers is one.
LEMMA TotalType ==
    ASSUME NEW s \in Seq(Int)
    PROVE  Total(s) \in Int
BY Totals

\* The sum of five numbers: each rubric has five items.
LEMMA TotalOfFive ==
    ASSUME NEW s \in Seq(Int), Len(s) = 5
    PROVE  Total(s) = s[1] + s[2] + s[3] + s[4] + s[5]
<1>0. \A n \in 1 .. Len(s) : s[n] \in Int
  BY Entries
<1>1. PICK sum \in [0 .. 5 -> Int] :
         /\ sum[0] = 0 /\ \A n \in 1 .. 5 : sum[n] = sum[n - 1] + s[n]
         /\ Total(s) = sum[5]
  BY Totals
<1>2. /\ sum[1] = sum[0] + s[1] /\ sum[2] = sum[1] + s[2] /\ sum[3] = sum[2] + s[3]
      /\ sum[4] = sum[3] + s[4] /\ sum[5] = sum[4] + s[5]
  BY <1>1
<1>3. \A n \in 1 .. 5 : s[n] \in Int
  BY <1>0
<1> QED
  BY <1>1, <1>2, <1>3

Starting(kept, s, T) ==
    /\ kept[0] = <<>>
    /\ \A n \in 1 .. Len(s) :
          kept[n] = IF s[n] \in T THEN Append(kept[n - 1], s[n]) ELSE kept[n - 1]
    /\ Among(s, T) = kept[Len(s)]

\* The starts of Among(s, T): each is the one before, or has one entry more.
LEMMA AmongStarts ==
    ASSUME NEW S, NEW s \in Seq(S), NEW T
    PROVE  \E kept \in [0 .. Len(s) -> Seq({e \in S : e \in T})] : Starting(kept, s, T)
<1> DEFINE E == {e \in S : e \in T}
           Longer(kept, n) == IF s[n] \in T THEN Append(kept, s[n]) ELSE kept
           Body(f, n) == IF n = 0 THEN <<>> ELSE Longer(f[n - 1], n)
           step == [n \in 1 .. Len(s) |-> [x \in Seq(E) |-> Longer(x, n)]]
           kept == CHOOSE kept : kept = [n \in 0 .. Len(s) |-> Body(kept, n)]
<1>0. Len(s) \in Nat /\ DOMAIN s = 1 .. Len(s) /\ \A n \in 1 .. Len(s) : s[n] \in S
  OBVIOUS
<1>1. step \in [1 .. Len(s) -> [Seq(E) -> Seq(E)]]
  <2>1. ASSUME NEW n \in 1 .. Len(s), NEW before \in Seq(E)
        PROVE  Longer(before, n) \in Seq(E)
    <3>1. s[n] \in T => s[n] \in E
      BY <1>0
    <3> HIDE DEF E
    <3> QED
      BY <3>1
  <2> HIDE DEF E, Longer
  <2> QED
    BY <2>1
<1>2. PICK f \in [0 .. Len(s) -> Seq(E)] :
         f[0] = <<>> /\ \A n \in 1 .. Len(s) : f[n] = step[n][f[n - 1]]
  <2>1. <<>> \in Seq(E)
    OBVIOUS
  <2> DEFINE N == Len(s)
             V == Seq(E)
  <2>2. StepsOver(N, V, <<>>, step)
    BY <1>0, <1>1, <2>1 DEF StepsOver
  <2> HIDE DEF step, N, V
  <2>3. PICK f : Follows(f, N, V, <<>>, step)
    BY <2>2, Recursion
  <2> QED
    BY <2>3 DEF Follows, N, V
<1>3. ASSUME NEW n \in 1 .. Len(s) PROVE f[n] = Longer(f[n - 1], n)
  <2> HIDE DEF Longer, E
  <2>1. n - 1 \in 0 .. Len(s) /\ f[n - 1] \in Seq(E)
    BY <1>0
  <2>2. step[n] = [x \in Seq(E) |-> Longer(x, n)]
    OBVIOUS
  <2>3. f[n] = step[n][f[n - 1]]
    BY <1>2
  <2> HIDE DEF step
  <2> QED
    BY <2>1, <2>2, <2>3
<1>4. f = [n \in 0 .. Len(s) |-> Body(f, n)]
  <2> HIDE DEF Longer, E
  <2>1. \A n \in 0 .. Len(s) : f[n] = Body(f, n)
    BY <1>0, <1>2, <1>3
  <2> HIDE DEF Body
  <2> QED
    BY <2>1
<1>5. kept = [n \in 0 .. Len(s) |-> Body(kept, n)]
  <2> HIDE DEF Body
  <2> QED
    BY <1>4
<1>6. Among(s, T) = kept[Len(s)]
  BY DEF Among
<1> HIDE DEF kept
<1>7. \A n \in 0 .. Len(s) : kept[n] = Body(kept, n)
  <2> HIDE DEF Body
  <2> QED
    BY <1>5
<1>8. \A n \in 1 .. Len(s) : kept[n] = Longer(kept[n - 1], n)
  <2> HIDE DEF Longer
  <2> QED
    BY <1>0, <1>7
<1>9. kept \in [0 .. Len(s) -> Seq(E)]
  <2> DEFINE K == {n \in 0 .. Len(s) : kept[n] \in Seq(E)}
  <2>1. 0 \in K
    <3>1. 0 \in 0 .. Len(s)
      BY <1>0
    <3>2. kept[0] = <<>>
      <4> HIDE DEF Longer
      <4> QED
        BY <1>7, <3>1
    <3>3. <<>> \in Seq(E)
      OBVIOUS
    <3> QED
      BY <3>1, <3>2, <3>3
  <2>2. ASSUME NEW n \in 1 .. Len(s), n - 1 \in K PROVE n \in K
    <3>1. s[n] \in T => s[n] \in E
      BY <1>0
    <3>2. n \in 0 .. Len(s) /\ kept[n] = Longer(kept[n - 1], n) /\ kept[n - 1] \in Seq(E)
      BY <1>8, <2>2
    <3> HIDE DEF E
    <3>3. kept[n] \in Seq(E)
      BY <3>1, <3>2
    <3> QED
      BY <3>2, <3>3
  <2> HIDE DEF K
  <2>3. 0 .. Len(s) \subseteq K
    BY <1>0, <2>1, <2>2, Upwards
  <2>4. \A n \in 0 .. Len(s) : kept[n] \in Seq(E)
    BY <2>3 DEF K
  <2> HIDE DEF Body
  <2> QED
    BY <1>5, <2>4
<1> HIDE DEF E
<1>10. kept[0] = <<>>
  <2>1. 0 \in 0 .. Len(s)
    BY <1>0
  <2> HIDE DEF Longer
  <2> QED
    BY <1>7, <2>1
<1> QED
  <2>1. Starting(kept, s, T)
    BY <1>6, <1>8, <1>10 DEF Starting
  <2> QED
    BY <1>9, <2>1 DEF E

\* Among returns those entries of s that are in T.
LEMMA AmongEntries ==
    ASSUME NEW S, NEW s \in Seq(S), NEW T
    PROVE  /\ Among(s, T) \in Seq({e \in S : e \in T})
           /\ \A n \in DOMAIN s : s[n] \in T => \E m \in DOMAIN Among(s, T) : Among(s, T)[m] = s[n]
           /\ \A m \in DOMAIN Among(s, T) : \E n \in DOMAIN s : Among(s, T)[m] = s[n]
<1> DEFINE E == {e \in S : e \in T}
           Longer(q, n) == IF s[n] \in T THEN Append(q, s[n]) ELSE q
<1>0. Len(s) \in Nat /\ DOMAIN s = 1 .. Len(s) /\ \A n \in 1 .. Len(s) : s[n] \in S
  OBVIOUS
<1>s. PICK kept \in [0 .. Len(s) -> Seq(E)] : Starting(kept, s, T)
  BY AmongStarts
<1>1. /\ kept[0] = <<>> /\ \A n \in 1 .. Len(s) : kept[n] = Longer(kept[n - 1], n)
      /\ Among(s, T) = kept[Len(s)]
      /\ kept \in [0 .. Len(s) -> Seq(E)]
  BY <1>s DEF Starting
<1> DEFINE Good(q, n) == /\ q \in Seq(E)
                         /\ \A i \in 1 .. n : s[i] \in T => \E m \in DOMAIN q : q[m] = s[i]
                         /\ \A m \in DOMAIN q : \E i \in 1 .. n : q[m] = s[i]
           K == {n \in 0 .. Len(s) : Good(kept[n], n)}
<1>8. 0 \in K
  <2>1. kept[0] = <<>> /\ 0 \in 0 .. Len(s)
    BY <1>0, <1>1
  <2>2. Good(<<>>, 0)
    OBVIOUS
  <2> HIDE DEF Good
  <2> QED
    BY <2>1, <2>2
<1>9. \A n \in 1 .. Len(s) : n - 1 \in K => n \in K
  <2> SUFFICES ASSUME NEW n \in 1 .. Len(s), Good(kept[n - 1], n - 1)
               PROVE  Good(kept[n], n)
    <3> HIDE DEF Good
    <3> QED
      BY <1>0
  <2> DEFINE q == kept[n - 1]
  <2>1. kept[n] = Longer(q, n)
    <3> HIDE DEF Longer
    <3> QED
      BY <1>1
  <2>2. s[n] \in T => s[n] \in E
    BY <1>0
  <2> HIDE DEF E, q
  <2>3. q \in Seq(E) /\ Good(q, n - 1)
    BY DEF q
  <2>4. CASE s[n] \in T
    <3>1. kept[n] = Append(q, s[n]) /\ kept[n] \in Seq(E)
      BY <2>1, <2>2, <2>3, <2>4
    <3>2. /\ DOMAIN kept[n] = 1 .. Len(q) + 1 /\ Len(q) \in Nat /\ DOMAIN q = 1 .. Len(q)
          /\ kept[n][Len(q) + 1] = s[n]
          /\ \A m \in 1 .. Len(q) : kept[n][m] = q[m]
      BY <2>2, <2>3, <2>4, <3>1
    <3>3. \A i \in 1 .. n : s[i] \in T => \E m \in DOMAIN kept[n] : kept[n][m] = s[i]
      <4> SUFFICES ASSUME NEW i \in 1 .. n, s[i] \in T
                   PROVE  \E m \in DOMAIN kept[n] : kept[n][m] = s[i]
        OBVIOUS
      <4>1. CASE i = n
        <5>1. Len(q) + 1 \in DOMAIN kept[n] /\ kept[n][Len(q) + 1] = s[i]
          BY <3>2, <4>1
        <5> QED
          BY <5>1
      <4>2. CASE i # n
        <5>1. i \in 1 .. n - 1
          BY <4>2, <1>0
        <5>2. PICK m \in DOMAIN q : q[m] = s[i]
          BY <2>3, <5>1
        <5> QED
          BY <3>2, <5>2, SMTT(30)
      <4> QED
        BY <4>1, <4>2
    <3>4. \A m \in DOMAIN kept[n] : \E i \in 1 .. n : kept[n][m] = s[i]
      <4> SUFFICES ASSUME NEW m \in 1 .. Len(q) + 1
                   PROVE  \E i \in 1 .. n : kept[n][m] = s[i]
        BY <3>2
      <4>1. CASE m = Len(q) + 1
        BY <3>2, <4>1
      <4>2. CASE m # Len(q) + 1
        <5>1. m \in DOMAIN q /\ kept[n][m] = q[m]
          BY <3>2, <4>2
        <5>2. PICK i \in 1 .. n - 1 : q[m] = s[i]
          BY <2>3, <5>1
        <5> QED
          BY <5>1, <5>2, <1>0
      <4> QED
        BY <4>1, <4>2
    <3> QED
      BY <3>1, <3>3, <3>4
  <2>5. CASE s[n] \notin T
    <3>1. kept[n] = q
      BY <2>1, <2>5
    <3>2. \A i \in 1 .. n : s[i] \in T => i \in 1 .. n - 1
      BY <2>5, <1>0
    <3>3. \A i \in 1 .. n - 1 : i \in 1 .. n
      BY <1>0
    <3> QED
      BY <2>3, <3>1, <3>2, <3>3
  <2> QED
    BY <2>4, <2>5
<1> HIDE DEF K
<1>10. 0 .. Len(s) \subseteq K
  BY <1>0, <1>8, <1>9, Upwards
<1> HIDE DEF Good
<1>11. Good(Among(s, T), Len(s))
  BY <1>0, <1>1, <1>10 DEF K
<1> QED
  BY <1>0, <1>11 DEF Good

\* The places of a list whose entries are in U.
Those(s, U) == {n \in DOMAIN s : s[n] \in U}

\* Going through a list keeps as many of its entries in U as there are, if all
\* that are in U are kept.
LEMMA AmongCount ==
    ASSUME NEW S, NEW s \in Seq(S), NEW T, NEW U, U \subseteq T
    PROVE  Cardinality(Those(Among(s, T), U)) = Cardinality(Those(s, U))
<1> DEFINE E == {e \in S : e \in T}
           Longer(q, n) == IF s[n] \in T THEN Append(q, s[n]) ELSE q
           Of(q) == {m \in DOMAIN q : q[m] \in U}
           Up(n) == {i \in 1 .. n : s[i] \in U}
<1>0. Len(s) \in Nat /\ DOMAIN s = 1 .. Len(s) /\ \A n \in 1 .. Len(s) : s[n] \in S
  OBVIOUS
<1>s. PICK kept \in [0 .. Len(s) -> Seq(E)] : Starting(kept, s, T)
  BY AmongStarts
<1>1. /\ kept[0] = <<>> /\ \A n \in 1 .. Len(s) : kept[n] = Longer(kept[n - 1], n)
      /\ Among(s, T) = kept[Len(s)]
      /\ kept \in [0 .. Len(s) -> Seq(E)]
  BY <1>s DEF Starting
<1> DEFINE Same(n) == /\ IsFiniteSet(Of(kept[n])) /\ IsFiniteSet(Up(n))
                      /\ Cardinality(Of(kept[n])) = Cardinality(Up(n))
           K == {n \in 0 .. Len(s) : Same(n)}
<1>2. 0 \in K
  <2>1. Of(kept[0]) = {} /\ Up(0) = {} /\ 0 \in 0 .. Len(s)
    BY <1>0, <1>1
  <2> HIDE DEF Of, Up
  <2> QED
    BY <2>1, FS_EmptySet
<1>3. ASSUME NEW n \in 1 .. Len(s), n - 1 \in K
      PROVE  n \in K
  <2> DEFINE q == kept[n - 1]
  <2>1. q \in Seq(E) /\ kept[n] = Longer(q, n) /\ n \in 0 .. Len(s)
    BY <1>1
  <2>2. Same(n - 1)
    BY <1>3
  <2>3. s[n] \in T => s[n] \in E
    BY <1>0
  <2> HIDE DEF q, E
  <2>4. CASE s[n] \in U
    <3>1. kept[n] = Append(q, s[n]) /\ Len(q) \in Nat /\ DOMAIN q = 1 .. Len(q)
      BY <2>1, <2>4
    <3>2. Of(kept[n]) = Of(q) \cup {Len(q) + 1} /\ Len(q) + 1 \notin Of(q)
      BY <2>1, <2>3, <2>4, <3>1
    <3>3. Up(n) = Up(n - 1) \cup {n} /\ n \notin Up(n - 1)
      BY <2>4
    <3> HIDE DEF Of, Up
    <3>4. Same(n - 1) /\ Of(kept[n - 1]) = Of(q)
      BY <2>2 DEF q
    <3>5. IsFiniteSet(Of(kept[n])) /\ Cardinality(Of(kept[n])) = Cardinality(Of(q)) + 1
      BY <3>2, <3>4, FS_AddElement
    <3>6. IsFiniteSet(Up(n)) /\ Cardinality(Up(n)) = Cardinality(Up(n - 1)) + 1
      BY <3>3, <3>4, FS_AddElement
    <3> QED
      BY <2>1, <3>4, <3>5, <3>6
  <2>5. CASE s[n] \notin U
    <3>1. Up(n) = Up(n - 1)
      BY <2>5
    <3>2. Of(kept[n]) = Of(q)
      <4>1. CASE s[n] \in T
        <5>1. kept[n] = Append(q, s[n]) /\ Len(q) \in Nat /\ DOMAIN q = 1 .. Len(q)
          BY <2>1, <4>1
        <5> QED
          BY <2>1, <2>3, <2>5, <4>1, <5>1
      <4>2. CASE s[n] \notin T
        BY <2>1, <4>2
      <4> QED
        BY <4>1, <4>2
    <3> HIDE DEF Of, Up
    <3>3. Same(n - 1) /\ Of(kept[n - 1]) = Of(q)
      BY <2>2 DEF q
    <3> QED
      BY <2>1, <3>1, <3>2, <3>3
  <2> QED
    BY <2>4, <2>5
<1> HIDE DEF K
<1>4. 0 .. Len(s) \subseteq K
  BY <1>0, <1>2, <1>3, Upwards
<1>5. Same(Len(s))
  BY <1>0, <1>4 DEF K
<1>6. Of(kept[Len(s)]) = Those(Among(s, T), U) /\ Up(Len(s)) = Those(s, U)
  BY <1>0, <1>1 DEF Those
<1> HIDE DEF Of, Up
<1> QED
  BY <1>5, <1>6

\* Lists whose entries are chosen alike have entries of the same places chosen.
LEMMA AmongAlike ==
    ASSUME NEW S, NEW s \in Seq(S), NEW T, NEW U, NEW t \in Seq(U), NEW W,
           Len(t) = Len(s), \A n \in 1 .. Len(s) : s[n] \in T <=> t[n] \in W
    PROVE  /\ Len(Among(s, T)) = Len(Among(t, W))
           /\ \A m \in 1 .. Len(Among(s, T)) : \E n \in 1 .. Len(s) :
                 Among(s, T)[m] = s[n] /\ Among(t, W)[m] = t[n]
<1>0. Len(s) \in Nat /\ \A n \in 1 .. Len(s) : s[n] \in S /\ t[n] \in U
  BY Entries
<1> DEFINE E == {e \in S : e \in T}
           F == {e \in U : e \in W}
<1>1. PICK f \in [0 .. Len(s) -> Seq(E)] : Starting(f, s, T)
  BY AmongStarts
<1>2. PICK g \in [0 .. Len(s) -> Seq(F)] : Starting(g, t, W)
  BY AmongStarts
<1> DEFINE Alike(p, q, k) ==
                /\ Len(p) = Len(q)
                /\ \A m \in 1 .. Len(p) : \E n \in 1 .. k : p[m] = s[n] /\ q[m] = t[n]
           K == {k \in 0 .. Len(s) : Alike(f[k], g[k], k)}
<1>3. 0 \in K
  <2>1. f[0] = <<>> /\ g[0] = <<>> /\ 0 \in 0 .. Len(s)
    BY <1>0, <1>1, <1>2 DEF Starting
  <2>2. Alike(<<>>, <<>>, 0)
    OBVIOUS
  <2> HIDE DEF Alike
  <2> QED
    BY <2>1, <2>2
<1>4. ASSUME NEW k \in 1 .. Len(s), k - 1 \in K PROVE k \in K
  <2> DEFINE p == f[k - 1]
             q == g[k - 1]
  <2>0. k \in 0 .. Len(s) /\ k - 1 \in 0 .. Len(s)
    BY <1>0
  <2>1. p \in Seq(E) /\ q \in Seq(F)
    BY <1>1, <1>2, <2>0
  <2>2. Alike(p, q, k - 1)
    <3> HIDE DEF Alike
    <3> QED
      BY <1>4
  <2>3. /\ f[k] = IF s[k] \in T THEN Append(p, s[k]) ELSE p
        /\ g[k] = IF t[k] \in W THEN Append(q, t[k]) ELSE q
    BY <1>1, <1>2 DEF Starting
  <2>4. (s[k] \in T => s[k] \in E) /\ (t[k] \in W => t[k] \in F)
    BY <1>0
  <2> HIDE DEF p, q, E, F
  <2>5. CASE s[k] \in T
    <3>1. f[k] = Append(p, s[k]) /\ g[k] = Append(q, t[k])
      BY <2>3, <2>5
    <3>2. /\ Len(p) \in Nat /\ Len(q) = Len(p)
          /\ Len(f[k]) = Len(p) + 1 /\ Len(g[k]) = Len(p) + 1
          /\ f[k][Len(p) + 1] = s[k] /\ g[k][Len(p) + 1] = t[k]
          /\ \A m \in 1 .. Len(p) : f[k][m] = p[m] /\ g[k][m] = q[m]
      BY <2>1, <2>2, <2>4, <2>5, <3>1
    <3>3. ASSUME NEW m \in 1 .. Len(p) + 1
          PROVE  \E n \in 1 .. k : f[k][m] = s[n] /\ g[k][m] = t[n]
      <4>1. CASE m = Len(p) + 1
        <5>1. k \in 1 .. k
          BY <1>0
        <5> QED
          BY <3>2, <4>1, <5>1
      <4>2. CASE m # Len(p) + 1
        <5>1. m \in 1 .. Len(p)
          BY <3>2, <4>2
        <5>2. PICK n \in 1 .. k - 1 : p[m] = s[n] /\ q[m] = t[n]
          BY <2>2, <5>1
        <5>3. n \in 1 .. k
          BY <1>0
        <5> QED
          BY <3>2, <5>1, <5>2, <5>3
      <4> QED
        BY <4>1, <4>2
    <3>4. Alike(f[k], g[k], k)
      BY <3>2, <3>3
    <3> HIDE DEF Alike
    <3> QED
      BY <2>0, <3>4
  <2>6. CASE s[k] \notin T
    <3>1. f[k] = p /\ g[k] = q
      BY <2>3, <2>6
    <3>2. 1 .. k - 1 \subseteq 1 .. k
      BY <1>0
    <3>3. Alike(p, q, k)
      BY <2>2, <3>2
    <3> HIDE DEF Alike
    <3> QED
      BY <2>0, <3>1, <3>3
  <2> QED
    BY <2>5, <2>6
<1> HIDE DEF K
<1>5. 0 .. Len(s) \subseteq K
  BY <1>0, <1>3, <1>4, Upwards
<1>6. Len(s) \in K
  BY <1>0, <1>5
<1>7. Among(s, T) = f[Len(s)] /\ Among(t, W) = g[Len(s)]
  BY <1>1, <1>2 DEF Starting
<1>8. Alike(Among(s, T), Among(t, W), Len(s))
  <2> HIDE DEF Alike
  <2> QED
    BY <1>6, <1>7 DEF K
<1> QED
  BY <1>8

\* Joined puts the sequences together one by one.
JoiningUp(upTo, s) ==
    /\ upTo[0] = <<>> /\ \A n \in 1 .. Len(s) : upTo[n] = upTo[n - 1] \o s[n]
    /\ Joined(s) = upTo[Len(s)]

LEMMA JoinedStarts ==
    ASSUME NEW S, NEW s \in Seq(Seq(S))
    PROVE  \E upTo \in [0 .. Len(s) -> Seq(S)] : JoiningUp(upTo, s)
<1> DEFINE V == Seq(S)
           Body(f, n) == IF n = 0 THEN <<>> ELSE f[n - 1] \o s[n]
           step == [n \in 1 .. Len(s) |-> [x \in V |-> x \o s[n]]]
           upTo == CHOOSE upTo : upTo = [n \in 0 .. Len(s) |-> Body(upTo, n)]
<1>0. Len(s) \in Nat /\ \A n \in 1 .. Len(s) : s[n] \in V
  OBVIOUS
<1>1. step \in [1 .. Len(s) -> [V -> V]] /\ <<>> \in V
  <2>1. ASSUME NEW n \in 1 .. Len(s), NEW x \in V PROVE x \o s[n] \in V
    <3> DEFINE y == s[n]
    <3>1. y \in Seq(S)
      BY <1>0
    <3> HIDE DEF y
    <3> QED
      BY <3>1
  <2>2. <<>> \in V
    OBVIOUS
  <2> HIDE DEF V
  <2> QED
    BY <2>1, <2>2
<1>2. PICK f \in [0 .. Len(s) -> V] :
         f[0] = <<>> /\ \A n \in 1 .. Len(s) : f[n] = step[n][f[n - 1]]
  <2> DEFINE N == Len(s)
             base == <<>>
  <2>1. StepsOver(N, V, base, step)
    BY <1>0, <1>1 DEF StepsOver
  <2> HIDE DEF step, N, V, base
  <2>2. PICK f : Follows(f, N, V, base, step)
    BY <2>1, Recursion
  <2> QED
    BY <2>2 DEF Follows, N, base
<1>v. <<>> \in V
  OBVIOUS
<1> HIDE DEF V
<1>3. ASSUME NEW n \in 1 .. Len(s) PROVE f[n] = f[n - 1] \o s[n]
  <2>0. n - 1 \in 0 .. Len(s)
    BY <1>0
  <2>1. f[n - 1] \in V
    <3> HIDE DEF step
    <3> QED
      BY <1>2, <2>0
  <2>2. step[n] = [x \in V |-> x \o s[n]]
    OBVIOUS
  <2>3. f[n] = step[n][f[n - 1]]
    BY <1>2
  <2> HIDE DEF step
  <2> QED
    BY <2>1, <2>2, <2>3
<1>4. f = [n \in 0 .. Len(s) |-> Body(f, n)]
  <2>1. \A n \in 0 .. Len(s) : f[n] = Body(f, n)
    <3> SUFFICES ASSUME NEW n \in 0 .. Len(s) PROVE f[n] = Body(f, n)
      OBVIOUS
    <3>1. CASE n = 0
      BY <1>2, <3>1
    <3>2. CASE n # 0
      <4>1. n \in 1 .. Len(s)
        BY <1>0, <3>2
      <4>2. f[n] = f[n - 1] \o s[n]
        BY <1>3, <4>1
      <4> QED
        BY <3>2, <4>2
    <3> QED
      BY <3>1, <3>2
  <2> HIDE DEF Body
  <2> QED
    BY <1>2, <2>1
<1>5. upTo = [n \in 0 .. Len(s) |-> Body(upTo, n)]
  <2> HIDE DEF Body
  <2> QED
    BY <1>4
<1>6. Joined(s) = upTo[Len(s)]
  BY DEF Joined
<1> HIDE DEF upTo
<1>7. \A n \in 0 .. Len(s) : upTo[n] = Body(upTo, n)
  <2> HIDE DEF Body
  <2> QED
    BY <1>5
<1>8. \A n \in 0 .. Len(s) : upTo[n] = f[n]
  <2> DEFINE K == {n \in 0 .. Len(s) : upTo[n] = f[n]}
  <2>1. 0 \in K
    BY <1>0, <1>2, <1>7
  <2>2. ASSUME NEW n \in 1 .. Len(s), n - 1 \in K PROVE n \in K
    <3>1. upTo[n] = Body(upTo, n) /\ upTo[n - 1] = f[n - 1] /\ n # 0 /\ n \in 0 .. Len(s)
      BY <1>0, <1>7, <2>2
    <3>2. upTo[n] = upTo[n - 1] \o s[n]
      BY <3>1
    <3> QED
      BY <1>3, <3>1, <3>2
  <2> HIDE DEF K
  <2>3. 0 .. Len(s) \subseteq K
    BY <1>0, <2>1, <2>2, Upwards
  <2> QED
    BY <2>3 DEF K
<1> HIDE DEF step
<1>9. Len(s) \in 0 .. Len(s) /\ upTo[Len(s)] = f[Len(s)]
  BY <1>0, <1>8
<1>10. JoiningUp(f, s)
  BY <1>2, <1>3, <1>6, <1>9 DEF JoiningUp
<1> QED
  BY <1>2, <1>10 DEF V

LEMMA JoinedType ==
    ASSUME NEW S, NEW s \in Seq(Seq(S))
    PROVE  Joined(s) \in Seq(S)
<1> DEFINE V == Seq(S)
<1>1. Len(s) \in 0 .. Len(s)
  OBVIOUS
<1>2. PICK upTo \in [0 .. Len(s) -> V] : JoiningUp(upTo, s)
  BY JoinedStarts
<1>3. Joined(s) = upTo[Len(s)]
  BY <1>2 DEF JoiningUp
<1> HIDE DEF V
<1>4. upTo[Len(s)] \in V
  BY <1>1, <1>2
<1> QED
  BY <1>3, <1>4 DEF V

LEMMA JoinedNone == Joined(<<>>) = <<>>
<1>1. \A S : <<>> \in Seq(Seq(S)) /\ Len(<<>>) = 0
  OBVIOUS
<1> DEFINE empty == <<>>
<1> HIDE DEF empty
<1>2. PICK upTo : JoiningUp(upTo, empty)
  <2>1. empty \in Seq(Seq({}))
    BY <1>1 DEF empty
  <2> QED
    BY <2>1, JoinedStarts
<1> QED
  BY <1>1, <1>2 DEF JoiningUp, empty

LEMMA JoinedAppend ==
    ASSUME NEW S, NEW s \in Seq(Seq(S)), NEW t \in Seq(S)
    PROVE  Joined(Append(s, t)) = Joined(s) \o t
<1> DEFINE V == Seq(S)
           longer == Append(s, t)
<1>0. /\ Len(s) \in Nat /\ longer \in Seq(V) /\ Len(longer) = Len(s) + 1
      /\ longer[Len(s) + 1] = t /\ \A n \in 1 .. Len(s) : longer[n] = s[n]
  OBVIOUS
<1> HIDE DEF longer
<1>z. longer = Append(s, t)
  BY DEF longer
<1>1. PICK f \in [0 .. Len(s) -> V] : JoiningUp(f, s)
  BY JoinedStarts
<1>2. PICK g \in [0 .. Len(longer) -> V] : JoiningUp(g, longer)
  BY <1>0, JoinedStarts
<1> DEFINE K == {n \in 0 .. Len(s) : g[n] = f[n]}
<1>3. 0 \in K
  BY <1>0, <1>1, <1>2 DEF JoiningUp
<1>4. ASSUME NEW n \in 1 .. Len(s), n - 1 \in K PROVE n \in K
  <2>1. g[n - 1] = f[n - 1] /\ longer[n] = s[n] /\ n \in 1 .. Len(longer)
    BY <1>0, <1>4
  <2>2. g[n] = g[n - 1] \o longer[n] /\ f[n] = f[n - 1] \o s[n]
    BY <1>1, <1>2, <2>1 DEF JoiningUp
  <2>3. n \in 0 .. Len(s) /\ g[n] = f[n]
    BY <1>0, <2>1, <2>2
  <2> QED
    BY <2>3
<1> HIDE DEF K
<1>5. 0 .. Len(s) \subseteq K
  BY <1>0, <1>3, <1>4, Upwards
<1>6. g[Len(s)] = f[Len(s)]
  <2>1. Len(s) \in 0 .. Len(s)
    BY <1>0
  <2>2. Len(s) \in K
    BY <1>5, <2>1
  <2> QED
    BY <2>2 DEF K
<1>7. g[Len(s) + 1] = g[Len(s)] \o t
  <2>1. Len(s) + 1 \in 1 .. Len(longer) /\ (Len(s) + 1) - 1 = Len(s)
    BY <1>0
  <2> QED
    BY <1>0, <1>2, <2>1 DEF JoiningUp
<1> QED
  BY <1>0, <1>1, <1>2, <1>6, <1>7 DEF JoiningUp, longer

\* A sequence more, before the others.
LEMMA JoinedPrepend ==
    ASSUME NEW S, NEW s \in Seq(Seq(S)), NEW a \in Seq(S)
    PROVE  Joined(<<a>> \o s) = a \o Joined(s)
<1> DEFINE V == Seq(S)
           longer == <<a>> \o s
<1>0. /\ Len(s) \in Nat /\ longer \in Seq(V) /\ Len(longer) = Len(s) + 1
      /\ longer[1] = a /\ \A n \in 1 .. Len(s) : longer[n + 1] = s[n] /\ s[n] \in V
  OBVIOUS
<1>1. longer = <<a>> \o s /\ a \in V /\ V = Seq(S)
  OBVIOUS
<1> HIDE DEF longer, V
<1>2. PICK f \in [0 .. Len(s) -> V] : JoiningUp(f, s)
  BY <1>1, JoinedStarts
<1>3. PICK g \in [0 .. Len(longer) -> V] : JoiningUp(g, longer)
  BY <1>0, <1>1, JoinedStarts
<1> DEFINE K == {n \in 0 .. Len(s) : g[n + 1] = a \o f[n]}
<1>4. 0 \in K
  <2>1. f[0] = <<>> /\ g[0] = <<>>
    BY <1>2, <1>3 DEF JoiningUp
  <2>2. 1 \in 1 .. Len(longer) /\ 1 - 1 = 0
    BY <1>0
  <2>3. g[1] = g[0] \o longer[1]
    BY <1>3, <2>2 DEF JoiningUp
  <2>4. g[1] = a
    BY <1>0, <1>1, <2>1, <2>3
  <2>5. a \o f[0] = a
    BY <1>1, <2>1
  <2> QED
    BY <1>0, <2>4, <2>5
<1>5. ASSUME NEW n \in 1 .. Len(s), n - 1 \in K PROVE n \in K
  <2>1. n - 1 \in 0 .. Len(s) /\ n \in 0 .. Len(s) /\ (n - 1) + 1 = n /\ (n + 1) - 1 = n
        /\ n + 1 \in 1 .. Len(longer)
    BY <1>0
  <2>2. g[n] = a \o f[n - 1]
    BY <1>5, <2>1
  <2>3. g[n + 1] = g[n] \o s[n]
    BY <1>0, <1>3, <2>1 DEF JoiningUp
  <2>4. f[n] = f[n - 1] \o s[n]
    BY <1>2 DEF JoiningUp
  <2>5. f[n - 1] \in V /\ s[n] \in V
    BY <1>0, <1>2, <2>1
  <2>6. \A x, y \in V : (a \o x) \o y = a \o (x \o y)
    BY <1>1, SMTT(30)
  <2>7. g[n + 1] = a \o f[n]
    BY <2>2, <2>3, <2>4, <2>5, <2>6
  <2> QED
    BY <2>1, <2>7
<1> HIDE DEF K
<1>6. 0 .. Len(s) \subseteq K
  BY <1>0, <1>4, <1>5, Upwards
<1>7. Len(s) \in K
  BY <1>0, <1>6
<1>8. g[Len(s) + 1] = a \o f[Len(s)]
  BY <1>7 DEF K
<1>9. Joined(longer) = g[Len(s) + 1] /\ Joined(s) = f[Len(s)]
  BY <1>0, <1>2, <1>3 DEF JoiningUp
<1> QED
  BY <1>1, <1>8, <1>9

\* The entries of a sequence, each by itself, make the sequence.
LEMMA JoinedSingles ==
    ASSUME NEW S, NEW t \in Seq(S)
    PROVE  Joined([i \in DOMAIN t |-> <<t[i]>>]) = t
<1> DEFINE s == [i \in DOMAIN t |-> <<t[i]>>]
           V == Seq(S)
<1>0. Len(t) \in Nat /\ DOMAIN t = 1 .. Len(t) /\ \A n \in 1 .. Len(t) : t[n] \in S
  OBVIOUS
<1>1. s \in Seq(V) /\ Len(s) = Len(t) /\ \A n \in 1 .. Len(t) : s[n] = <<t[n]>>
  BY <1>0
<1> HIDE DEF s
<1>2. PICK f \in [0 .. Len(s) -> V] : JoiningUp(f, s)
  BY <1>1, JoinedStarts
<1> DEFINE K == {n \in 0 .. Len(t) : Len(f[n]) = n /\ \A i \in 1 .. n : f[n][i] = t[i]}
<1>3. 0 \in K
  BY <1>0, <1>2 DEF JoiningUp
<1>4. ASSUME NEW n \in 1 .. Len(t), n - 1 \in K PROVE n \in K
  <2> DEFINE q == f[n - 1]
  <2>1. q \in Seq(S) /\ Len(q) = n - 1 /\ \A i \in 1 .. n - 1 : q[i] = t[i]
    BY <1>1, <1>4
  <2>2. f[n] = q \o <<t[n]>>
    BY <1>1, <1>2 DEF JoiningUp
  <2> HIDE DEF q
  <2>3. Len(f[n]) = n /\ \A i \in 1 .. n : f[n][i] = IF i <= n - 1 THEN q[i] ELSE t[n]
    BY <1>0, <2>1, <2>2
  <2>4. \A i \in 1 .. n : f[n][i] = t[i]
    BY <1>0, <2>1, <2>3
  <2> QED
    BY <1>0, <2>3, <2>4
<1> HIDE DEF K
<1>5. 0 .. Len(t) \subseteq K
  BY <1>0, <1>3, <1>4, Upwards
<1>6. Joined(s) = f[Len(t)] /\ f[Len(t)] \in Seq(S)
  BY <1>0, <1>1, <1>2 DEF JoiningUp
<1>7. Len(f[Len(t)]) = Len(t) /\ \A i \in 1 .. Len(t) : f[Len(t)][i] = t[i]
  BY <1>0, <1>5 DEF K
<1> QED
  BY <1>0, <1>6, <1>7 DEF s

=============================================================================
