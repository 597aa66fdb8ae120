----------------------------- MODULE Induction -----------------------------
(***************************************************************************)
(* Induction without an operator as a parameter: every non-empty set of    *)
(* natural numbers has a least element.  From it, what the proofs of the   *)
(* recursive functions of the models use: a set that is closed under the   *)
(* successor has all numbers up to a bound, and a recursion over an        *)
(* interval has a solution.                                                *)
(***************************************************************************)
EXTENDS Integers, SequencesExt, Sublists, SequenceTheorems, WellFoundedInduction, TLAPS

LEMMA Least ==
  ASSUME NEW T \in SUBSET Nat, T # {}
  PROVE  \E x \in T : \A y \in T : x <= y
<1>1. PICK x \in T : \A y \in T : <<y, x>> \notin OpToRel(<, Nat)
  BY NatLessThanWellFounded, WFMin, Zenon
<1>2. ASSUME NEW y \in T, y < x PROVE FALSE
  <2>1. <<y, x>> \in OpToRel(<, Nat)
    BY <1>2, Zenon DEF OpToRel
  <2> QED BY <1>1, <2>1, Zenon
<1> QED BY <1>2

\* A set with 0 and, with each number below n, the next one has 0 .. n.
LEMMA UpTo ==
  ASSUME NEW n \in Nat, NEW T, 0 \in T, \A i \in 0 .. n - 1 : i \in T => i + 1 \in T
  PROVE  \A i \in 0 .. n : i \in T
<1> SUFFICES ASSUME (0 .. n) \ T # {} PROVE FALSE
  OBVIOUS
<1>1. (0 .. n) \ T \in SUBSET Nat
  OBVIOUS
<1>2. PICK x \in (0 .. n) \ T : \A y \in (0 .. n) \ T : x <= y
  BY <1>1, Least
<1>3. x # 0 /\ x - 1 \in 0 .. n - 1 /\ x - 1 \in T
  BY <1>2
<1> QED BY <1>2, <1>3

\* The values of the recursion f[0] = a, f[i] = step[i][f[i-1]] over 0 .. n.
Values(S, a, n, step) ==
  CHOOSE f \in [0 .. n -> S] : f[0] = a /\ \A i \in 1 .. n : f[i] = step[i][f[i - 1]]

LEMMA Recursion ==
  ASSUME NEW S, NEW a \in S, NEW n \in Nat, NEW step \in [1 .. n -> [S -> S]]
  PROVE  /\ Values(S, a, n, step) \in [0 .. n -> S]
         /\ Values(S, a, n, step)[0] = a
         /\ \A i \in 1 .. n : Values(S, a, n, step)[i] = step[i][Values(S, a, n, step)[i - 1]]
<1> DEFINE Solves(f, k) == /\ f \in [0 .. k -> S] /\ f[0] = a
                           /\ \A i \in 1 .. k : f[i] = step[i][f[i - 1]]
           T == {k \in 0 .. n : \E f : Solves(f, k)}
<1>1. 0 \in T
  <2> DEFINE g == [i \in 0 .. 0 |-> a]
  <2>1. Solves(g, 0)
    OBVIOUS
  <2> HIDE DEF Solves, g
  <2> QED BY <2>1
<1>2. ASSUME NEW k \in 0 .. n - 1, k \in T PROVE k + 1 \in T
  <2>1. PICK f : Solves(f, k)
    BY <1>2
  <2> DEFINE g == [i \in 0 .. k + 1 |-> IF i = k + 1 THEN step[k + 1][f[k]] ELSE f[i]]
  <2>2. f[k] \in S /\ k + 1 \in 1 .. n /\ step[k + 1][f[k]] \in S
    BY <2>1
  <2>3. g \in [0 .. k + 1 -> S] /\ g[0] = a
    BY <2>1, <2>2
  <2>4. ASSUME NEW i \in 1 .. k + 1 PROVE g[i] = step[i][g[i - 1]]
    <3>1. g[i - 1] = f[i - 1]
      OBVIOUS
    <3>2. CASE i = k + 1
      BY <3>1, <3>2
    <3>3. CASE i # k + 1
      <4>1. i \in 1 .. k /\ g[i] = f[i]
        BY <3>3
      <4> QED BY <2>1, <3>1, <4>1
    <3> QED BY <3>2, <3>3
  <2>5. Solves(g, k + 1)
    BY <2>3, <2>4
  <2> HIDE DEF Solves, g
  <2>6. k + 1 \in 0 .. n
    OBVIOUS
  <2> QED BY <2>5, <2>6
<1>3. n \in T
  <2> HIDE DEF T
  <2>1. \A i \in 0 .. n : i \in T
    BY <1>1, <1>2, UpTo
  <2> QED BY <2>1
<1>4. PICK h : Solves(h, n)
  BY <1>3
<1>5. \E f \in [0 .. n -> S] : f[0] = a /\ \A i \in 1 .. n : f[i] = step[i][f[i - 1]]
  BY <1>4
<1> QED BY <1>5 DEF Values

-----------------------------------------------------------------------------
(* Sublists. *)

\* f has the sublists of the first i elements of the list, for each i.
Builds(f, T, list, S) ==
  /\ f \in [0 .. Len(list) -> Seq(T \cap S)]
  /\ f[0] = <<>> /\ Within(list, S) = f[Len(list)]
  /\ \A i \in 1 .. Len(list) :
       f[i] = IF list[i] \in S THEN Append(f[i - 1], list[i]) ELSE f[i - 1]

LEMMA WithinSteps ==
  ASSUME NEW T, NEW list \in Seq(T), NEW S
  PROVE  \E f : Builds(f, T, list, S)
<1> DEFINE n == Len(list)
           Q == Seq(T \cap S)
           Grown(i, q) == IF list[i] \in S THEN Append(q, list[i]) ELSE q
           step == [i \in 1 .. n |-> [q \in Q |-> Grown(i, q)]]
           Fits(f) == f = [i \in 0 .. n |-> IF i = 0 THEN <<>> ELSE
                             IF list[i] \in S THEN Append(f[i - 1], list[i]) ELSE f[i - 1]]
<1>1. n \in Nat /\ \A i \in 1 .. n : list[i] \in T
  OBVIOUS
<1>2. <<>> \in Q
  OBVIOUS
<1>3. step \in [1 .. n -> [Q -> Q]]
  <2>1. ASSUME NEW i \in 1 .. n, NEW q \in Q PROVE Grown(i, q) \in Q
    <3>1. CASE list[i] \in S
      <4>1. list[i] \in T \cap S
        BY <1>1, <3>1
      <4> QED BY <3>1, <4>1
    <3> QED BY <3>1
  <2> HIDE DEF Q, Grown, n
  <2> QED BY <2>1
<1> DEFINE f == Values(Q, <<>>, n, step)
<1>4. f \in [0 .. n -> Q] /\ f[0] = <<>> /\ \A i \in 1 .. n : f[i] = step[i][f[i - 1]]
  <2> HIDE DEF step, n, Q
  <2> QED BY <1>1, <1>2, <1>3, Recursion
<1> HIDE DEF f
<1>5. ASSUME NEW i \in 1 .. n PROVE f[i] = Grown(i, f[i - 1])
  <2>1. i - 1 \in 0 .. n
    BY <1>1
  <2>2. f[i - 1] \in Q
    BY <1>4, <2>1
  <2> HIDE DEF Q, Grown
  <2> QED BY <1>4, <2>2
<1>6. Fits(f)
  <2> HIDE DEF Q
  <2>1. \A i \in 0 .. n : i # 0 => i \in 1 .. n
    BY <1>1
  <2> QED BY <1>4, <1>5, <2>1
<1> DEFINE g == CHOOSE g : Fits(g)
<1>7. Fits(g)
  <2> HIDE DEF Fits
  <2> QED BY <1>6
<1>8. Within(list, S) = g[n]
  BY DEF Within
<1>9. g[n] = f[n]
  <2> DEFINE E == {k \in 0 .. n : g[k] = f[k]}
  <2>1. 0 \in E
    <3>1. 0 \in 0 .. n
      BY <1>1
    <3> QED BY <1>4, <1>7, <3>1
  <2>2. ASSUME NEW k \in 0 .. n - 1, k \in E PROVE k + 1 \in E
    <3>1. k + 1 \in 0 .. n /\ k + 1 # 0 /\ (k + 1) - 1 = k /\ g[k] = f[k] /\ k + 1 \in 1 .. n
      BY <1>1, <2>2
    <3>2. g[k + 1] = Grown(k + 1, g[k]) /\ f[k + 1] = Grown(k + 1, f[k])
      BY ZenonT(40), <1>7, <1>5, <3>1
    <3> QED BY <3>1, <3>2
  <2> HIDE DEF E, g
  <2>3. \A k \in 0 .. n : k \in E
    BY <1>1, <2>1, <2>2, UpTo
  <2>4. n \in 0 .. n
    BY <1>1
  <2> QED BY <2>3, <2>4 DEF E
<1> HIDE DEF g, Fits
<1>10. Builds(f, T, list, S)
  BY <1>4, <1>5, <1>8, <1>9 DEF Builds
<1> HIDE DEF f
<1> QED BY <1>10

LEMMA WithinEmpty ==
  ASSUME NEW S
  PROVE  Within(<<>>, S) = <<>>
<1>1. <<>> \in Seq({}) /\ Len(<<>>) = 0
  OBVIOUS
<1>2. PICK f : Builds(f, {}, <<>>, S)
  BY <1>1, WithinSteps
<1> QED BY <1>1, <1>2 DEF Builds

\* The sublist of a list with one more element.
LEMMA WithinAppend ==
  ASSUME NEW T, NEW list \in Seq(T), NEW e \in T, NEW S
  PROVE  Within(Append(list, e), S) =
           IF e \in S THEN Append(Within(list, S), e) ELSE Within(list, S)
<1> DEFINE n == Len(list)
           long == Append(list, e)
<1>1. long \in Seq(T) /\ Len(long) = n + 1 /\ n \in Nat /\ long[n + 1] = e
      /\ \A i \in 1 .. n : long[i] = list[i]
  OBVIOUS
<1>2. PICK f :
        /\ f \in [0 .. n -> Seq(T \cap S)] /\ f[0] = <<>> /\ Within(list, S) = f[n]
        /\ \A i \in 1 .. n : f[i] = IF list[i] \in S THEN Append(f[i - 1], list[i]) ELSE f[i - 1]
  <2>1. PICK f : Builds(f, T, list, S)
    BY WithinSteps
  <2> QED BY <2>1 DEF Builds
<1> HIDE DEF long, n
<1>3. PICK g :
        /\ g \in [0 .. n + 1 -> Seq(T \cap S)] /\ g[0] = <<>> /\ Within(long, S) = g[n + 1]
        /\ \A i \in 1 .. n + 1 : g[i] = IF long[i] \in S THEN Append(g[i - 1], long[i]) ELSE g[i - 1]
  <2>1. PICK g : Builds(g, T, long, S)
    BY <1>1, WithinSteps
  <2> QED BY <1>1, <2>1 DEF Builds
<1>4. g[n] = f[n]
  <2> DEFINE E == {k \in 0 .. n : g[k] = f[k]}
  <2>1. 0 \in E
    BY <1>1, <1>2, <1>3
  <2>2. ASSUME NEW k \in 0 .. n - 1, k \in E PROVE k + 1 \in E
    <3>1. k + 1 \in 1 .. n /\ k + 1 \in 1 .. n + 1 /\ (k + 1) - 1 = k /\ k + 1 \in 0 .. n
      BY <1>1
    <3>2. g[k + 1] = IF list[k + 1] \in S THEN Append(g[k], list[k + 1]) ELSE g[k]
      BY <1>1, <1>3, <3>1
    <3>3. f[k + 1] = IF list[k + 1] \in S THEN Append(f[k], list[k + 1]) ELSE f[k]
      BY <1>2, <3>1
    <3> QED BY <2>2, <3>1, <3>2, <3>3
  <2> HIDE DEF E
  <2>3. \A k \in 0 .. n : k \in E
    BY <1>1, <2>1, <2>2, UpTo
  <2>4. n \in 0 .. n
    BY <1>1
  <2> QED BY <2>3, <2>4 DEF E
<1>5. n + 1 \in 1 .. n + 1 /\ (n + 1) - 1 = n
  BY <1>1
<1>6. g[n + 1] = IF e \in S THEN Append(g[n], e) ELSE g[n]
  BY <1>1, <1>3, <1>5
<1> QED BY <1>2, <1>3, <1>4, <1>6 DEF long

\* Where the elements of the sublist come from: at[i] is the place of its i-th
\* element; the places ascend, and no element of S is left out.
LEMMA WithinPlaces ==
  ASSUME NEW T, NEW list \in Seq(T), NEW S
  PROVE  LET w == Within(list, S) IN
         /\ w \in Seq(T \cap S)
         /\ \E at \in [1 .. Len(w) -> 1 .. Len(list)] :
              /\ \A i \in 1 .. Len(w) : w[i] = list[at[i]]
              /\ \A i, j \in 1 .. Len(w) : i < j => at[i] < at[j]
              /\ \A k \in 1 .. Len(list) : list[k] \in S => \E i \in 1 .. Len(w) : at[i] = k
<1> DEFINE n == Len(list)
           Embeds(at, w, m) ==
             /\ at \in [1 .. Len(w) -> 1 .. m]
             /\ \A i \in 1 .. Len(w) : w[i] = list[at[i]]
             /\ \A i, j \in 1 .. Len(w) : i < j => at[i] < at[j]
             /\ \A k \in 1 .. m : list[k] \in S => \E i \in 1 .. Len(w) : at[i] = k
<1>1. n \in Nat /\ \A i \in 1 .. n : list[i] \in T
  OBVIOUS
<1>2. PICK f :
        /\ f \in [0 .. n -> Seq(T \cap S)] /\ f[0] = <<>> /\ Within(list, S) = f[n]
        /\ \A i \in 1 .. n : f[i] = IF list[i] \in S THEN Append(f[i - 1], list[i]) ELSE f[i - 1]
  <2>1. PICK f : Builds(f, T, list, S)
    BY WithinSteps
  <2> QED BY <2>1 DEF Builds
<1> DEFINE E == {m \in 0 .. n : \E at : Embeds(at, f[m], m)}
<1>3. 0 \in E
  <2> DEFINE at == [i \in 1 .. 0 |-> 1]
  <2>1. Len(f[0]) = 0
    BY <1>2
  <2>2. Embeds(at, f[0], 0)
    BY <2>1
  <2> HIDE DEF Embeds, at
  <2> QED BY <1>1, <2>2
<1>4. ASSUME NEW m \in 0 .. n - 1, m \in E PROVE m + 1 \in E
  <2>1. PICK at : Embeds(at, f[m], m)
    BY <1>4
  <2>2. /\ m \in Nat /\ m + 1 \in 1 .. n /\ m + 1 \in 0 .. n /\ (m + 1) - 1 = m /\ m \in 0 .. n
        /\ f[m] \in Seq(T \cap S)
    BY <1>1, <1>2
  <2>3. PICK w \in Seq(T \cap S) : w = f[m]
    BY <2>2
  <2>4. PICK l \in Nat : l = Len(w)
    OBVIOUS
  <2>5. /\ at \in [1 .. l -> 1 .. m]
        /\ \A i \in 1 .. l : w[i] = list[at[i]]
        /\ \A i, j \in 1 .. l : i < j => at[i] < at[j]
        /\ \A k \in 1 .. m : list[k] \in S => \E i \in 1 .. l : at[i] = k
    BY <2>1, <2>3, <2>4
  <2>6. CASE list[m + 1] \in S
    <3>1. f[m + 1] = Append(w, list[m + 1])
      BY <1>2, <2>2, <2>3, <2>6
    <3> DEFINE b == [i \in 1 .. l + 1 |-> IF i = l + 1 THEN m + 1 ELSE at[i]]
    <3>2. PICK x \in Seq(T \cap S) :
            /\ x = f[m + 1] /\ Len(x) = l + 1 /\ x[l + 1] = list[m + 1]
            /\ \A i \in 1 .. l : x[i] = w[i]
      <4>1. list[m + 1] \in T \cap S
        BY <1>1, <2>2, <2>6
      <4> DEFINE e == list[m + 1]
      <4> HIDE DEF e
      <4>2. /\ Append(w, e) \in Seq(T \cap S) /\ Len(Append(w, e)) = l + 1
            /\ Append(w, e)[l + 1] = e /\ \A i \in 1 .. l : Append(w, e)[i] = w[i]
        BY <2>4, <4>1, AppendProperties DEF e
      <4> QED BY <3>1, <4>2 DEF e
    <3>3. b \in [1 .. l + 1 -> 1 .. m + 1]
      BY <2>2, <2>4, <2>5
    <3>4. \A i \in 1 .. l + 1 : x[i] = list[b[i]]
      BY <2>4, <2>5, <3>2
    <3>5. ASSUME NEW i \in 1 .. l + 1, NEW j \in 1 .. l + 1, i < j PROVE b[i] < b[j]
      <4>1. i \in 1 .. l /\ b[i] = at[i] /\ at[i] \in 1 .. m
        BY <2>4, <2>5, <3>5
      <4>2. CASE j = l + 1
        BY <2>2, <4>1, <4>2
      <4>3. CASE j # l + 1
        <5>1. j \in 1 .. l /\ b[j] = at[j]
          BY <2>4, <4>3
        <5> QED BY <2>5, <3>5, <4>1, <5>1
      <4> QED BY <4>2, <4>3
    <3>6. \A k \in 1 .. m + 1 : list[k] \in S => \E i \in 1 .. l + 1 : b[i] = k
      <4> SUFFICES ASSUME NEW k \in 1 .. m + 1, list[k] \in S PROVE \E i \in 1 .. l + 1 : b[i] = k
        OBVIOUS
      <4>1. CASE k = m + 1
        <5>1. l + 1 \in 1 .. l + 1 /\ b[l + 1] = m + 1
          BY <2>4
        <5> QED BY <4>1, <5>1
      <4>2. CASE k # m + 1
        <5>1. k \in 1 .. m
          BY <2>2, <4>2
        <5>2. PICK i \in 1 .. l : at[i] = k
          BY <2>5, <5>1
        <5>3. i \in 1 .. l + 1 /\ b[i] = k
          BY <2>4, <5>2
        <5> QED BY <5>3
      <4> QED BY <4>1, <4>2
    <3> HIDE DEF b
    <3>7. Embeds(b, f[m + 1], m + 1)
      BY <3>2, <3>3, <3>4, <3>5, <3>6
    <3> HIDE DEF Embeds
    <3> QED BY <2>2, <3>7
  <2>7. CASE list[m + 1] \notin S
    <3>1. f[m + 1] = w
      BY <1>2, <2>2, <2>3, <2>7
    <3>2. at \in [1 .. l -> 1 .. m + 1]
      BY <2>2, <2>5
    <3>3. \A k \in 1 .. m + 1 : list[k] \in S => k \in 1 .. m
      BY <2>2, <2>7
    <3>4. Embeds(at, f[m + 1], m + 1)
      BY <2>4, <2>5, <3>1, <3>2, <3>3
    <3> HIDE DEF Embeds
    <3> QED BY <2>2, <3>4
  <2> QED BY <2>6, <2>7
<1>5. n \in E
  <2> HIDE DEF E, n
  <2>1. \A i \in 0 .. n : i \in E
    BY <1>1, <1>3, <1>4, UpTo
  <2> QED BY <1>1, <2>1
<1>6. PICK at : Embeds(at, f[n], n)
  BY <1>5
<1>7. f[n] \in Seq(T \cap S)
  BY <1>1, <1>2
<1> QED BY SMTT(30), <1>2, <1>6, <1>7

-----------------------------------------------------------------------------
(* Lists: the first place where something is, a place less.                *)

LEMMA MinIn ==
  ASSUME NEW n \in Nat, NEW I \in SUBSET (1 .. n), I # {}
  PROVE  Min(I) \in I
<1>1. I \in SUBSET Nat
  OBVIOUS
<1>2. \E x \in I : \A y \in I : x <= y
  BY <1>1, Least
<1> QED BY <1>2 DEF Min

LEMMA RemoveAtPlaces ==
  ASSUME NEW S, NEW s \in Seq(S), NEW k \in 1 .. Len(s)
  PROVE  /\ RemoveAt(s, k) \in Seq(S) /\ Len(RemoveAt(s, k)) = Len(s) - 1
         /\ \A i \in 1 .. Len(s) - 1 : RemoveAt(s, k)[i] = s[IF i < k THEN i ELSE i + 1]
<1> DEFINE n == Len(s)
           a == SubSeq(s, 1, k - 1)
           b == SubSeq(s, k + 1, n)
<1>1. n \in Nat /\ k \in 1 .. n
  OBVIOUS
<1>2. /\ a \in Seq(S) /\ Len(a) = k - 1
      /\ \A i \in 1 .. k - 1 : a[i] = s[i]
  BY <1>1, SubSeqProperties
<1>3. /\ b \in Seq(S) /\ Len(b) = n - k
      /\ \A i \in 1 .. n - k : b[i] = s[k + i]
  <2>1. CASE k < n
    BY <1>1, <2>1, SubSeqProperties
  <2>2. CASE k = n
    BY <1>1, <2>2, SubSeqProperties
  <2> QED BY <1>1, <2>1, <2>2
<1> HIDE DEF a, b
<1>4. /\ a \o b \in Seq(S) /\ Len(a \o b) = n - 1
      /\ \A i \in 1 .. n - 1 : (a \o b)[i] = IF i <= k - 1 THEN a[i] ELSE b[i - (k - 1)]
  <2> HIDE DEF n
  <2>1. (k - 1) + (n - k) = n - 1
    BY <1>1
  <2> QED BY <1>2, <1>3, <2>1, ConcatProperties
<1>5. RemoveAt(s, k) = a \o b
  BY DEF RemoveAt, a, b
<1>6. ASSUME NEW i \in 1 .. n - 1
      PROVE  (a \o b)[i] = s[IF i < k THEN i ELSE i + 1]
  <2>1. CASE i < k
    BY <1>1, <1>2, <1>4, <2>1
  <2>2. CASE i >= k
    <3>1. i - (k - 1) \in 1 .. n - k /\ k + (i - (k - 1)) = i + 1 /\ ~(i <= k - 1)
      BY <1>1, <2>2
    <3>2. b[i - (k - 1)] = s[i + 1] /\ ~(i < k)
      BY <1>1, <1>3, <2>2, <3>1
    <3>3. (a \o b)[i] = b[i - (k - 1)]
      BY <1>4, <3>1
    <3> QED BY <3>2, <3>3
  <2>3. i < k \/ i >= k
    BY <1>1
  <2> QED BY <2>1, <2>2, <2>3, Zenon
<1> QED BY <1>4, <1>5, <1>6
=============================================================================
