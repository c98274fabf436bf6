----------------------------- MODULE PrefixFacts -----------------------------
(***************************************************************************)
(* Induction, and what follows by it for the functions of PrefixFunctions. *)
(* The induction of the library takes an operator; here a property is the  *)
(* set of the numbers that have it.                                        *)
(***************************************************************************)
EXTENDS PrefixFunctions, Integers, TLAPS, WellFoundedInduction, FiniteSetTheorems

\* Every set of natural numbers has a least element.
LEMMA LeastNumber ==
  ASSUME NEW T, T \subseteq Nat, T # {}
  PROVE  \E x \in T : \A y \in T : x <= y
<1>1. \E x \in T : \A y \in T : ~ (<<y, x>> \in OpToRel(<, Nat))
  BY NatLessThanWellFounded, WFMin
<1>2. \A x, y \in Nat : y < x => <<y, x>> \in OpToRel(<, Nat)
  BY DEF OpToRel
<1>3. PICK x \in T : \A y \in T : ~ (<<y, x>> \in OpToRel(<, Nat))
  BY <1>1
<1>4. \A y \in T : ~(y < x)
  BY <1>2, <1>3
<1>5. QED
  BY <1>4

\* A set that holds 0, and with each number below n the next one, holds all up to n.
LEMMA InductionUpTo ==
  ASSUME NEW n \in Nat, NEW I, 0 \in I, \A k \in Nat : k < n /\ k \in I => k + 1 \in I
  PROVE  \A k \in 0 .. n : k \in I
<1> DEFINE T == {k \in Nat : k <= n /\ k \notin I}
<1>1. SUFFICES ASSUME T # {} PROVE FALSE
  OBVIOUS
<1>2. PICK x \in T : \A y \in T : x <= y
  BY <1>1, LeastNumber
<1>3. x \in Nat /\ x # 0 /\ x <= n /\ x \notin I
  BY <1>2
<1>4. x - 1 \in Nat /\ x - 1 < n /\ ~(x <= x - 1) /\ (x - 1) + 1 = x
  BY <1>3
<1>5. x - 1 \in I
  BY <1>2, <1>4
<1>6. QED
  BY <1>3, <1>4, <1>5

\* the functions that start at base and go from each value to the next by step
Steps(n, S, base, step) == {f \in [0 .. n -> S] : f[0] = base /\ \A k \in 1 .. n : f[k] = step[<<k, f[k - 1]>>]}

\* There is such a function, for any base and step.
LEMMA Recursion ==
  ASSUME NEW n \in Nat, NEW S, NEW base \in S, NEW step \in [(1 .. n) \X S -> S]
  PROVE  Steps(n, S, base, step) # {}
<1> DEFINE Is(f, m) == f[0] = base /\ \A k \in 1 .. m : f[k] = step[<<k, f[k - 1]>>]
           I == {m \in Nat : \E f \in [0 .. m -> S] : Is(f, m)}
<1>1. 0 \in I
  <2>1. [k \in 0 .. 0 |-> base] \in [0 .. 0 -> S] /\ Is([k \in 0 .. 0 |-> base], 0)
    OBVIOUS
  <2>2. QED
    BY <2>1
<1>2. ASSUME NEW m \in Nat, m < n, m \in I PROVE m + 1 \in I
  <2>1. PICK h \in [0 .. m -> S] : Is(h, m)
    BY <1>2
  <2> DEFINE f == [k \in 0 .. m + 1 |-> IF k = m + 1 THEN step[<<m + 1, h[m]>>] ELSE h[k]]
  <2>2. m + 1 \in 1 .. n /\ h[m] \in S
    BY <1>2
  <2>3. step[<<m + 1, h[m]>>] \in S
    BY <2>2
  <2>4. f \in [0 .. m + 1 -> S]
    BY <2>3
  <2>5. ASSUME NEW k \in 1 .. m + 1 PROVE f[k] = step[<<k, f[k - 1]>>]
    <3>1. CASE k = m + 1
      <4>1. k - 1 = m /\ m # m + 1 /\ m \in 0 .. m + 1 /\ m + 1 \in 0 .. m + 1
        BY <3>1
      <4>2. f[m] = h[m] /\ f[m + 1] = step[<<m + 1, h[m]>>]
        BY <4>1
      <4>3. QED
        BY <3>1, <4>1, <4>2
    <3>2. CASE k # m + 1
      <4>1. k \in 1 .. m /\ k \in 0 .. m + 1 /\ k - 1 \in 0 .. m + 1 /\ k - 1 # m + 1
        BY <3>2
      <4>2. f[k] = h[k] /\ f[k - 1] = h[k - 1]
        BY <3>2, <4>1
      <4>3. QED
        BY <2>1, <4>1, <4>2
    <3>3. QED
      BY <3>1, <3>2
  <2>6. f[0] = base
    BY <2>1
  <2> HIDE DEF f
  <2>7. Is(f, m + 1)
    BY <2>5, <2>6
  <2>8. QED
    BY <2>4, <2>7
<1> HIDE DEF I
<1>3. \A k \in 0 .. n : k \in I
  BY <1>1, <1>2, InductionUpTo
<1>4. n \in I
  BY <1>3
<1>5. QED
  BY <1>4 DEF I, Steps

\* Sums are numbers, and each is the one before and the next element.
LEMMA SumsStep ==
  ASSUME NEW s \in Seq(Nat)
  PROVE  /\ Sums(s) \in [0 .. Len(s) -> Nat] /\ Sums(s)[0] = 0
         /\ \A n \in 1 .. Len(s) : Sums(s)[n] = Sums(s)[n - 1] + s[n]
<1> DEFINE step == [p \in (1 .. Len(s)) \X Nat |-> p[2] + s[p[1]]]
           Is(f) == f = [n \in 0 .. Len(s) |-> IF n = 0 THEN 0 ELSE f[n - 1] + s[n]]
<1>1. Len(s) \in Nat /\ 0 \in Nat /\ \A n \in 1 .. Len(s) : s[n] \in Nat
  OBVIOUS
<1>2. step \in [(1 .. Len(s)) \X Nat -> Nat]
  BY <1>1
<1>3. \A n \in 1 .. Len(s), x \in Nat : step[<<n, x>>] = x + s[n]
  OBVIOUS
<1> HIDE DEF step
<1>4. Steps(Len(s), Nat, 0, step) # {}
  BY <1>1, <1>2, Recursion
<1>5. PICK f : f \in Steps(Len(s), Nat, 0, step)
  BY <1>4
<1>6. f \in [0 .. Len(s) -> Nat] /\ f[0] = 0 /\ \A n \in 1 .. Len(s) : f[n] = step[<<n, f[n - 1]>>]
  BY <1>5 DEF Steps
<1>7. ASSUME NEW n \in 1 .. Len(s) PROVE f[n] = f[n - 1] + s[n]
  <2>1. n - 1 \in 0 .. Len(s)
    BY <1>1
  <2>2. f[n - 1] \in Nat
    BY <2>1, <1>6
  <2>3. step[<<n, f[n - 1]>>] = f[n - 1] + s[n]
    BY <2>2, <1>3
  <2>4. f[n] = step[<<n, f[n - 1]>>]
    BY <1>6
  <2>5. QED
    BY <2>3, <2>4
<1>8. Is(f)
  BY <1>6, <1>7
<1>9. Is(Sums(s))
  BY <1>8 DEF Sums
<1>10. 0 \in 0 .. Len(s) /\ \A n \in 1 .. Len(s) : n \in 0 .. Len(s) /\ n # 0
  BY <1>1
<1>11. \A n \in 0 .. Len(s) : Sums(s)[n] = IF n = 0 THEN 0 ELSE Sums(s)[n - 1] + s[n]
  BY <1>9
<1>12. Sums(s)[0] = 0 /\ \A n \in 1 .. Len(s) : Sums(s)[n] = Sums(s)[n - 1] + s[n]
  BY <1>10, <1>11
<1> DEFINE I == {n \in Nat : Sums(s)[n] \in Nat}
<1>13. ASSUME NEW n \in Nat, n < Len(s), n \in I PROVE n + 1 \in I
  <2>1. n + 1 \in 1 .. Len(s) /\ (n + 1) - 1 = n
    BY <1>1, <1>13
  <2>2. Sums(s)[n + 1] = Sums(s)[n] + s[n + 1]
    BY <2>1, <1>12
  <2>3. s[n + 1] \in Nat /\ Sums(s)[n] \in Nat
    BY <2>1, <1>1, <1>13
  <2>4. QED
    BY <2>2, <2>3
<1>14. 0 \in I
  BY <1>12
<1> HIDE DEF I
<1>15. \A n \in 0 .. Len(s) : n \in I
  BY <1>1, <1>13, <1>14, InductionUpTo
<1>16. QED
  BY <1>9, <1>12, <1>15 DEF I

\* Sums grow.
LEMMA SumsGrow ==
  ASSUME NEW s \in Seq(Nat), NEW m \in 0 .. Len(s)
  PROVE  \A n \in m .. Len(s) : Sums(s)[m] <= Sums(s)[n]
<1> DEFINE I == {k \in Nat : m + k <= Len(s) => Sums(s)[m] <= Sums(s)[m + k]}
<1>1. m \in Nat /\ Len(s) \in Nat /\ Len(s) - m \in Nat
  OBVIOUS
<1>2. 0 \in I
  BY <1>1, SumsStep
<1>3. ASSUME NEW k \in Nat, k < Len(s) - m, k \in I PROVE k + 1 \in I
  <2>1. m + (k + 1) \in 1 .. Len(s) /\ m + (k + 1) - 1 = m + k /\ m + k \in 0 .. Len(s)
    BY <1>1, <1>3
  <2>2. Sums(s)[m + k] \in Nat /\ Sums(s)[m] \in Nat
    <3>1. Sums(s) \in [0 .. Len(s) -> Nat]
      BY SumsStep
    <3>2. QED
      BY <2>1, <3>1
  <2>5. s[m + (k + 1)] \in Nat
    BY <2>1
  <2>3. Sums(s)[m + (k + 1)] = Sums(s)[m + k] + s[m + (k + 1)]
    BY <2>1, SumsStep
  <2>4. QED
    BY <1>3, <2>1, <2>2, <2>3, <2>5
<1> HIDE DEF I
<1>4. \A k \in 0 .. Len(s) - m : k \in I
  BY <1>1, <1>2, <1>3, InductionUpTo
<1>5. ASSUME NEW n \in m .. Len(s) PROVE Sums(s)[m] <= Sums(s)[n]
  <2>1. n - m \in 0 .. Len(s) - m /\ m + (n - m) = n
    BY <1>1
  <2>2. QED
    BY <1>4, <2>1 DEF I
<1>6. QED
  BY <1>5

\* The sums of two sequences agree as far as the sequences do.
LEMMA SumsAgree ==
  ASSUME NEW s \in Seq(Nat), NEW t \in Seq(Nat), NEW n \in Nat, n <= Len(s), n <= Len(t),
         \A i \in 1 .. n : s[i] = t[i]
  PROVE  \A k \in 0 .. n : Sums(s)[k] = Sums(t)[k]
<1> DEFINE I == {k \in Nat : Sums(s)[k] = Sums(t)[k]}
<1>1. Len(s) \in Nat /\ Len(t) \in Nat
  OBVIOUS
<1>2. 0 \in I
  BY SumsStep
<1>3. ASSUME NEW k \in Nat, k < n, k \in I PROVE k + 1 \in I
  <2>1. k + 1 \in 1 .. Len(s) /\ k + 1 \in 1 .. Len(t) /\ k + 1 - 1 = k /\ k + 1 \in 1 .. n
    BY <1>1, <1>3
  <2>2. Sums(s)[k + 1] = Sums(s)[k] + s[k + 1] /\ Sums(t)[k + 1] = Sums(t)[k] + t[k + 1]
    BY <2>1, SumsStep
  <2>3. s[k + 1] = t[k + 1]
    BY <2>1
  <2>4. QED
    BY <1>3, <2>2, <2>3
<1> HIDE DEF I
<1>4. \A k \in 0 .. n : k \in I
  BY <1>2, <1>3, InductionUpTo
<1>5. QED
  BY <1>4 DEF I

\* A number that is appended adds to the total.
LEMMA TotalAppend ==
  ASSUME NEW s \in Seq(Nat), NEW x \in Nat
  PROVE  Total(s) \in Nat /\ Append(s, x) \in Seq(Nat) /\ Total(Append(s, x)) = Total(s) + x
<1> DEFINE a == Append(s, x)
<1>1. Len(s) \in Nat /\ a \in Seq(Nat) /\ Len(a) = Len(s) + 1 /\ a[Len(s) + 1] = x /\ \A i \in 1 .. Len(s) : s[i] = a[i]
  OBVIOUS
<1> HIDE DEF a
<1>2. Sums(a)[Len(s)] = Sums(s)[Len(s)]
  <2>1. Len(s) <= Len(s) /\ Len(s) <= Len(a) /\ Len(s) \in 0 .. Len(s)
    BY <1>1
  <2>2. \A k \in 0 .. Len(s) : Sums(s)[k] = Sums(a)[k]
    BY <1>1, <2>1, SumsAgree
  <2>3. QED
    BY <2>1, <2>2
<1>3. Len(a) \in 1 .. Len(a) /\ Len(a) - 1 = Len(s) /\ Len(s) \in 0 .. Len(s)
  BY <1>1
<1>4. Sums(a)[Len(a)] = Sums(a)[Len(s)] + x
  BY <1>1, <1>3, SumsStep
<1>5. Sums(s)[Len(s)] \in Nat
  BY <1>3, SumsStep
<1>6. QED
  BY <1>1, <1>2, <1>4, <1>5 DEF Total, a

\* What taking an element out of a sequence does.
LEMMA RemovedElements ==
  ASSUME NEW T, NEW s \in Seq(T), NEW n \in 1 .. Len(s)
  PROVE  /\ RemoveAt(s, n) \in Seq(T) /\ Len(RemoveAt(s, n)) = Len(s) - 1
         /\ \A i \in 1 .. Len(s) - 1 : RemoveAt(s, n)[i] = IF i < n THEN s[i] ELSE s[i + 1]
<1> DEFINE a == SubSeq(s, 1, n - 1)
           b == SubSeq(s, n + 1, Len(s))
<1>1. Len(s) \in Nat /\ n \in Nat /\ 1 <= n /\ n <= Len(s)
  OBVIOUS
<1>2. a \in Seq(T) /\ Len(a) = n - 1 /\ \A i \in 1 .. n - 1 : a[i] = s[i]
  BY <1>1
<1>3. b \in Seq(T) /\ Len(b) = Len(s) - n /\ \A i \in 1 .. Len(s) - n : b[i] = s[i + n]
  <2>1. CASE n = Len(s)
    <3>1. b = <<>>
      BY <1>1, <2>1
    <3>2. Len(s) - n = 0
      BY <1>1, <2>1
    <3> HIDE DEF b
    <3>3. QED
      BY <3>1, <3>2
  <2>2. CASE n # Len(s)
    <3>1. n + 1 \in 1 .. Len(s) /\ n + 1 <= Len(s) /\ Len(s) - (n + 1) + 1 = Len(s) - n
      BY <1>1, <2>2
    <3>2. b \in Seq(T) /\ Len(b) = Len(s) - (n + 1) + 1
      BY <1>1, <3>1
    <3>3. ASSUME NEW i \in 1 .. Len(s) - n PROVE b[i] = s[i + n]
      <4>1. i \in 1 .. Len(s) - (n + 1) + 1 /\ (n + 1) + i - 1 = i + n
        BY <1>1, <3>1
      <4>2. b[i] = s[(n + 1) + i - 1]
        BY <1>1, <3>1, <4>1
      <4>3. QED
        BY <4>1, <4>2
    <3> HIDE DEF b
    <3>4. QED
      BY <3>1, <3>2, <3>3
  <2>3. QED
    BY <2>1, <2>2
<1>4. RemoveAt(s, n) = a \o b
  BY DEF RemoveAt
<1> HIDE DEF a, b
<1>5. a \o b \in Seq(T) /\ Len(a \o b) = Len(s) - 1
  <2>1. a \in Seq(T) /\ b \in Seq(T)
    BY <1>2, <1>3
  <2>2. a \o b \in Seq(T) /\ Len(a \o b) = Len(a) + Len(b)
    BY <2>1
  <2>3. Len(a) + Len(b) = Len(s) - 1
    BY <1>1, <1>2, <1>3
  <2>4. QED
    BY <2>2, <2>3
<1>6. ASSUME NEW i \in 1 .. Len(s) - 1 PROVE (a \o b)[i] = IF i < n THEN s[i] ELSE s[i + 1]
  <2>1. CASE i < n
    BY <1>1, <1>2, <1>3, <2>1
  <2>2. CASE ~(i < n)
    <3>1. i - (n - 1) \in 1 .. Len(s) - n /\ i - (n - 1) + n = i + 1 /\ i > Len(a) /\ i <= Len(a) + Len(b)
      BY <1>1, <1>2, <1>3, <2>2
    <3>2. (a \o b)[i] = b[i - Len(a)]
      BY <1>2, <1>3, <3>1
    <3>3. QED
      BY <1>2, <1>3, <2>2, <3>1, <3>2
  <2>3. QED
    BY <2>1, <2>2
<1>7. QED
  BY <1>4, <1>5, <1>6

\* A number that is taken out is missing in the total.
LEMMA TotalRemove ==
  ASSUME NEW s \in Seq(Nat), NEW n \in 1 .. Len(s)
  PROVE  Total(RemoveAt(s, n)) \in Nat /\ Total(s) = Total(RemoveAt(s, n)) + s[n]
<1> DEFINE r == RemoveAt(s, n)
           I == {k \in Nat : n + k <= Len(s) => Sums(s)[n + k] = Sums(r)[n + k - 1] + s[n]}
<1>1. Len(s) \in Nat /\ n \in Nat /\ 1 <= n /\ n <= Len(s) /\ s[n] \in Nat
  OBVIOUS
<1>2. r \in Seq(Nat) /\ Len(r) = Len(s) - 1 /\ \A i \in 1 .. Len(s) - 1 : r[i] = IF i < n THEN s[i] ELSE s[i + 1]
  BY RemovedElements
<1> HIDE DEF r
<1>3. 0 \in I
  <2>1. n - 1 \in Nat /\ n - 1 <= Len(s) /\ n - 1 <= Len(r) /\ n - 1 \in 0 .. n - 1
    BY <1>1, <1>2
  <2>2. \A i \in 1 .. n - 1 : s[i] = r[i]
    BY <1>1, <1>2
  <2>3. \A k \in 0 .. n - 1 : Sums(s)[k] = Sums(r)[k]
    BY <1>2, <2>1, <2>2, SumsAgree
  <2>4. Sums(s)[n] = Sums(s)[n - 1] + s[n]
    BY SumsStep
  <2>5. n + 0 = n /\ n + 0 - 1 = n - 1
    BY <1>1
  <2>6. QED
    BY <2>1, <2>3, <2>4, <2>5
<1>4. ASSUME NEW k \in Nat, k < Len(s), k \in I PROVE k + 1 \in I
  <2>1. SUFFICES ASSUME n + (k + 1) <= Len(s) PROVE Sums(s)[n + (k + 1)] = Sums(r)[n + (k + 1) - 1] + s[n]
    OBVIOUS
  <2>2. /\ n + (k + 1) \in 1 .. Len(s) /\ n + (k + 1) - 1 = n + k /\ n + k <= Len(s)
        /\ n + k \in 1 .. Len(r) /\ ~(n + k < n) /\ n + k + 1 = n + (k + 1) /\ n + k - 1 \in 0 .. Len(r)
    BY <1>1, <1>2, <2>1
  <2>3. Sums(s)[n + (k + 1)] = Sums(s)[n + k] + s[n + (k + 1)]
    BY <2>2, SumsStep
  <2>4. Sums(r)[n + k] = Sums(r)[n + k - 1] + r[n + k] /\ Sums(r)[n + k - 1] \in Nat
    <3>1. /\ Sums(r) \in [0 .. Len(r) -> Nat]
          /\ \A m \in 1 .. Len(r) : Sums(r)[m] = Sums(r)[m - 1] + r[m]
      BY <1>2, SumsStep
    <3> DEFINE m == n + k
    <3>2. m \in 1 .. Len(r) /\ m - 1 \in 0 .. Len(r)
      BY <2>2
    <3> HIDE DEF m
    <3>3. Sums(r)[m] = Sums(r)[m - 1] + r[m] /\ Sums(r)[m - 1] \in Nat
      BY <3>1, <3>2
    <3>4. QED
      BY <3>3 DEF m
  <2>5. r[n + k] = s[n + (k + 1)]
    BY <1>2, <2>2
  <2>6. s[n + (k + 1)] \in Nat
    BY <2>2
  <2>7. Sums(s)[n + k] = Sums(r)[n + k - 1] + s[n]
    BY <1>4, <2>2
  <2> DEFINE u == Sums(r)[n + k - 1]
             v == s[n + (k + 1)]
  <2>8. Sums(s)[n + (k + 1)] = (u + s[n]) + v /\ Sums(r)[n + (k + 1) - 1] = u + v /\ u \in Nat /\ v \in Nat
    BY <2>2, <2>3, <2>4, <2>5, <2>6, <2>7
  <2> HIDE DEF u, v
  <2>9. QED
    BY <1>1, <2>8
<1> HIDE DEF I
<1>5. \A k \in 0 .. Len(s) : k \in I
  BY <1>1, <1>3, <1>4, InductionUpTo
<1>6. Len(s) - n \in 0 .. Len(s) /\ n + (Len(s) - n) = Len(s) /\ Len(r) = Len(s) - 1 /\ Len(r) \in 0 .. Len(r)
  BY <1>1, <1>2
<1>7. Sums(s)[Len(s)] = Sums(r)[Len(r)] + s[n]
  <2> DEFINE k == Len(s) - n
  <2>1. k \in I
    BY <1>5, <1>6
  <2>2. n + k = Len(s) /\ n + k - 1 = Len(r) /\ Len(s) <= Len(s)
    BY <1>1, <1>6
  <2> HIDE DEF k
  <2>3. QED
    BY <2>1, <2>2 DEF I
<1>8. Sums(r)[Len(r)] \in Nat
  BY <1>2, <1>6, SumsStep
<1>9. QED
  BY <1>7, <1>8 DEF Total, r

\* A selection is a sequence, and grows by each element that is chosen.
LEMMA OnlysStep ==
  ASSUME NEW T, NEW s \in Seq(T), NEW S
  PROVE  /\ Onlys(s, S) \in [0 .. Len(s) -> Seq(T)] /\ Onlys(s, S)[0] = <<>>
         /\ \A n \in 1 .. Len(s) :
              Onlys(s, S)[n] = IF s[n] \in S THEN Append(Onlys(s, S)[n - 1], s[n]) ELSE Onlys(s, S)[n - 1]
<1> DEFINE step == [p \in (1 .. Len(s)) \X Seq(T) |-> IF s[p[1]] \in S THEN Append(p[2], s[p[1]]) ELSE p[2]]
           Is(f) == f = [n \in 0 .. Len(s) |->
                          IF n = 0 THEN <<>> ELSE IF s[n] \in S THEN Append(f[n - 1], s[n]) ELSE f[n - 1]]
           I == {n \in Nat : Onlys(s, S)[n] \in Seq(T)}
<1>1. Len(s) \in Nat /\ <<>> \in Seq(T) /\ \A n \in 1 .. Len(s) : s[n] \in T
  OBVIOUS
<1>2. step \in [(1 .. Len(s)) \X Seq(T) -> Seq(T)]
  BY <1>1
<1>3. \A n \in 1 .. Len(s), x \in Seq(T) : step[<<n, x>>] = IF s[n] \in S THEN Append(x, s[n]) ELSE x
  OBVIOUS
<1> HIDE DEF step
<1>4. Steps(Len(s), Seq(T), <<>>, step) # {}
  BY <1>1, <1>2, Recursion
<1>5. PICK f : f \in Steps(Len(s), Seq(T), <<>>, step)
  BY <1>4
<1>6. f \in [0 .. Len(s) -> Seq(T)] /\ f[0] = <<>> /\ \A n \in 1 .. Len(s) : f[n] = step[<<n, f[n - 1]>>]
  BY <1>5 DEF Steps
<1>7. ASSUME NEW n \in 1 .. Len(s) PROVE f[n] = IF s[n] \in S THEN Append(f[n - 1], s[n]) ELSE f[n - 1]
  <2>1. n - 1 \in 0 .. Len(s)
    BY <1>1
  <2>2. f[n - 1] \in Seq(T)
    BY <2>1, <1>6
  <2>3. step[<<n, f[n - 1]>>] = IF s[n] \in S THEN Append(f[n - 1], s[n]) ELSE f[n - 1]
    BY <2>2, <1>3
  <2>4. f[n] = step[<<n, f[n - 1]>>]
    BY <1>6
  <2>5. QED
    BY <2>3, <2>4
<1>8. Is(f)
  <2>1. ASSUME NEW n \in 0 .. Len(s)
        PROVE  f[n] = IF n = 0 THEN <<>> ELSE IF s[n] \in S THEN Append(f[n - 1], s[n]) ELSE f[n - 1]
    <3>1. CASE n = 0
      BY <1>6, <3>1
    <3>2. CASE n # 0
      BY <1>7, <3>2
    <3>3. QED
      BY <3>1, <3>2
  <2>2. f = [n \in 0 .. Len(s) |-> f[n]]
    BY <1>6
  <2>3. QED
    BY <2>1, <2>2
<1>9. Is(Onlys(s, S))
  BY <1>8, Zenon DEF Onlys
<1>10. 0 \in 0 .. Len(s) /\ \A n \in 1 .. Len(s) : n \in 0 .. Len(s) /\ n # 0
  BY <1>1
<1>11. Onlys(s, S)[0] = <<>> /\ \A n \in 1 .. Len(s) :
         Onlys(s, S)[n] = IF s[n] \in S THEN Append(Onlys(s, S)[n - 1], s[n]) ELSE Onlys(s, S)[n - 1]
  BY <1>9, <1>10
<1>12. 0 \in I
  BY <1>1, <1>11
<1>13. ASSUME NEW n \in Nat, n < Len(s), n \in I PROVE n + 1 \in I
  <2>1. n + 1 \in 1 .. Len(s) /\ n + 1 - 1 = n
    BY <1>1, <1>13
  <2>2. Onlys(s, S)[n] \in Seq(T) /\ s[n + 1] \in T
    BY <1>1, <1>13, <2>1
  <2>3. Onlys(s, S)[n + 1] = IF s[n + 1] \in S THEN Append(Onlys(s, S)[n], s[n + 1]) ELSE Onlys(s, S)[n]
    BY <1>11, <2>1
  <2>4. Append(Onlys(s, S)[n], s[n + 1]) \in Seq(T)
    BY <2>2
  <2>5. Onlys(s, S)[n + 1] \in Seq(T)
    BY <2>2, <2>3, <2>4, Zenon
  <2>6. QED
    BY <1>13, <2>5
<1> HIDE DEF I
<1>14. \A n \in 0 .. Len(s) : n \in I
  BY <1>1, <1>12, <1>13, InductionUpTo
<1>15. QED
  BY <1>9, <1>11, <1>14 DEF I

\* What appending an element does.
LEMMA AppendElements ==
  ASSUME NEW T, NEW q \in Seq(T), NEW e \in T
  PROVE  /\ Append(q, e) \in Seq(T) /\ Len(Append(q, e)) = Len(q) + 1
         /\ Range(Append(q, e)) = Range(q) \cup {e}
         /\ IsInjective(q) /\ e \notin Range(q) => IsInjective(Append(q, e))
<1> DEFINE a == Append(q, e)
<1>1. Len(q) \in Nat /\ a \in Seq(T) /\ Len(a) = Len(q) + 1
  OBVIOUS
<1>2. DOMAIN q = 1 .. Len(q) /\ DOMAIN a = 1 .. Len(q) + 1
  OBVIOUS
<1>3. a[Len(q) + 1] = e /\ \A i \in 1 .. Len(q) : a[i] = q[i]
  OBVIOUS
<1>4. \A i \in DOMAIN a : i \in DOMAIN q \/ i = Len(q) + 1
  BY <1>1, <1>2
<1>5. \A i \in DOMAIN q : i \in DOMAIN a
  BY <1>1, <1>2
<1>6. Len(q) + 1 \in DOMAIN a
  BY <1>1, <1>2
<1> HIDE DEF a
<1>7. Range(a) = Range(q) \cup {e}
  <2>1. ASSUME NEW x \in Range(a) PROVE x \in Range(q) \cup {e}
    BY <1>2, <1>3, <1>4 DEF Range
  <2>2. ASSUME NEW x \in Range(q) PROVE x \in Range(a)
    <3>1. PICK i \in DOMAIN q : q[i] = x
      BY DEF Range
    <3>2. i \in DOMAIN a /\ a[i] = x
      BY <3>1, <1>2, <1>3, <1>5
    <3>3. QED
      BY <3>2 DEF Range
  <2>3. e \in Range(a)
    BY <1>3, <1>6 DEF Range
  <2>4. QED
    BY <2>1, <2>2, <2>3
<1>8. ASSUME IsInjective(q), e \notin Range(q) PROVE IsInjective(a)
  <2>1. ASSUME NEW i \in DOMAIN a, NEW j \in DOMAIN a, a[i] = a[j] PROVE i = j
    <3>1. \A k \in DOMAIN q : a[k] = q[k] /\ q[k] # e
      BY <1>2, <1>3, <1>8 DEF Range
    <3>2. i \in DOMAIN q /\ j \in DOMAIN q => q[i] = q[j]
      BY <3>1, <2>1
    <3>3. QED
      BY <1>3, <1>4, <1>8, <2>1, <3>1, <3>2 DEF IsInjective
  <2>2. QED
    BY <2>1 DEF IsInjective
<1>9. QED
  BY <1>1, <1>7, <1>8 DEF a

\* A selection has the elements of the sequence that are in S, no more of them, and none
\* twice if the sequence has none twice.
LEMMA OnlyElements ==
  ASSUME NEW T, NEW s \in Seq(T), NEW S
  PROVE  /\ Only(s, S) \in Seq(T) /\ Len(Only(s, S)) <= Len(s)
         /\ Range(Only(s, S)) = Range(s) \cap S
         /\ IsInjective(s) => IsInjective(Only(s, S))
<1> DEFINE r(n) == Onlys(s, S)[n]
           Good(n) == /\ Len(r(n)) <= n
                      /\ Range(r(n)) = {s[i] : i \in 1 .. n} \cap S
                      /\ IsInjective(s) => IsInjective(r(n))
           I == {n \in Nat : Good(n)}
<1>1. Len(s) \in Nat /\ DOMAIN s = 1 .. Len(s) /\ \A n \in 1 .. Len(s) : s[n] \in T
  OBVIOUS
<1>2. \A n \in 0 .. Len(s) : r(n) \in Seq(T)
  BY OnlysStep
<1>3. 0 \in I
  <2>1. r(0) = <<>>
    BY OnlysStep
  <2>2. QED
    BY <2>1 DEF Range, IsInjective
<1>4. ASSUME NEW n \in Nat, n < Len(s), n \in I PROVE n + 1 \in I
  <2>1. n + 1 \in 1 .. Len(s) /\ n + 1 - 1 = n /\ n \in 0 .. Len(s)
    BY <1>1, <1>4
  <2>2. r(n) \in Seq(T) /\ s[n + 1] \in T
    BY <1>1, <1>2, <2>1
  <2>3. r(n + 1) = IF s[n + 1] \in S THEN Append(r(n), s[n + 1]) ELSE r(n)
    BY <2>1, OnlysStep
  <2>4. {s[i] : i \in 1 .. n + 1} = {s[i] : i \in 1 .. n} \cup {s[n + 1]}
    OBVIOUS
  <2>5. Good(n)
    BY <1>4
  <2> HIDE DEF r
  <2>6. CASE s[n + 1] \in S
    <3>1. r(n + 1) = Append(r(n), s[n + 1])
      BY <2>3, <2>6
    <3>2. /\ Range(r(n + 1)) = Range(r(n)) \cup {s[n + 1]} /\ Len(r(n + 1)) = Len(r(n)) + 1
          /\ IsInjective(r(n)) /\ s[n + 1] \notin Range(r(n)) => IsInjective(r(n + 1))
      <4> DEFINE q == r(n)
                 e == s[n + 1]
      <4>1. q \in Seq(T) /\ e \in T
        BY <2>2
      <4> HIDE DEF q, e
      <4>2. /\ Len(Append(q, e)) = Len(q) + 1 /\ Range(Append(q, e)) = Range(q) \cup {e}
            /\ IsInjective(q) /\ e \notin Range(q) => IsInjective(Append(q, e))
        BY <4>1, AppendElements
      <4>3. QED
        BY <4>2, <3>1 DEF q, e
    <3>3. ASSUME IsInjective(s) PROVE IsInjective(r(n + 1))
      <4>1. s[n + 1] \notin {s[i] : i \in 1 .. n}
        BY <1>1, <2>1, <3>3 DEF IsInjective
      <4>2. s[n + 1] \notin Range(r(n)) /\ IsInjective(r(n))
        BY <2>5, <3>3, <4>1
      <4>3. QED
        BY <3>2, <4>2
    <3>4. Len(r(n)) \in Nat
      BY <2>2
    <3>5. QED
      BY <2>4, <2>5, <2>6, <3>2, <3>3, <3>4
  <2>7. CASE s[n + 1] \notin S
    BY <2>2, <2>3, <2>4, <2>5, <2>7
  <2>8. QED
    BY <2>6, <2>7
<1> HIDE DEF I
<1>5. \A n \in 0 .. Len(s) : n \in I
  BY <1>1, <1>3, <1>4, InductionUpTo
<1>6. Len(s) \in I /\ Len(s) \in 0 .. Len(s)
  BY <1>1, <1>5
<1>7. Range(s) = {s[i] : i \in 1 .. Len(s)}
  BY <1>1 DEF Range
<1>8. QED
  BY <1>2, <1>6, <1>7 DEF I, Only

\* What putting an element in front does.
LEMMA ConsElements ==
  ASSUME NEW T, NEW q \in Seq(T), NEW e \in T
  PROVE  /\ <<e>> \o q \in Seq(T) /\ Len(<<e>> \o q) = Len(q) + 1
         /\ Range(<<e>> \o q) = Range(q) \cup {e}
         /\ IsInjective(q) /\ e \notin Range(q) => IsInjective(<<e>> \o q)
<1> DEFINE a == <<e>> \o q
<1>1. Len(q) \in Nat /\ a \in Seq(T) /\ Len(a) = Len(q) + 1
  OBVIOUS
<1>2. DOMAIN q = 1 .. Len(q) /\ DOMAIN a = 1 .. Len(q) + 1
  OBVIOUS
<1>3. a[1] = e /\ \A i \in 1 .. Len(q) : a[i + 1] = q[i]
  OBVIOUS
<1>4. \A i \in DOMAIN a : i = 1 \/ (i - 1 \in DOMAIN q /\ i = (i - 1) + 1)
  BY <1>1, <1>2
<1>5. 1 \in DOMAIN a /\ \A i \in DOMAIN q : i + 1 \in DOMAIN a
  BY <1>1, <1>2
<1> HIDE DEF a
<1>6. \A i \in DOMAIN a : i # 1 => a[i] = q[i - 1]
  BY <1>2, <1>3, <1>4
<1>7. Range(a) = Range(q) \cup {e}
  <2>1. ASSUME NEW x \in Range(a) PROVE x \in Range(q) \cup {e}
    <3>1. PICK i \in DOMAIN a : a[i] = x
      BY DEF Range
    <3>2. QED
      BY <3>1, <1>3, <1>4, <1>6 DEF Range
  <2>2. ASSUME NEW x \in Range(q) PROVE x \in Range(a)
    <3>1. PICK i \in DOMAIN q : q[i] = x
      BY DEF Range
    <3>2. i + 1 \in DOMAIN a /\ a[i + 1] = x
      BY <3>1, <1>2, <1>3, <1>5
    <3>3. QED
      BY <3>2 DEF Range
  <2>3. e \in Range(a)
    BY <1>3, <1>5 DEF Range
  <2>4. QED
    BY <2>1, <2>2, <2>3
<1>8. ASSUME IsInjective(q), e \notin Range(q) PROVE IsInjective(a)
  <2>1. ASSUME NEW i \in DOMAIN a, NEW j \in DOMAIN a, a[i] = a[j] PROVE i = j
    <3>1. \A k \in DOMAIN q : q[k] # e
      BY <1>8 DEF Range
    <3>2. i # 1 /\ j # 1 => i - 1 = j - 1
      BY <1>4, <1>6, <1>8, <2>1 DEF IsInjective
    <3>3. (i = 1) <=> (j = 1)
      BY <1>3, <1>4, <1>6, <2>1, <3>1
    <3>4. QED
      BY <1>4, <3>2, <3>3
  <2>2. QED
    BY <2>1 DEF IsInjective
<1>9. QED
  BY <1>1, <1>7, <1>8 DEF a

\* What cutting a sequence off after n elements does.
LEMMA FrontElements ==
  ASSUME NEW T, NEW q \in Seq(T), NEW n \in 0 .. Len(q)
  PROVE  /\ SubSeq(q, 1, n) \in Seq(T) /\ Len(SubSeq(q, 1, n)) = n
         /\ \A i \in 1 .. n : SubSeq(q, 1, n)[i] = q[i]
         /\ Range(SubSeq(q, 1, n)) = {q[i] : i \in 1 .. n} /\ Range(SubSeq(q, 1, n)) \subseteq Range(q)
         /\ IsInjective(q) => IsInjective(SubSeq(q, 1, n))
<1> DEFINE f == SubSeq(q, 1, n)
<1>1. Len(q) \in Nat /\ n \in Nat /\ n <= Len(q) /\ DOMAIN q = 1 .. Len(q)
  OBVIOUS
<1>2. f \in Seq(T) /\ Len(f) = n /\ DOMAIN f = 1 .. n
  BY <1>1
<1>3. \A i \in 1 .. n : f[i] = q[i] /\ i \in 1 .. Len(q)
  BY <1>1
<1> HIDE DEF f
<1>4. Range(f) = {q[i] : i \in 1 .. n} /\ Range(f) \subseteq Range(q)
  BY <1>1, <1>2, <1>3 DEF Range
<1>5. IsInjective(q) => IsInjective(f)
  BY <1>1, <1>2, <1>3 DEF IsInjective
<1>6. QED
  BY <1>2, <1>3, <1>4, <1>5 DEF f

\* A sequence that has nothing twice is as long as the set of its elements is large.
LEMMA InjectiveLength ==
  ASSUME NEW T, NEW q \in Seq(T), IsInjective(q)
  PROVE  IsFiniteSet(Range(q)) /\ Cardinality(Range(q)) = Len(q)
<1>1. Len(q) \in Nat /\ DOMAIN q = 1 .. Len(q)
  OBVIOUS
<1>2. q \in Bijection(1 .. Len(q), Range(q))
  <2>1. q \in [1 .. Len(q) -> Range(q)]
    BY <1>1 DEF Range
  <2>2. QED
    BY <1>1, <2>1 DEF Bijection, Injection, Surjection, Range, IsInjective
<1>3. IsFiniteSet(1 .. Len(q)) /\ Cardinality(1 .. Len(q)) = Len(q)
  BY <1>1, FS_Interval
<1>4. QED
  BY <1>2, <1>3, FS_Bijection DEF ExistsBijection

\* The minimum of a set of numbers is one of them, and no other is less.
LEMMA MinIsLeast ==
  ASSUME NEW I, I \subseteq Nat, I # {}
  PROVE  Min(I) \in I /\ \A i \in I : Min(I) <= i
<1>1. \E x \in I : \A y \in I : x <= y
  BY LeastNumber
<1>2. QED
  BY <1>1 DEF Min
=============================================================================
