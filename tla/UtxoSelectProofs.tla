-------------------------- MODULE UtxoSelectProofs --------------------------
(***************************************************************************)
(* Proofs about UtxoSelect: the inputs of a payment are distinct, what it  *)
(* pays out is what they bring in, a payment after retries is covered all  *)
(* the same, and how far the limit on the inputs may be passed.  The first *)
(* part is induction: the totals and the listing are recursive functions,  *)
(* and what they yield is proved by the least number for which it fails.   *)
(***************************************************************************)
EXTENDS UtxoSelect, WellFoundedInduction, TLAPS

(***************************************************************************)
(* Induction.                                                              *)

\* A set of numbers that is not empty has a least one.
LEMMA LeastNumber ==
  ASSUME NEW T \in SUBSET Nat, T # {}
  PROVE  \E x \in T : \A y \in T : x <= y
<1> DEFINE R == {ss \in Nat \X Nat : ss[1] < ss[2]}
<1>1. IsWellFoundedOn(R, Nat)
  BY NatLessThanWellFounded, Zenon DEF OpToRel
<1>2. \A x, y \in Nat : y < x => <<y, x>> \in R
  OBVIOUS
<1> HIDE DEF R
<1>3. PICK x \in T : \A y \in T : ~(<<y, x>> \in R)
  BY <1>1, WFMin
<1>4. \A y \in T : ~(y < x)
  BY <1>2, <1>3
<1> QED BY <1>3, <1>4

\* Induction up to N, for membership in a set.
LEMMA IntervalInduction ==
  ASSUME NEW N \in Nat, NEW S, 0 \in S, \A k \in 0..(N - 1) : k \in S => k + 1 \in S
  PROVE  0..N \subseteq S
<1> DEFINE T == (0..N) \ S
<1> SUFFICES ASSUME T # {}
             PROVE  FALSE
  OBVIOUS
<1>1. T \in SUBSET Nat
  OBVIOUS
<1>2. PICK x \in T : \A y \in T : x <= y
  <2> HIDE DEF T
  <2> QED BY <1>1, LeastNumber
<1>3. x \in 1..N
  BY <1>2
<1>4. x - 1 \in 0..(N - 1) /\ x - 1 \notin T
  BY <1>2, <1>3
<1> QED BY <1>2, <1>3, <1>4
-----------------------------------------------------------------------------
(* Sums.                                                                   *)

\* The partial sums of f up to k.
Parts(f, k) == {p \in [0..k -> Nat] : p[0] = 0 /\ \A j \in 1..k : p[j] = p[j - 1] + f[j]}

\* There are partial sums of every f.
LEMMA PartsExist ==
  ASSUME NEW n \in Nat, NEW f \in [1..n -> Nat]
  PROVE  Parts(f, n) # {}
<1> DEFINE S == {k \in 0..n : Parts(f, k) # {}}
<1>1. 0 \in S
  <2>1. [j \in 0..0 |-> 0] \in Parts(f, 0)
    BY DEF Parts
  <2> QED BY <2>1
<1>2. ASSUME NEW k \in 0..(n - 1), k \in S
      PROVE  k + 1 \in S
  <2>1. PICK p \in Parts(f, k) : TRUE
    BY <1>2
  <2> DEFINE q == [j \in 0..(k + 1) |-> IF j = k + 1 THEN p[k] + f[k + 1] ELSE p[j]]
  <2>2. p[k] + f[k + 1] \in Nat
    BY <2>1 DEF Parts
  <2>3. q \in [0..(k + 1) -> Nat]
    BY <2>1, <2>2 DEF Parts
  <2>4. q[0] = 0 /\ \A j \in 1..(k + 1) : q[j] = q[j - 1] + f[j]
    BY <2>1 DEF Parts
  <2>5. q \in Parts(f, k + 1)
    BY <2>3, <2>4 DEF Parts
  <2> QED BY <2>5
<1>3. 0..n \subseteq S
  <2> HIDE DEF S
  <2> QED BY <1>1, <1>2, IntervalInduction
<1> QED BY <1>3

\* SumOf is the last of them.
LEMMA SumIsLastPart ==
  ASSUME NEW n \in Nat, NEW f \in [1..n -> Nat]
  PROVE  \E p \in Parts(f, n) : SumOf(f, n) = p[n]
<1> DEFINE D(g) == [k \in 0..n |-> IF k = 0 THEN 0 ELSE g[k - 1] + f[k]]
           part == CHOOSE g : g = D(g)
<1>1. SumOf(f, n) = part[n]
  BY DEF SumOf
<1>2. PICK p \in Parts(f, n) : TRUE
  BY PartsExist
<1>3. p \in [0..n -> Nat] /\ \A k \in 0..n : p[k] = D(p)[k]
  BY <1>2 DEF Parts
<1>4. p = D(p)
  BY <1>3
<1>5. part = D(part)
  <2> HIDE DEF D
  <2> QED BY <1>4
<1> HIDE DEF part
<1>6. part[0] = 0 /\ \A k \in 1..n : part[k] = part[k - 1] + f[k]
  BY <1>5
<1> DEFINE S == {k \in 0..n : part[k] \in Nat}
<1>7. 0 \in S
  BY <1>6
<1>8. ASSUME NEW k \in 0..(n - 1), k \in S
      PROVE  k + 1 \in S
  BY <1>6, <1>8
<1>9. 0..n \subseteq S
  <2> HIDE DEF S
  <2> QED BY <1>7, <1>8, IntervalInduction
<1>10. part \in [0..n -> Nat]
  BY <1>5, <1>9
<1> QED BY <1>1, <1>6, <1>10 DEF Parts

\* Two functions that agree up to n have the same partial sums up to n.
LEMMA PartsAgree ==
  ASSUME NEW n \in Nat, NEW f, NEW g, \A j \in 1..n : f[j] = g[j],
         NEW p \in Parts(f, n + 1), NEW q \in Parts(g, n)
  PROVE  p[n] = q[n]
<1> DEFINE S == {k \in 0..n : p[k] = q[k]}
<1>1. 0 \in S
  BY DEF Parts
<1>2. ASSUME NEW k \in 0..(n - 1), k \in S
      PROVE  k + 1 \in S
  BY <1>2 DEF Parts
<1>3. 0..n \subseteq S
  <2> HIDE DEF S
  <2> QED BY <1>1, <1>2, IntervalInduction
<1> QED BY <1>3

\* A sum is a number, and nothing adds up to zero.
LEMMA SumType ==
  ASSUME NEW n \in Nat, NEW f \in [1..n -> Nat]
  PROVE  SumOf(f, n) \in Nat /\ (n = 0 => SumOf(f, n) = 0)
<1>1. PICK p \in Parts(f, n) : SumOf(f, n) = p[n]
  BY SumIsLastPart
<1> QED BY <1>1 DEF Parts

\* One summand more.
LEMMA SumStep ==
  ASSUME NEW n \in Nat, NEW f \in [1..(n + 1) -> Nat], NEW g \in [1..n -> Nat],
         \A j \in 1..n : f[j] = g[j]
  PROVE  SumOf(f, n + 1) = SumOf(g, n) + f[n + 1]
<1>1. PICK p \in Parts(f, n + 1) : SumOf(f, n + 1) = p[n + 1]
  BY SumIsLastPart
<1>2. PICK q \in Parts(g, n) : SumOf(g, n) = q[n]
  BY SumIsLastPart
<1>3. p[n] = q[n]
  BY PartsAgree
<1>4. p[n + 1] = p[n] + f[n + 1]
  <2>1. n + 1 \in 1..(n + 1) /\ (n + 1) - 1 = n
    OBVIOUS
  <2> QED BY <2>1 DEF Parts
<1> QED BY <1>1, <1>2, <1>3, <1>4

\* The sum of what is the sum of two, at each place.
LEMMA SumAdds ==
  ASSUME NEW n \in Nat, NEW f \in [1..n -> Nat], NEW g \in [1..n -> Nat],
         NEW h \in [1..n -> Nat], \A j \in 1..n : h[j] = f[j] + g[j]
  PROVE  SumOf(h, n) = SumOf(f, n) + SumOf(g, n)
<1>1. PICK p \in Parts(f, n) : SumOf(f, n) = p[n]
  BY SumIsLastPart
<1>2. PICK q \in Parts(g, n) : SumOf(g, n) = q[n]
  BY SumIsLastPart
<1>3. PICK r \in Parts(h, n) : SumOf(h, n) = r[n]
  BY SumIsLastPart
<1> DEFINE S == {k \in 0..n : r[k] = p[k] + q[k]}
<1>4. 0 \in S
  BY DEF Parts
<1>5. ASSUME NEW k \in 0..(n - 1), k \in S
      PROVE  k + 1 \in S
  <2>0. k \in 0..n /\ k + 1 \in 1..n /\ (k + 1) - 1 = k
    OBVIOUS
  <2>1. p[k + 1] = p[k] + f[k + 1] /\ q[k + 1] = q[k] + g[k + 1]
    BY <2>0 DEF Parts
  <2>2. r[k + 1] = r[k] + h[k + 1] /\ h[k + 1] = f[k + 1] + g[k + 1]
    BY <2>0 DEF Parts
  <2>3. p[k] \in Nat /\ q[k] \in Nat
    BY <2>0 DEF Parts
  <2>4. f[k + 1] \in Nat /\ g[k + 1] \in Nat
    BY <2>0
  <2>5. r[k] = p[k] + q[k]
    BY <1>5
  <2>6. r[k + 1] = p[k + 1] + q[k + 1]
    <3> DEFINE x == p[k]
               y == q[k]
               u == f[k + 1]
               v == g[k + 1]
    <3>1. x \in Nat /\ y \in Nat /\ u \in Nat /\ v \in Nat
      BY <2>3, <2>4
    <3>2. p[k + 1] = x + u /\ q[k + 1] = y + v /\ r[k + 1] = (x + y) + (u + v)
      BY <2>1, <2>2, <2>5
    <3> HIDE DEF x, y, u, v
    <3>3. (x + y) + (u + v) = (x + u) + (y + v)
      BY <3>1
    <3> QED BY <3>2, <3>3
  <2> QED BY <2>0, <2>6
<1>6. 0..n \subseteq S
  <2> HIDE DEF S
  <2> QED BY <1>4, <1>5, IntervalInduction
<1> QED BY <1>1, <1>2, <1>3, <1>6

\* A single summand that is not zero.
LEMMA SumOfOne ==
  ASSUME NEW n \in Nat, NEW f \in [1..n -> Nat], NEW i \in 1..n,
         \A j \in 1..n : j # i => f[j] = 0
  PROVE  SumOf(f, n) = f[i]
<1>1. PICK p \in Parts(f, n) : SumOf(f, n) = p[n]
  BY SumIsLastPart
<1> DEFINE S == {k \in 0..n : p[k] = IF k < i THEN 0 ELSE f[i]}
<1>2. 0 \in S
  BY DEF Parts
<1>3. ASSUME NEW k \in 0..(n - 1), k \in S
      PROVE  k + 1 \in S
  <2>1. k + 1 \in 1..n /\ (k + 1) - 1 = k /\ f[i] \in Nat
    OBVIOUS
  <2>2. p[k + 1] = p[k] + f[k + 1] /\ p[k] = IF k < i THEN 0 ELSE f[i]
    BY <1>3, <2>1 DEF Parts
  <2>3. CASE k + 1 = i
    BY <2>1, <2>2, <2>3
  <2>4. CASE k + 1 # i
    <3>1. f[k + 1] = 0
      BY <2>1, <2>4
    <3> QED BY <2>1, <2>2, <2>4, <3>1
  <2> QED BY <2>3, <2>4
<1>4. 0..n \subseteq S
  <2> HIDE DEF S
  <2> QED BY <1>2, <1>3, IntervalInduction
<1> QED BY <1>1, <1>4
-----------------------------------------------------------------------------
(* Totals.                                                                 *)

Fields == {"amount", "coins"}

\* The total of records whose fields are numbers.
LEMMA TotalType ==
  ASSUME NEW S, NEW field, \A r \in S : r[field] \in Nat, NEW s \in Seq(S)
  PROVE  Total(s, field) \in Nat /\ (s = << >> => Total(s, field) = 0)
<1> DEFINE f == [k \in 1..Len(s) |-> s[k][field]]
<1>1. f \in [1..Len(s) -> Nat] /\ Len(s) \in Nat
  OBVIOUS
<1> HIDE DEF f
<1>2. SumOf(f, Len(s)) \in Nat /\ (Len(s) = 0 => SumOf(f, Len(s)) = 0)
  BY <1>1, SumType
<1> QED BY <1>2 DEF f, Total

\* A record more adds what it has.
LEMMA TotalOfAppend ==
  ASSUME NEW S, NEW field, \A r \in S : r[field] \in Nat, NEW s \in Seq(S), NEW r \in S
  PROVE  Total(Append(s, r), field) = Total(s, field) + r[field]
<1> DEFINE t == Append(s, r)
           n == Len(s)
           f == [k \in 1..Len(t) |-> t[k][field]]
           g == [k \in 1..n |-> s[k][field]]
<1>1. n \in Nat /\ Len(t) = n + 1 /\ t \in Seq(S) /\ t[n + 1] = r
      /\ \A j \in 1..n : t[j] = s[j]
  OBVIOUS
<1>2. g \in [1..n -> Nat]
  OBVIOUS
<1>3. f \in [1..(n + 1) -> Nat]
  <2> HIDE DEF t, n
  <2> QED BY <1>1
<1>4. f[n + 1] = r[field] /\ \A j \in 1..n : f[j] = g[j]
  <2> HIDE DEF t
  <2> QED BY <1>1
<1>5. SumOf(f, n + 1) = SumOf(g, n) + f[n + 1]
  <2> HIDE DEF f, g, n
  <2> QED BY <1>1, <1>2, <1>3, <1>4, SumStep
<1>6. Total(t, field) = SumOf(f, n + 1) /\ Total(s, field) = SumOf(g, n)
  <2> HIDE DEF t
  <2> QED BY <1>1 DEF Total
<1> QED BY <1>4, <1>5, <1>6

\* Parcel is what Worth adds up.
Parcel(S, field) == [i \in Ids |-> IF i \in S THEN Wallet[i][field] ELSE 0]

\* What an output holds is a number, and so is a parcel of it.
LEMMA ParcelType ==
  ASSUME NEW S, NEW field \in Fields
  PROVE  /\ Len(Wallet) \in Nat /\ Ids = 1..Len(Wallet)
         /\ \A i \in Ids : Wallet[i][field] \in Nat
         /\ Parcel(S, field) \in [1..Len(Wallet) -> Nat]
         /\ Worth(S, field) = SumOf(Parcel(S, field), Len(Wallet))
<1>1. Len(Wallet) \in Nat /\ Ids = 1..Len(Wallet)
  BY WalletAssumption DEF Ids
<1> DEFINE Output == [token : {"none", "ours", "other"}, amount : Nat, coins : Nat]
<1>2. \A i \in Ids : Wallet[i] \in Output
  <2>1. Wallet \in Seq(Output)
    BY WalletAssumption
  <2> HIDE DEF Output
  <2> QED BY <1>1, <2>1
<1>3. \A i \in Ids : Wallet[i][field] \in Nat
  BY <1>2 DEF Fields
<1>4. Parcel(S, field) \in [1..Len(Wallet) -> Nat]
  BY <1>1, <1>3 DEF Parcel
<1> QED BY <1>1, <1>3, <1>4 DEF Worth, Parcel

\* Outputs are worth a number.
LEMMA WorthType ==
  ASSUME NEW S, NEW field \in Fields
  PROVE  Worth(S, field) \in Nat
BY ParcelType, SumType

\* No outputs are worth nothing.
LEMMA WorthOfNone ==
  ASSUME NEW field \in Fields
  PROVE  Worth({}, field) = 0
<1> DEFINE f == Parcel({}, field)
           n == Len(Wallet)
<1>1. f \in [1..n -> Nat] /\ n \in Nat /\ Worth({}, field) = SumOf(f, n)
  BY ParcelType
<1>2. \A j \in 1..n : f[j] = f[j] + f[j]
  BY DEF Parcel, Ids
<1> HIDE DEF f, n
<1>3. SumOf(f, n) = SumOf(f, n) + SumOf(f, n) /\ SumOf(f, n) \in Nat
  BY <1>1, <1>2, SumAdds, SumType
<1> QED BY <1>1, <1>3

\* Two sets of outputs without a common one are worth what each is.
LEMMA WorthOfUnion ==
  ASSUME NEW A, NEW B, A \cap B = {}, NEW field \in Fields
  PROVE  Worth(A \cup B, field) = Worth(A, field) + Worth(B, field)
<1> DEFINE f == Parcel(A, field)
           g == Parcel(B, field)
           h == Parcel(A \cup B, field)
           n == Len(Wallet)
<1>1. /\ n \in Nat /\ f \in [1..n -> Nat] /\ g \in [1..n -> Nat] /\ h \in [1..n -> Nat]
      /\ Worth(A, field) = SumOf(f, n) /\ Worth(B, field) = SumOf(g, n)
      /\ Worth(A \cup B, field) = SumOf(h, n)
  BY ParcelType
<1>2. \A j \in 1..n : h[j] = f[j] + g[j]
  <2>1. \A j \in 1..n : j \in Ids /\ Wallet[j][field] \in Nat
    BY ParcelType
  <2> QED BY <2>1 DEF Parcel
<1> HIDE DEF f, g, h, n
<1>3. SumOf(h, n) = SumOf(f, n) + SumOf(g, n)
  BY <1>1, <1>2, SumAdds
<1> QED BY <1>1, <1>3

\* More outputs are worth no less.
LEMMA WorthOfSubset ==
  ASSUME NEW A, NEW B, A \subseteq B, NEW field \in Fields
  PROVE  Worth(A, field) <= Worth(B, field)
<1> DEFINE C == B \ A
<1>1. A \cup C = B /\ A \cap C = {}
  OBVIOUS
<1> HIDE DEF C
<1>2. Worth(A \cup C, field) = Worth(A, field) + Worth(C, field)
  BY <1>1, WorthOfUnion
<1>3. Worth(B, field) = Worth(A, field) + Worth(C, field)
  BY <1>1, <1>2, Zenon
<1>4. Worth(A, field) \in Nat /\ Worth(C, field) \in Nat
  BY WorthType
<1> QED BY <1>3, <1>4

\* An output more adds what it holds.
LEMMA WorthOfOneMore ==
  ASSUME NEW A, NEW i \in Ids, i \notin A, NEW field \in Fields
  PROVE  Worth(A \cup {i}, field) = Worth(A, field) + Wallet[i][field]
<1> DEFINE f == Parcel({i}, field)
           n == Len(Wallet)
<1>1. f \in [1..n -> Nat] /\ n \in Nat /\ Worth({i}, field) = SumOf(f, n) /\ i \in 1..n
  BY ParcelType
<1>2. f[i] = Wallet[i][field] /\ \A j \in 1..n : j # i => f[j] = 0
  BY DEF Parcel, Ids
<1> HIDE DEF f, n
<1>3. Worth({i}, field) = Wallet[i][field]
  BY <1>1, <1>2, SumOfOne
<1>4. Worth(A \cup {i}, field) = Worth(A, field) + Worth({i}, field)
  <2>1. A \cap {i} = {}
    OBVIOUS
  <2> QED BY <2>1, WorthOfUnion
<1> QED BY <1>3, <1>4
-----------------------------------------------------------------------------
(* The listing.                                                            *)

Elems(s) == {s[n] : n \in 1..Len(s)}
Ascending(s) == \A m, n \in 1..Len(s) : m < n => s[m] < s[n]

\* The outputs of S among the first k, in order.
Ordered(S, k) == {s \in Seq(Ids) : Ascending(s) /\ Elems(s) = S \cap (1..k)}

\* One output more is listed behind the ones before it.
LEMMA AppendOrdered ==
  ASSUME NEW S \in SUBSET Ids, NEW k \in Nat, k + 1 \in Ids, NEW s \in Ordered(S, k)
  PROVE  (IF k + 1 \in S THEN Append(s, k + 1) ELSE s) \in Ordered(S, k + 1)
<1>1. s \in Seq(Ids) /\ Ascending(s) /\ Elems(s) = S \cap (1..k)
  BY DEF Ordered
<1>2. S \cap (1..(k + 1)) = (S \cap (1..k)) \cup (S \cap {k + 1})
  OBVIOUS
<1>3. CASE k + 1 \notin S
  BY <1>1, <1>2, <1>3 DEF Ordered
<1>4. CASE k + 1 \in S
  <2> DEFINE t == Append(s, k + 1)
  <2>1. /\ t \in Seq(Ids) /\ Len(t) = Len(s) + 1 /\ t[Len(s) + 1] = k + 1 /\ Len(s) \in Nat
        /\ \A n \in 1..Len(s) : t[n] = s[n] /\ s[n] \in 1..k
    BY <1>1 DEF Elems
  <2> HIDE DEF t
  <2>2. Elems(t) = Elems(s) \cup {k + 1}
    BY <2>1 DEF Elems
  <2>3. Ascending(t)
    <3> SUFFICES ASSUME NEW m \in 1..Len(t), NEW n \in 1..Len(t), m < n
                 PROVE  t[m] < t[n]
      BY DEF Ascending
    <3>1. m \in 1..Len(s) /\ t[m] = s[m] /\ s[m] \in 1..k
      BY <2>1
    <3>2. CASE n = Len(s) + 1
      BY <2>1, <3>1, <3>2
    <3>3. CASE n \in 1..Len(s)
      BY <1>1, <2>1, <3>1, <3>3 DEF Ascending
    <3> QED BY <2>1, <3>2, <3>3
  <2>4. t \in Ordered(S, k + 1)
    BY <1>1, <1>2, <1>4, <2>1, <2>2, <2>3 DEF Ordered
  <2> QED BY <1>4, <2>4 DEF t
<1> QED BY <1>3, <1>4

\* The listings of the first 0, 1, ..., k outputs.
Longer(S, s, j) == IF j \in S THEN Append(s, j) ELSE s
Listings(S, k) ==
    {p \in [0..k -> Seq(Ids)] : p[0] = << >> /\ \A j \in 1..k : p[j] = Longer(S, p[j - 1], j)}

\* There is a listing of the outputs up to each one.
LEMMA ListingsExist ==
  ASSUME NEW S \in SUBSET Ids
  PROVE  Listings(S, Len(Wallet)) # {}
<1> DEFINE n == Len(Wallet)
           T == {k \in 0..n : Listings(S, k) # {}}
<1>0. n \in Nat /\ Ids = 1..n
  BY WalletAssumption DEF Ids
<1> HIDE DEF n
<1>1. 0 \in T
  <2>1. [j \in 0..0 |-> << >>] \in Listings(S, 0)
    BY DEF Listings
  <2> QED BY <1>0, <2>1
<1>2. ASSUME NEW k \in 0..(n - 1), k \in T
      PROVE  k + 1 \in T
  <2>1. PICK p \in Listings(S, k) : TRUE
    BY <1>2
  <2> DEFINE q == [j \in 0..(k + 1) |-> IF j = k + 1 THEN Longer(S, p[k], k + 1) ELSE p[j]]
  <2>2. p \in [0..k -> Seq(Ids)] /\ p[0] = << >>
        /\ \A j \in 1..k : p[j] = Longer(S, p[j - 1], j)
    BY <2>1 DEF Listings
  <2>3. Longer(S, p[k], k + 1) \in Seq(Ids)
    <3>1. p[k] \in Seq(Ids) /\ k + 1 \in Ids
      BY <1>0, <2>2
    <3> QED BY <3>1 DEF Longer
  <2>4. q \in [0..(k + 1) -> Seq(Ids)]
    BY <2>2, <2>3
  <2>5. q[0] = << >> /\ \A j \in 1..(k + 1) : q[j] = Longer(S, q[j - 1], j)
    BY <2>2
  <2> HIDE DEF q
  <2>6. q \in Listings(S, k + 1)
    BY <2>4, <2>5 DEF Listings
  <2> QED BY <1>0, <2>6
<1>3. 0..n \subseteq T
  <2> HIDE DEF T
  <2> QED BY <1>0, <1>1, <1>2, IntervalInduction
<1> QED BY <1>0, <1>3 DEF n

\* The indexer lists the outputs that Shown says, each once, in the order of the wallet.
LEMMA ListingIsOrdered ==
  ASSUME NEW withTokens \in BOOLEAN, NEW known
  PROVE  /\ Listing(withTokens, known) \in Seq(Ids)
         /\ Ascending(Listing(withTokens, known))
         /\ Elems(Listing(withTokens, known)) = Shown(withTokens, known)
<1> DEFINE S == Shown(withTokens, known)
           n == Len(Wallet)
           E(g, k) == IF k = 0 THEN << >>
                      ELSE IF k \in S THEN Append(g[k - 1], k)
                      ELSE g[k - 1]
           D(g) == [k \in 0..n |-> E(g, k)]
           first == CHOOSE g : g = D(g)
<1>0. n \in Nat /\ Ids = 1..n
  BY WalletAssumption DEF Ids
<1>1. Listing(withTokens, known) = first[n]
  BY DEF Listing
<1>2. S \in SUBSET Ids
  BY DEF Shown
<1> HIDE DEF S, n
<1>3. PICK p \in Listings(S, n) : TRUE
  BY <1>2, ListingsExist DEF n
<1>4. \A k \in 0..n : p[k] = E(p, k)
  <2>1. p[0] = << >> /\ \A k \in 1..n : p[k] = Longer(S, p[k - 1], k)
    BY <1>3 DEF Listings
  <2>2. \A k \in 0..n : k = 0 \/ (k # 0 /\ k \in 1..n)
    BY <1>0
  <2> QED BY <2>1, <2>2, Zenon DEF Longer
<1>5. p = D(p)
  <2>1. p \in [0..n -> Seq(Ids)]
    BY <1>3 DEF Listings
  <2> HIDE DEF E
  <2> QED BY <1>4, <2>1
<1>6. first = D(first)
  <2> HIDE DEF D
  <2> QED BY <1>5
<1> HIDE DEF first
<1>7. first[0] = << >>
      /\ \A k \in 1..n : first[k] = IF k \in S THEN Append(first[k - 1], k) ELSE first[k - 1]
  <2>1. \A k \in 0..n : first[k] = E(first, k)
    <3> HIDE DEF E
    <3> QED BY <1>6
  <2>2. 0 \in 0..n /\ \A k \in 1..n : k \in 0..n /\ k # 0
    BY <1>0
  <2> QED BY <2>1, <2>2, Zenon
<1> DEFINE T == {k \in 0..n : first[k] \in Ordered(S, k)}
<1>8. 0 \in T
  <2>1. << >> \in Ordered(S, 0)
    BY DEF Ordered, Ascending, Elems
  <2> QED BY <1>0, <1>7, <2>1
<1>9. ASSUME NEW k \in 0..(n - 1), k \in T
      PROVE  k + 1 \in T
  <2>1. first[k] \in Ordered(S, k) /\ k \in Nat /\ k + 1 \in Ids /\ k + 1 \in 1..n
    BY <1>0, <1>9
  <2>2. (IF k + 1 \in S THEN Append(first[k], k + 1) ELSE first[k]) \in Ordered(S, k + 1)
    BY <1>2, <2>1, AppendOrdered
  <2>3. first[k + 1] = IF k + 1 \in S THEN Append(first[k], k + 1) ELSE first[k]
    BY <1>7, <2>1
  <2> QED BY <1>0, <2>1, <2>2, <2>3
<1>10. 0..n \subseteq T
  <2> HIDE DEF T
  <2> QED BY <1>0, <1>8, <1>9, IntervalInduction
<1>11. S \cap (1..n) = S
  BY <1>0, <1>2
<1>12. first[n] \in Ordered(S, n)
  <2> HIDE DEF E, D
  <2> QED BY <1>0, <1>10
<1> QED BY <1>1, <1>11, <1>12 DEF Ordered, S
-----------------------------------------------------------------------------
(* The invariant.                                                          *)

\* Nothing is gathered before the first query.
NothingYet == pc = "begin" => /\ inputs = << >> /\ kept = {} /\ outs = << >>
                              /\ sumSmr = 0 /\ ~retried

\* The answer to a query is in order, and has what was asked for.
ListedOnce == Ascending(listed)
ListedKind == \A i \in Elems(listed) : /\ pc = "tokens" => ~Has(i, "none")
                                       /\ pc = "coins" => Has(i, "none")

\* An input is behind the position in the listing, or from the loop over the tokens.
Passed(i) == pos <= Len(listed) => i < listed[pos]
OnlyOnce == \A m, n \in 1..Len(inputs) : inputs[m] = inputs[n] => m = n
Behind == \A i \in Elems(inputs) :
              /\ pc = "tokens" => Has(i, "ours") /\ Passed(i)
              /\ pc = "coins" => Has(i, "ours") \/ (Has(i, "none") /\ Passed(i))

\* The counters of the loop are what the inputs hold, each output counted once: the
\* coins of the outputs with tokens survive a retry, the other ones do not.
TokenInputs == {i \in Held : Has(i, "ours")}
CoinInputs == {i \in Elems(inputs) : Has(i, "none")}

WhileTokens == pc = "tokens" => /\ mode # "basic" /\ kept = {} /\ ~retried
                                /\ outs = <<To(due, RentTo)>>
WhileBasic == pc = "coins" /\ mode = "basic" => outs = << >> /\ sumSmr = 0

Counted == /\ pc = "tokens" => /\ sum = Worth(TokenInputs, "amount")
                               /\ sumSmr = Worth(TokenInputs, "coins")
           /\ pc = "coins" => /\ sum = Worth(CoinInputs, "coins")
                              /\ sumSmr = Worth(TokenInputs, "coins")
                              /\ Total(outs, "amount") = Worth(TokenInputs, "amount")

\* The same of the inputs one after the other, until there is a retry.
CountedInOrder ==
    /\ pc = "tokens" => /\ sum = Total(InputRecords, "amount")
                        /\ sumSmr = Total(InputRecords, "coins")
    /\ pc = "coins" /\ ~retried => /\ sum + sumSmr = Total(InputRecords, "coins")
                                   /\ Total(outs, "amount") = Total(InputRecords, "amount")

\* The limit is reached on a page that is left at once.
WithinLimit ==
    (pc = "tokens" /\ mode = "native") \/ (pc = "coins" /\ mode # "basic") =>
        count < HardLimit \/ count < HardLimit + (pos - 1) \div PageSize

IInv == /\ TypeOK /\ NothingYet /\ ListedOnce /\ ListedKind
        /\ OnlyOnce /\ Behind /\ WhileTokens /\ WhileBasic
        /\ Counted /\ CountedInOrder /\ Balanced /\ Covered /\ WithinLimit
-----------------------------------------------------------------------------
(* What the steps have in common.                                          *)

\* The types of the constants.
LEMMA LimitsType ==
  /\ PageSize \in Nat \ {0} /\ MaxInput \in Nat \ {0, 1} /\ Amounts \subseteq Nat \ {0}
  /\ RentTo \in Nat /\ RentSelf \in Nat /\ RentLeft \in Nat
BY LimitsAssumption

\* What \div is.
LEMMA Division ==
  ASSUME NEW a \in Nat, NEW b \in Nat \ {0}
  PROVE  a \div b \in Nat /\ (a \div b) * b <= a /\ a < (a \div b) * b + b
OBVIOUS

\* What lies between two multiples has the lower one's quotient.
LEMMA Quotient ==
  ASSUME NEW a \in Nat, NEW b \in Nat \ {0}, NEW q \in Nat, q * b <= a, a < q * b + b
  PROVE  a \div b = q
<1>1. a \div b \in Nat /\ (a \div b) * b <= a /\ a < (a \div b) * b + b
  BY Division
<1>2. CASE a \div b < q
  <2>1. (a \div b + 1) * b <= q * b
    BY <1>1, <1>2
  <2> QED BY <1>1, <2>1
<1>3. CASE a \div b > q
  <2>1. (q + 1) * b <= (a \div b) * b
    BY <1>1, <1>3
  <2> QED BY <1>1, <2>1
<1> QED BY <1>1, <1>2, <1>3

\* The next page begins behind the position, and is one page on.
LEMMA NextPageFacts ==
  ASSUME NEW p \in Nat \ {0}
  PROVE  /\ NextPage(p) \in Nat \ {0} /\ NextPage(p) > p
         /\ (p - 1) \div PageSize \in Nat
         /\ (NextPage(p) - 1) \div PageSize = (p - 1) \div PageSize + 1
<1> DEFINE q == (p - 1) \div PageSize
<1>1. /\ p - 1 \in Nat /\ PageSize \in Nat \ {0} /\ q \in Nat
      /\ q * PageSize <= p - 1 /\ p - 1 < q * PageSize + PageSize
  BY LimitsType, Division
<1>2. NextPage(p) = (q + 1) * PageSize + 1
  BY DEF NextPage
<1> HIDE DEF q
<1>3. (q + 1) * PageSize = q * PageSize + PageSize /\ q * PageSize \in Nat
  BY <1>1
<1>4. NextPage(p) \in Nat \ {0} /\ NextPage(p) > p /\ NextPage(p) - 1 \in Nat
      /\ NextPage(p) - 1 = (q + 1) * PageSize
  BY <1>1, <1>2, <1>3
<1>5. (NextPage(p) - 1) \div PageSize = q + 1
  <2>1. q + 1 \in Nat /\ (q + 1) * PageSize < (q + 1) * PageSize + PageSize
    BY <1>1, <1>3
  <2> QED BY <1>1, <1>4, <2>1, Quotient
<1> QED BY <1>1, <1>4, <1>5 DEF q

\* A position that is further on is not on an earlier page.
LEMMA NextPosition ==
  ASSUME NEW p \in Nat \ {0}
  PROVE  (p - 1) \div PageSize <= ((p + 1) - 1) \div PageSize
<1> DEFINE q == (p - 1) \div PageSize
           r == p \div PageSize
<1>1. /\ p - 1 \in Nat /\ p \in Nat /\ PageSize \in Nat \ {0} /\ q \in Nat /\ r \in Nat
      /\ q * PageSize <= p - 1 /\ p < r * PageSize + PageSize
  BY LimitsType, Division
<1> HIDE DEF q, r
<1>2. q <= r
  <2> SUFFICES ASSUME r < q
               PROVE  FALSE
    BY <1>1
  <2>1. (r + 1) * PageSize <= q * PageSize
    BY <1>1
  <2> QED BY <1>1, <2>1
<1> QED BY <1>2 DEF q, r

\* A query answers with outputs of the kind it asks for, and starts the loop.
LEMMA QueryFacts ==
  ASSUME NEW withTokens \in BOOLEAN, Query(withTokens)
  PROVE  /\ listed' \in Seq(Ids) /\ Ascending(listed')
         /\ \A i \in Elems(listed') : Has(i, "none") # withTokens
         /\ pos' = 1 /\ count' = 0 /\ sum' = 0
<1>1. PICK known \in SUBSET spent : QueryWith(withTokens, known)
  BY DEF Query
<1>2. listed' = Listing(withTokens, known) /\ pos' = 1 /\ count' = 0 /\ sum' = 0
  BY <1>1 DEF QueryWith
<1>3. listed' \in Seq(Ids) /\ Ascending(listed') /\ Elems(listed') = Shown(withTokens, known)
  BY <1>2, ListingIsOrdered
<1> QED BY <1>2, <1>3 DEF Shown

\* The indexer, asked for coins, lists outputs without tokens.
LEMMA QueryForCoins ==
  ASSUME Query(FALSE)
  PROVE  /\ listed' \in Seq(Ids) /\ Ascending(listed')
         /\ \A i \in Elems(listed') : Has(i, "none")
         /\ pos' = 1 /\ count' = 0 /\ sum' = 0
<1>1. FALSE \in BOOLEAN
  OBVIOUS
<1> QED BY <1>1, QueryFacts DEF Has

\* The indexer, asked for tokens, lists outputs with tokens.
LEMMA QueryForTokens ==
  ASSUME Query(TRUE)
  PROVE  /\ listed' \in Seq(Ids) /\ Ascending(listed')
         /\ \A i \in Elems(listed') : ~Has(i, "none")
         /\ pos' = 1 /\ count' = 0 /\ sum' = 0
<1>1. TRUE \in BOOLEAN
  OBVIOUS
<1> QED BY <1>1, QueryFacts DEF Has

\* The output at the position, and the inputs with it.
LEMMA TakeFacts ==
  ASSUME TypeOK, pos <= Len(listed)
  PROVE  /\ listed[pos] \in Ids /\ listed[pos] \in Elems(listed)
         /\ Append(inputs, listed[pos]) \in Seq(Ids)
         /\ Elems(Append(inputs, listed[pos])) = Elems(inputs) \cup {listed[pos]}
<1>1. listed \in Seq(Ids) /\ inputs \in Seq(Ids) /\ pos \in 1..Len(listed)
  BY DEF TypeOK
<1>2. listed[pos] \in Ids /\ listed[pos] \in Elems(listed)
  BY <1>1 DEF Elems
<1> DEFINE i == listed[pos]
           t == Append(inputs, i)
<1>3. /\ t \in Seq(Ids) /\ Len(t) = Len(inputs) + 1 /\ t[Len(inputs) + 1] = i
      /\ \A n \in 1..Len(inputs) : t[n] = inputs[n]
  BY <1>1, <1>2
<1>4. Len(inputs) \in Nat
  BY <1>1
<1> HIDE DEF i, t
<1>5. Elems(t) = Elems(inputs) \cup {i}
  BY <1>3, <1>4 DEF Elems
<1> QED BY <1>2, <1>3, <1>5 DEF i, t

\* A step of the loop over the tokens takes the output at the position, or passes it.
LEMMA GatherTokensFacts ==
  ASSUME TypeOK, GatherTokens
  PROVE  /\ pc = "tokens" /\ pos <= Len(listed)
         /\ UNCHANGED <<mode, due, pc, listed, outs, kept, retried, spent>>
         /\ pos' \in Nat \ {0} /\ pos' > pos
         /\ \/ /\ Has(listed[pos], "ours")
               /\ sum' = sum + Wallet[listed[pos]].amount
               /\ sumSmr' = sumSmr + Wallet[listed[pos]].coins
               /\ inputs' = Append(inputs, listed[pos]) /\ count' = count + 1
            \/ UNCHANGED <<count, sum, sumSmr, inputs>>
<1>1. pos \in Nat \ {0}
  BY DEF TypeOK
<1>2. NextPage(pos) \in Nat \ {0} /\ NextPage(pos) > pos
  BY <1>1, NextPageFacts
<1>3. pos' = NextPage(pos) \/ pos' = pos + 1
  BY DEF GatherTokens
<1>4. pos' \in Nat \ {0} /\ pos' > pos
  BY <1>1, <1>2, <1>3
<1> QED BY <1>4 DEF GatherTokens, order, retries

\* A step of the loop over the coins takes the output at the position.
LEMMA GatherCoinsFacts ==
  ASSUME TypeOK, GatherCoins
  PROVE  /\ pc = "coins" /\ pos <= Len(listed)
         /\ UNCHANGED <<mode, due, pc, listed, sumSmr, outs, kept, retried, spent>>
         /\ pos' \in Nat \ {0} /\ pos' > pos
         /\ sum' = sum + Wallet[listed[pos]].coins
         /\ inputs' = Append(inputs, listed[pos]) /\ count' = count + 1
<1>1. pos \in Nat \ {0}
  BY DEF TypeOK
<1>2. NextPage(pos) \in Nat \ {0} /\ NextPage(pos) > pos
  BY <1>1, NextPageFacts
<1>3. pos' = NextPage(pos) \/ pos' = pos + 1
  BY DEF GatherCoins
<1>4. pos' \in Nat \ {0} /\ pos' > pos
  BY <1>1, <1>2, <1>3
<1> QED BY <1>4 DEF GatherCoins, order, retries

\* A retry keeps the inputs apart, and begins the loop over the coins again.
LEMMA RetryFacts ==
  ASSUME TypeOK, Retry
  PROVE  /\ pc = "coins" /\ mode # "center"
         /\ UNCHANGED <<mode, due, pc, sumSmr, outs, spent>>
         /\ retried' = TRUE /\ kept' = Held /\ Held \in SUBSET Ids /\ inputs' = << >>
         /\ listed' \in Seq(Ids) /\ Ascending(listed')
         /\ \A i \in Elems(listed') : Has(i, "none")
         /\ pos' = 1 /\ count' = 0 /\ sum' = 0
<1>1. PICK known \in SUBSET spent : RetryWith(known)
  BY DEF Retry
<1>2. RetryAgain /\ Query(FALSE)
  BY <1>1 DEF RetryWith, Query
<1>3. Held \in SUBSET Ids
  BY DEF TypeOK, Held
<1> QED BY <1>2, <1>3, QueryForCoins DEF RetryAgain, Held, order

\* A lost page is passed over.
LEMMA LosePageFacts ==
  ASSUME TypeOK, LosePage
  PROVE  /\ pos' \in Nat \ {0} /\ pos' > pos /\ pos' = NextPage(pos) /\ pos <= Len(listed)
         /\ UNCHANGED <<mode, due, pc, listed, count, sum, sumSmr, inputs, outs, kept, retried,
                        spent>>
<1>1. pos \in Nat \ {0}
  BY DEF TypeOK
<1>2. NextPage(pos) \in Nat \ {0} /\ NextPage(pos) > pos
  BY <1>1, NextPageFacts
<1> QED BY <1>2 DEF LosePage, order, retries
-----------------------------------------------------------------------------
(* Types.                                                                  *)

\* What an output has are numbers; an output with coins only has no tokens.
LEMMA WalletType ==
  /\ \A i \in Ids : Wallet[i].amount \in Nat /\ Wallet[i].coins \in Nat
  /\ \A i \in Ids : Has(i, "none") => Wallet[i].amount = 0
<1>1. \A i \in Ids : Wallet[i]["amount"] \in Nat /\ Wallet[i]["coins"] \in Nat
  BY ParcelType DEF Fields
<1> QED BY <1>1, WalletAssumption

\* The payments of outs add up to numbers, and one more adds what it has.
LEMMA SentTotals ==
  ASSUME NEW s \in Seq(Sent), NEW r \in Sent, NEW field \in Fields
  PROVE  /\ Total(s, field) \in Nat /\ (s = << >> => Total(s, field) = 0)
         /\ Append(s, r) \in Seq(Sent)
         /\ Total(Append(s, r), field) = Total(s, field) + r[field]
<1>1. \A t \in Sent : t[field] \in Nat
  BY DEF Sent, Fields
<1> QED BY <1>1, TotalType, TotalOfAppend

\* The outputs of the builder have the type of outputs.
LEMMA PaymentType ==
  ASSUME NEW tokens \in Nat, NEW coins \in Nat
  PROVE  To(tokens, coins) \in Sent /\ Self(tokens, coins) \in Sent
BY DEF To, Self, Sent

\* The change of a token payment goes behind the payment.
LEMMA EndTokensOuts ==
  ASSUME TypeOK, EndTokens
  PROVE  \/ /\ sum < due /\ pc' = "failed"
            /\ UNCHANGED <<listed, pos, count, sum, outs>>
         \/ /\ sum >= due
            /\ \/ sum = due /\ outs' = outs
               \/ sum > due /\ outs' = Append(outs, Self(sum - due, RentSelf))
            /\ \/ /\ pc' = "coins" /\ Query(FALSE)
               \/ /\ pc' = "built" /\ UNCHANGED <<listed, pos, count, sum>>
                  /\ sumSmr = RentTo + (IF sum > due THEN RentSelf ELSE 0)
<1> DEFINE left   == sum - due
           change == IF left > 0 THEN <<Self(left, RentSelf)>> ELSE << >>
           need   == RentTo + (IF left > 0 THEN RentSelf ELSE 0)
<1>1. sum \in Nat /\ due \in Nat /\ outs \in Seq(Sent)
  BY LimitsType DEF TypeOK
<1>2. left > 0 <=> sum > due
  BY <1>1
<1>3. sum >= due => \/ sum = due /\ outs \o change = outs
                    \/ sum > due /\ outs \o change = Append(outs, Self(left, RentSelf))
  <2>1. CASE left > 0
    BY <1>1, <1>2, <2>1
  <2>2. CASE ~(left > 0)
    BY <1>1, <1>2, <2>2
  <2> QED BY <2>1, <2>2
<1>4. \/ sum < due /\ pc' = "failed" /\ UNCHANGED <<listed, pos, count, sum, outs>>
      \/ /\ sum >= due /\ need = sumSmr /\ pc' = "built" /\ outs' = outs \o change
         /\ UNCHANGED <<listed, pos, count, sum>>
      \/ sum >= due /\ pc' = "coins" /\ outs' = outs \o change /\ Query(FALSE)
  BY DEF EndTokens
<1>5. need = RentTo + (IF sum > due THEN RentSelf ELSE 0)
  BY <1>2
<1> HIDE DEF change, need
<1> QED BY <1>3, <1>4, <1>5

\* Every step keeps the types.
LEMMA TypeStep == TypeOK /\ [Next]_vars => TypeOK'
<1> SUFFICES ASSUME TypeOK, [Next]_vars
             PROVE  TypeOK'
  OBVIOUS
<1>0. /\ due \in Nat \ {0} /\ RentTo \in Nat /\ RentSelf \in Nat
      /\ outs \in Seq(Sent) /\ inputs \in Seq(Ids)
      /\ sum \in Nat /\ sumSmr \in Nat /\ count \in Nat
  BY LimitsType DEF TypeOK
<1>1. CASE BeginBasic
  <2>1. Query(FALSE) /\ pc' = "coins"
        /\ UNCHANGED <<mode, due, sumSmr, inputs, outs, kept, retried, spent>>
    BY <1>1 DEF BeginBasic, order, retries
  <2>2. listed' \in Seq(Ids) /\ pos' = 1 /\ count' = 0 /\ sum' = 0
    BY <2>1, QueryForCoins
  <2> QED BY <2>1, <2>2 DEF TypeOK
<1>2. CASE BeginToken
  <2>1. Query(TRUE) /\ pc' = "tokens" /\ outs' = <<To(due, RentTo)>>
        /\ UNCHANGED <<mode, due, sumSmr, inputs, kept, retried, spent>>
    BY <1>2 DEF BeginToken, order, retries
  <2>2. listed' \in Seq(Ids) /\ pos' = 1 /\ count' = 0 /\ sum' = 0
    BY <2>1, QueryForTokens
  <2>3. outs' \in Seq(Sent)
    <3>1. To(due, RentTo) \in Sent
      BY <1>0, PaymentType
    <3> QED BY <2>1, <3>1
  <2> QED BY <2>1, <2>2, <2>3 DEF TypeOK
<1>3. CASE GatherTokens
  <2>1. listed[pos] \in Ids /\ Append(inputs, listed[pos]) \in Seq(Ids)
    BY <1>3, TakeFacts, GatherTokensFacts
  <2>2. Wallet[listed[pos]].amount \in Nat /\ Wallet[listed[pos]].coins \in Nat
    BY <2>1, WalletType
  <2>3. sum' \in Nat /\ sumSmr' \in Nat /\ count' \in Nat /\ inputs' \in Seq(Ids)
    <3>1. CASE UNCHANGED <<count, sum, sumSmr, inputs>>
      BY <1>0, <3>1
    <3>2. CASE /\ sum' = sum + Wallet[listed[pos]].amount
               /\ sumSmr' = sumSmr + Wallet[listed[pos]].coins
               /\ inputs' = Append(inputs, listed[pos]) /\ count' = count + 1
      <4>1. PICK a \in Nat, c \in Nat : sum' = sum + a /\ sumSmr' = sumSmr + c
        BY <2>2, <3>2
      <4> QED BY <1>0, <2>1, <3>2, <4>1
    <3> QED BY <1>3, <3>1, <3>2, GatherTokensFacts
  <2> QED BY <1>3, <2>3, GatherTokensFacts DEF TypeOK
<1>4. CASE GatherCoins
  <2>1. listed[pos] \in Ids /\ Append(inputs, listed[pos]) \in Seq(Ids)
    BY <1>4, TakeFacts, GatherCoinsFacts
  <2>2. Wallet[listed[pos]].coins \in Nat
    BY <2>1, WalletType
  <2>3. sum' \in Nat /\ count' \in Nat /\ inputs' \in Seq(Ids)
    <3>1. /\ sum' = sum + Wallet[listed[pos]].coins
          /\ inputs' = Append(inputs, listed[pos]) /\ count' = count + 1
      BY <1>4, GatherCoinsFacts
    <3> QED BY <1>0, <2>1, <2>2, <3>1
  <2> QED BY <1>4, <2>3, GatherCoinsFacts DEF TypeOK
<1>5. CASE Retry
  <2>1. /\ UNCHANGED <<mode, due, pc, sumSmr, outs, spent>>
        /\ listed' \in Seq(Ids) /\ pos' = 1 /\ count' = 0 /\ sum' = 0
        /\ retried' = TRUE /\ kept' \in SUBSET Ids /\ inputs' = << >>
    BY <1>5, RetryFacts, Zenon
  <2> QED BY <2>1 DEF TypeOK
<1>6. CASE LosePage
  BY <1>6, LosePageFacts DEF TypeOK
<1>7. CASE EndTokens
  <2>1. /\ UNCHANGED <<order, sumSmr, inputs, retries, spent>>
        /\ pc' \in {"built", "failed", "coins"}
    BY <1>7 DEF EndTokens
  <2>2. outs' \in Seq(Sent)
    <3>1. \/ outs' = outs
          \/ sum > due /\ outs' = Append(outs, Self(sum - due, RentSelf))
      BY <1>7, EndTokensOuts
    <3>2. CASE sum > due /\ outs' = Append(outs, Self(sum - due, RentSelf))
      <4>1. sum - due \in Nat
        BY <1>0, <3>2
      <4>2. Self(sum - due, RentSelf) \in Sent
        BY <1>0, <4>1, PaymentType
      <4> QED BY <1>0, <3>2, <4>2
    <3> QED BY <1>0, <3>1, <3>2
  <2>3. listed' \in Seq(Ids) /\ pos' \in Nat \ {0} /\ count' \in Nat /\ sum' \in Nat
    <3>1. CASE UNCHANGED <<listed, pos, count, sum>>
      BY <3>1 DEF TypeOK
    <3>2. CASE Query(FALSE)
      BY <3>2, QueryForCoins
    <3> QED BY <1>7, <3>1, <3>2, EndTokensOuts
  <2> QED BY <2>1, <2>2, <2>3 DEF TypeOK, order, retries
<1>8. CASE EndBasic
  <2>1. outs' \in Seq(Sent)
    <3>1. To(0, due) \in Sent /\ (sum > due => Self(0, sum - due) \in Sent)
      BY <1>0, PaymentType
    <3> QED BY <1>0, <1>8, <3>1 DEF EndBasic
  <2> QED BY <1>8, <2>1 DEF EndBasic, TypeOK, order, retries
<1>9. CASE EndCoins
  <2>1. outs' \in Seq(Sent)
    <3> DEFINE need == Total(outs, "coins")
    <3>1. need \in Nat
      BY <1>0, PaymentType, SentTotals DEF Fields
    <3> HIDE DEF need
    <3>2. CoinsSuffice(need) => Self(0, CoinsLeft - need) \in Sent
      BY <1>0, <3>1, LimitsType, PaymentType DEF CoinsSuffice, CoinsLeft
    <3> QED BY <1>0, <1>9, <3>2 DEF EndCoins, need
  <2> QED BY <1>9, <2>1 DEF EndCoins, TypeOK, order, retries
<1>10. CASE Fail
  BY <1>10 DEF Fail, TypeOK, order, retries
<1>11. CASE Spend
  BY <1>11 DEF Spend, TypeOK, order, retries
<1>12. CASE UNCHANGED vars
  BY <1>12 DEF vars, TypeOK
<1> QED BY <1>1, <1>2, <1>3, <1>4, <1>5, <1>6, <1>7, <1>8, <1>9, <1>10, <1>11, <1>12
        DEF Next, Build

\* Nothing is gathered yet.
LEMMA InitTypes == Init => TypeOK
<1> SUFFICES ASSUME Init
             PROVE  TypeOK
  OBVIOUS
<1>1. << >> \in Seq(Ids) /\ << >> \in Seq(Sent)
  OBVIOUS
<1>2. /\ mode \in {"basic", "native", "center"} /\ due \in Amounts
      /\ pc \in {"begin", "tokens", "coins", "built", "failed"} /\ retried \in BOOLEAN
  BY DEF Init
<1>3. pos \in Nat \ {0} /\ count \in Nat /\ sum \in Nat /\ sumSmr \in Nat
  BY DEF Init
<1>4. listed = << >> /\ inputs = << >> /\ outs = << >> /\ kept = {} /\ spent = {}
  BY DEF Init
<1>5. listed \in Seq(Ids) /\ inputs \in Seq(Ids) /\ outs \in Seq(Sent)
  BY <1>1, <1>4, Zenon
<1>6. kept \in SUBSET Ids /\ spent \in SUBSET Ids
  BY <1>4
<1> QED BY <1>2, <1>3, <1>5, <1>6 DEF TypeOK

\* The types of the variables: amounts stay natural numbers, for every wallet.
THEOREM PaymentIsWellTyped == Spec => []TypeOK
BY InitTypes, TypeStep, PTL DEF Spec
-----------------------------------------------------------------------------
(* The listing, and what each phase begins with.                           *)

\* The two ways to begin.
LEMMA BeginFacts ==
  ASSUME BeginBasic \/ BeginToken
  PROVE  /\ pc = "begin" /\ pos' = 1 /\ count' = 0 /\ sum' = 0
         /\ UNCHANGED <<mode, due, sumSmr, inputs, kept, retried, spent>>
         /\ Ascending(listed')
         /\ \/ /\ mode = "basic" /\ pc' = "coins" /\ outs' = outs
               /\ \A i \in Elems(listed') : Has(i, "none")
            \/ /\ mode # "basic" /\ pc' = "tokens" /\ outs' = <<To(due, RentTo)>>
               /\ \A i \in Elems(listed') : ~Has(i, "none")
<1>1. CASE BeginBasic
  <2>1. Query(FALSE)
    BY <1>1 DEF BeginBasic
  <2> QED BY <1>1, <2>1, QueryForCoins DEF BeginBasic, order, retries
<1>2. CASE BeginToken
  <2>1. Query(TRUE)
    BY <1>2 DEF BeginToken
  <2> QED BY <1>2, <2>1, QueryForTokens DEF BeginToken, order, retries
<1> QED BY <1>1, <1>2

\* The steps that end in a payment or an error.
Ending == EndBasic \/ EndCoins \/ Fail

\* They leave everything but the outputs of the builder.
LEMMA EndingFacts ==
  ASSUME Ending
  PROVE  /\ pc \in {"begin", "tokens", "coins"} /\ pc' \in {"built", "failed"}
         /\ UNCHANGED <<mode, due, listed, pos, count, sum, sumSmr, inputs, kept, retried, spent>>
<1>1. CASE EndBasic
  BY <1>1 DEF EndBasic, order, retries
<1>2. CASE EndCoins
  BY <1>2 DEF EndCoins, order, retries
<1>3. CASE Fail
  BY <1>3 DEF Fail, order, retries
<1> QED BY <1>1, <1>2, <1>3 DEF Ending

Phases == NothingYet /\ ListedOnce /\ ListedKind /\ WhileTokens /\ WhileBasic

\* Every step keeps what holds in the phases of the building.
LEMMA PhasesStep == TypeOK /\ Phases /\ [Next]_vars => Phases'
<1> SUFFICES ASSUME TypeOK, Phases, [Next]_vars
             PROVE  Phases'
  OBVIOUS
<1> USE DEF Phases
<1>1. CASE BeginBasic \/ BeginToken
  BY <1>1, BeginFacts
     DEF NothingYet, ListedOnce, ListedKind, WhileTokens, WhileBasic
<1>2. CASE GatherTokens
  BY <1>2, GatherTokensFacts
     DEF NothingYet, ListedOnce, ListedKind, WhileTokens, WhileBasic
<1>3. CASE GatherCoins
  BY <1>3, GatherCoinsFacts
     DEF NothingYet, ListedOnce, ListedKind, WhileTokens, WhileBasic
<1>4. CASE Retry
  BY <1>4, RetryFacts
     DEF NothingYet, ListedOnce, ListedKind, WhileTokens, WhileBasic
<1>5. CASE LosePage
  BY <1>5, LosePageFacts
     DEF NothingYet, ListedOnce, ListedKind, WhileTokens, WhileBasic
<1>6. CASE EndTokens
  <2>1. pc = "tokens" /\ mode # "basic" /\ UNCHANGED <<mode, inputs, kept, retried>>
    BY <1>6 DEF EndTokens, order, retries, WhileTokens
  <2>2. \/ pc' \in {"built", "failed"} /\ listed' = listed
        \/ pc' = "coins" /\ Query(FALSE)
    BY <1>6, EndTokensOuts
  <2>3. CASE pc' \in {"built", "failed"} /\ listed' = listed
    BY <2>1, <2>3 DEF NothingYet, ListedOnce, ListedKind, WhileTokens, WhileBasic
  <2>4. CASE pc' = "coins" /\ Query(FALSE)
    BY <2>1, <2>4, QueryForCoins DEF NothingYet, ListedOnce, ListedKind, WhileTokens, WhileBasic
  <2> QED BY <2>2, <2>3, <2>4
<1>7. CASE Ending
  BY <1>7, EndingFacts DEF NothingYet, ListedOnce, ListedKind, WhileTokens, WhileBasic
<1>8. CASE Spend \/ UNCHANGED vars
  BY <1>8 DEF Spend, vars, order, retries,
              NothingYet, ListedOnce, ListedKind, WhileTokens, WhileBasic
<1> QED BY <1>1, <1>2, <1>3, <1>4, <1>5, <1>6, <1>7, <1>8 DEF Next, Build, Ending
-----------------------------------------------------------------------------
(* The inputs.                                                             *)

Inputs == OnlyOnce /\ Behind

\* An output that is no input yet is appended without a repetition.
LEMMA AppendKeepsOnce ==
  ASSUME NEW s \in Seq(Ids), NEW i \in Ids, i \notin Elems(s),
         \A m, n \in 1..Len(s) : s[m] = s[n] => m = n
  PROVE  \A m, n \in 1..Len(Append(s, i)) : Append(s, i)[m] = Append(s, i)[n] => m = n
<1> DEFINE t == Append(s, i)
<1>1. /\ Len(t) = Len(s) + 1 /\ Len(s) \in Nat /\ t[Len(s) + 1] = i
      /\ \A n \in 1..Len(s) : t[n] = s[n] /\ s[n] # i
  BY DEF Elems
<1> HIDE DEF t
<1>2. ASSUME NEW m \in 1..Len(t), NEW n \in 1..Len(t), t[m] = t[n]
      PROVE  m = n
  <2>1. CASE m \in 1..Len(s) /\ n \in 1..Len(s)
    BY <1>1, <1>2, <2>1
  <2>2. CASE m = Len(s) + 1 /\ n \in 1..Len(s)
    BY <1>1, <1>2, <2>2
  <2>3. CASE m \in 1..Len(s) /\ n = Len(s) + 1
    BY <1>1, <1>2, <2>3
  <2> QED BY <1>1, <2>1, <2>2, <2>3
<1> QED BY <1>2 DEF t

\* What the loop has passed stays behind when it goes on in the same listing.
LEMMA StillPassed ==
  ASSUME TypeOK, Phases, listed' = listed, pos' \in Nat \ {0}, pos' > pos,
         NEW i \in Ids, Passed(i) \/ (pos <= Len(listed) /\ i = listed[pos])
  PROVE  Passed(i)'
<1>1. listed \in Seq(Ids) /\ pos \in Nat \ {0} /\ Len(listed) \in Nat
  BY DEF TypeOK
<1> SUFFICES ASSUME pos' <= Len(listed)
             PROVE  i < listed[pos']
  BY DEF Passed
<1>2. pos \in 1..Len(listed) /\ pos' \in 1..Len(listed)
  BY <1>1
<1>3. listed[pos] < listed[pos']
  BY <1>2 DEF Phases, ListedOnce, Ascending
<1>4. i \in Nat /\ listed[pos] \in Nat /\ listed[pos'] \in Nat
  BY <1>1, <1>2 DEF Ids
<1>5. i = listed[pos] \/ i < listed[pos]
  BY <1>1, <1>2 DEF Passed
<1> QED BY <1>3, <1>4, <1>5

\* The output at the position is no input yet.
LEMMA NotYetInput ==
  ASSUME TypeOK, Phases, Inputs, pc \in {"tokens", "coins"}, pos <= Len(listed)
  PROVE  listed[pos] \notin Elems(inputs)
<1> DEFINE i == listed[pos]
<1> SUFFICES ASSUME i \in Elems(inputs)
             PROVE  FALSE
  OBVIOUS
<1>1. i \in Ids /\ i \in Elems(listed)
  BY TakeFacts
<1>2. pc = "coins" => Has(i, "none")
  BY <1>1 DEF Phases, ListedKind
<1>3. Passed(i) \/ (pc = "coins" /\ Has(i, "ours"))
  BY DEF Inputs, Behind
<1>4. ~Passed(i)
  BY <1>1 DEF Passed, Ids
<1> QED BY <1>2, <1>3, <1>4 DEF Has

\* A step that goes on in the listing, with one input more or none.
LEMMA InputsOfGather ==
  ASSUME TypeOK, Phases, Inputs, GatherTokens \/ GatherCoins
  PROVE  Inputs'
<1> DEFINE i == listed[pos]
<1>1. /\ pc \in {"tokens", "coins"} /\ pc' = pc /\ listed' = listed /\ pos <= Len(listed)
      /\ pos' \in Nat \ {0} /\ pos' > pos
      /\ (pc = "tokens" => Has(i, "ours") \/ inputs' = inputs)
      /\ (inputs' = inputs \/ inputs' = Append(inputs, i))
  BY GatherTokensFacts, GatherCoinsFacts
<1>2. /\ i \in Ids /\ i \in Elems(listed) /\ inputs \in Seq(Ids)
      /\ Elems(Append(inputs, i)) = Elems(inputs) \cup {i}
  BY <1>1, TakeFacts DEF TypeOK
<1>3. Elems(inputs) \subseteq Ids
  BY <1>2 DEF Elems
<1>4. \A j \in Ids : Passed(j) \/ j = i => Passed(j)'
  BY <1>1, StillPassed
<1>5. pc = "coins" => Has(i, "none")
  BY <1>2 DEF Phases, ListedKind
<1>6. CASE inputs' = inputs
  BY <1>1, <1>3, <1>4, <1>6 DEF Inputs, OnlyOnce, Behind
<1>7. CASE inputs' = Append(inputs, i) /\ (pc = "tokens" => Has(i, "ours"))
  <2>1. i \notin Elems(inputs)
    BY <1>1, NotYetInput
  <2>2. OnlyOnce'
    BY <1>2, <1>7, <2>1, AppendKeepsOnce DEF Inputs, OnlyOnce
  <2>3. Elems(inputs') = Elems(inputs) \cup {i}
    BY <1>2, <1>7
  <2>4. Behind'
    BY <1>1, <1>2, <1>3, <1>4, <1>5, <1>7, <2>3 DEF Inputs, Behind
  <2> QED BY <2>2, <2>4 DEF Inputs
<1> QED BY <1>1, <1>6, <1>7

\* No output is an input twice, and what is ahead in the listing is none yet.
LEMMA InputsStep == TypeOK /\ Phases /\ Inputs /\ [Next]_vars => Inputs'
<1> SUFFICES ASSUME TypeOK, Phases, Inputs, [Next]_vars
             PROVE  Inputs'
  OBVIOUS
<1>0. inputs \in Seq(Ids) /\ Elems(inputs) \subseteq Ids
  BY DEF TypeOK, Elems
<1>1. CASE BeginBasic \/ BeginToken
  <2>1. inputs' = << >>
    BY <1>1, BeginFacts DEF Phases, NothingYet
  <2> QED BY <2>1 DEF Inputs, OnlyOnce, Behind, Elems
<1>2. CASE GatherTokens \/ GatherCoins
  BY <1>2, InputsOfGather
<1>3. CASE Retry
  <2>1. inputs' = << >>
    BY <1>3, RetryFacts
  <2> QED BY <2>1 DEF Inputs, OnlyOnce, Behind, Elems
<1>4. CASE LosePage
  <2>1. /\ pos' \in Nat \ {0} /\ pos' > pos /\ UNCHANGED <<pc, listed, inputs>>
    BY <1>4, LosePageFacts
  <2>2. \A i \in Ids : Passed(i) => Passed(i)'
    BY <2>1, StillPassed
  <2> QED BY <1>0, <2>1, <2>2 DEF Inputs, OnlyOnce, Behind
<1>5. CASE EndTokens
  <2>1. pc = "tokens" /\ inputs' = inputs /\ pc' \in {"built", "failed", "coins"}
    BY <1>5 DEF EndTokens
  <2> QED BY <2>1 DEF Inputs, OnlyOnce, Behind
<1>6. CASE Ending
  <2>1. inputs' = inputs /\ pc' \in {"built", "failed"}
    BY <1>6, EndingFacts
  <2> QED BY <2>1 DEF Inputs, OnlyOnce, Behind
<1>7. CASE Spend \/ UNCHANGED vars
  BY <1>7 DEF Spend, vars, Inputs, OnlyOnce, Behind, Passed
<1> QED BY <1>1, <1>2, <1>3, <1>4, <1>5, <1>6, <1>7 DEF Next, Build, Ending
-----------------------------------------------------------------------------
(* The counters.                                                           *)

\* The outputs that the inputs in s spend, one after the other.
Records(s) == [n \in 1..Len(s) |-> Wallet[s[n]]]

\* The total of the inputs grows by what the next one holds.
LEMMA RecordsTotal ==
  ASSUME NEW s \in Seq(Ids), NEW i \in Ids, NEW field \in Fields
  PROVE  /\ Total(Records(s), field) \in Nat
         /\ s = << >> => Total(Records(s), field) = 0
         /\ Total(Records(Append(s, i)), field) = Total(Records(s), field) + Wallet[i][field]
<1> DEFINE S == {Wallet[j] : j \in Ids}
<1>1. \A r \in S : r[field] \in Nat
  BY ParcelType
<1>2. Records(s) \in Seq(S) /\ Wallet[i] \in S /\ (s = << >> => Records(s) = << >>)
  BY DEF Records
<1>3. Records(Append(s, i)) = Append(Records(s), Wallet[i])
  <2> DEFINE t == Append(s, i)
             r == Append(Records(s), Wallet[i])
             n == Len(s)
  <2>1. /\ n \in Nat /\ Len(t) = n + 1 /\ t[n + 1] = i /\ \A m \in 1..n : t[m] = s[m]
    OBVIOUS
  <2>2. /\ r \in Seq(S) /\ Len(r) = n + 1 /\ r[n + 1] = Wallet[i]
        /\ \A m \in 1..n : r[m] = Wallet[s[m]]
    <3>1. Len(Records(s)) = n /\ \A m \in 1..n : Records(s)[m] = Wallet[s[m]]
      BY DEF Records
    <3> HIDE DEF S
    <3> QED BY <1>2, <2>1, <3>1
  <2> HIDE DEF t, r, n, S
  <2>3. r = [m \in 1..(n + 1) |-> r[m]]
    BY <2>2
  <2>4. \A m \in 1..(n + 1) : r[m] = Wallet[t[m]]
    BY <2>1, <2>2
  <2>5. r = Records(t)
    BY <2>1, <2>3, <2>4 DEF Records
  <2> QED BY <2>5 DEF t, r
<1> HIDE DEF S
<1> QED BY <1>1, <1>2, <1>3, TotalType, TotalOfAppend

Counters == Counted /\ CountedInOrder

\* Before the first retry of a token payment, the tokens are the only inputs.
LEMMA HeldWhileTokens ==
  ASSUME Phases, Inputs, pc = "tokens"
  PROVE  TokenInputs = Elems(inputs) /\ CoinInputs = {}
BY DEF Phases, WhileTokens, Inputs, Behind, TokenInputs, CoinInputs, Held, Elems, Has

\* A token output that is taken is counted once, one passed over not at all.
LEMMA CountersOfGatherTokens ==
  ASSUME TypeOK, Phases, Inputs, Inputs', Phases', Counters, GatherTokens
  PROVE  Counters'
<1> DEFINE i == listed[pos]
<1>1. /\ pc = "tokens" /\ pc' = "tokens" /\ pos <= Len(listed)
      /\ \/ /\ Has(i, "ours") /\ inputs' = Append(inputs, i)
            /\ sum' = sum + Wallet[i].amount /\ sumSmr' = sumSmr + Wallet[i].coins
         \/ UNCHANGED <<sum, sumSmr, inputs>>
      /\ kept' = kept
  BY GatherTokensFacts
<1>2. /\ i \in Ids /\ i \notin Elems(inputs) /\ inputs \in Seq(Ids)
      /\ Elems(Append(inputs, i)) = Elems(inputs) \cup {i}
  BY <1>1, TakeFacts, NotYetInput DEF TypeOK
<1>3. InputRecords = Records(inputs) /\ InputRecords' = Records(inputs')
  BY DEF InputRecords, Records
<1>4. CASE UNCHANGED <<sum, sumSmr, inputs>>
  <2>1. TokenInputs' = TokenInputs
    BY <1>1, <1>4 DEF TokenInputs, Held
  <2> QED BY <1>1, <1>3, <1>4, <2>1 DEF Counters, Counted, CountedInOrder
<1>5. CASE /\ Has(i, "ours") /\ inputs' = Append(inputs, i)
           /\ sum' = sum + Wallet[i].amount /\ sumSmr' = sumSmr + Wallet[i].coins
  <2>1. TokenInputs = Elems(inputs) /\ TokenInputs' = Elems(inputs')
    BY <1>1, HeldWhileTokens
       DEF Phases, WhileTokens, Inputs, Behind, TokenInputs, Held, Elems
  <2>2. TokenInputs' = TokenInputs \cup {i} /\ i \notin TokenInputs
    BY <1>2, <1>5, <2>1
  <2>3. \A field \in Fields :
           /\ Worth(TokenInputs', field) = Worth(TokenInputs, field) + Wallet[i][field]
           /\ Total(InputRecords', field) = Total(InputRecords, field) + Wallet[i][field]
    BY <1>2, <1>3, <1>5, <2>2, WorthOfOneMore, RecordsTotal
  <2>4. /\ sum' = Worth(TokenInputs', "amount") /\ sumSmr' = Worth(TokenInputs', "coins")
        /\ sum' = Total(InputRecords', "amount") /\ sumSmr' = Total(InputRecords', "coins")
    BY <1>1, <1>5, <2>3 DEF Counters, Counted, CountedInOrder, Fields
  <2> QED BY <1>1, <2>4 DEF Counters, Counted, CountedInOrder
<1> QED BY <1>1, <1>4, <1>5

\* An output with coins that is taken is counted once.
LEMMA CountersOfGatherCoins ==
  ASSUME TypeOK, Phases, Inputs, Counters, GatherCoins
  PROVE  Counters'
<1> DEFINE i == listed[pos]
<1>1. /\ pc = "coins" /\ pc' = "coins" /\ pos <= Len(listed)
      /\ inputs' = Append(inputs, i) /\ sum' = sum + Wallet[i].coins
      /\ UNCHANGED <<sumSmr, kept, outs, retried>>
  BY GatherCoinsFacts
<1>2. /\ i \in Ids /\ i \in Elems(listed) /\ i \notin Elems(inputs) /\ inputs \in Seq(Ids)
      /\ Elems(inputs') = Elems(inputs) \cup {i}
  BY <1>1, TakeFacts, NotYetInput DEF TypeOK
<1>3. Has(i, "none") /\ ~Has(i, "ours") /\ Wallet[i].amount = 0
  BY <1>1, <1>2, WalletType DEF Phases, ListedKind, Has
<1>4. /\ TokenInputs' = TokenInputs
      /\ CoinInputs' = CoinInputs \cup {i} /\ i \notin CoinInputs
  <2>1. Held' = Held \cup {i}
    BY <1>1, <1>2 DEF Held, Elems
  <2> QED BY <1>2, <1>3, <2>1 DEF TokenInputs, CoinInputs
<1>5. Worth(CoinInputs', "coins") = Worth(CoinInputs, "coins") + Wallet[i].coins
  BY <1>2, <1>4, WorthOfOneMore DEF Fields
<1>6. Counted'
  BY <1>1, <1>4, <1>5 DEF Counters, Counted
<1>7. InputRecords = Records(inputs) /\ InputRecords' = Records(inputs')
  BY DEF InputRecords, Records
<1>8. /\ Total(InputRecords', "coins") = Total(InputRecords, "coins") + Wallet[i].coins
      /\ Total(InputRecords', "amount") = Total(InputRecords, "amount")
  <2>1. \A field \in Fields :
           /\ Total(InputRecords', field) = Total(InputRecords, field) + Wallet[i][field]
           /\ Total(InputRecords, field) \in Nat
    BY <1>1, <1>2, <1>7, RecordsTotal
  <2> QED BY <1>3, <2>1 DEF Fields
<1>9. sum \in Nat /\ sumSmr \in Nat /\ Wallet[i].coins \in Nat
  BY <1>2, WalletType DEF TypeOK
<1>10. CountedInOrder'
  BY <1>1, <1>8, <1>9 DEF Counters, CountedInOrder
<1> QED BY <1>6, <1>10 DEF Counters

\* A retry counts from zero, and the inputs so far are set apart.
LEMMA CountersOfRetry ==
  ASSUME TypeOK, Counters, Retry
  PROVE  Counters'
<1>1. /\ pc = "coins" /\ pc' = "coins" /\ UNCHANGED <<sumSmr, outs>>
      /\ retried' = TRUE /\ kept' = Held /\ inputs' = << >> /\ sum' = 0
  BY RetryFacts
<1>2. TokenInputs' = TokenInputs /\ CoinInputs' = {}
  BY <1>1 DEF TokenInputs, CoinInputs, Held, Elems
<1>3. Worth({}, "coins") = 0
  BY WorthOfNone DEF Fields
<1> QED BY <1>1, <1>2, <1>3 DEF Counters, Counted, CountedInOrder

\* Nothing is counted at the beginning.
LEMMA CountersOfBegin ==
  ASSUME TypeOK, Phases, BeginBasic \/ BeginToken
  PROVE  Counters'
<1>1. /\ pc = "begin" /\ inputs' = << >> /\ kept' = {} /\ sum' = 0 /\ sumSmr' = 0
      /\ pc' = "tokens" \/ (pc' = "coins" /\ outs' = << >>)
  BY BeginFacts DEF Phases, NothingYet
<1>2. TokenInputs' = {} /\ CoinInputs' = {}
  BY <1>1 DEF TokenInputs, CoinInputs, Held, Elems
<1>3. \A field \in Fields : Worth({}, field) = 0 /\ Total(<< >>, field) = 0
  <2>1. << >> \in Seq({})
    OBVIOUS
  <2> QED BY <2>1, WorthOfNone, TotalType
<1>4. InputRecords' = << >>
  BY <1>1 DEF InputRecords
<1> QED BY <1>1, <1>2, <1>3, <1>4 DEF Counters, Counted, CountedInOrder, Fields

\* When the gathering of tokens ends, they are paid out: to the user, and as change.
LEMMA TokensPaidOut ==
  ASSUME TypeOK, Phases, EndTokens, sum >= due
  PROVE  /\ outs' \in Seq(Sent) /\ Total(outs', "amount") = sum
         /\ Total(outs', "coins") = RentTo + (IF sum > due THEN RentSelf ELSE 0)
<1> DEFINE first == To(due, RentTo)
           change == Self(sum - due, RentSelf)
<1>1. /\ sum \in Nat /\ due \in Nat /\ RentTo \in Nat /\ RentSelf \in Nat
      /\ outs = <<first>>
  BY LimitsType DEF TypeOK, Phases, WhileTokens, EndTokens
<1>2. first \in Sent /\ first.amount = due /\ first.coins = RentTo
  BY <1>1, PaymentType DEF To
<1>3. \A field \in Fields : Total(<<first>>, field) = first[field] /\ <<first>> \in Seq(Sent)
  <2>1. << >> \in Seq(Sent) /\ Append(<< >>, first) = <<first>>
    OBVIOUS
  <2>2. \A field \in Fields : /\ Total(<< >>, field) = 0 /\ <<first>> \in Seq(Sent)
                              /\ Total(<<first>>, field) = Total(<< >>, field) + first[field]
    BY <1>2, <2>1, SentTotals
  <2> QED BY <1>1, <1>2, <2>2 DEF Fields
<1>4. \/ sum = due /\ outs' = outs
      \/ sum > due /\ outs' = Append(outs, change)
  <2>1. ~(sum < due)
    BY <1>1
  <2> QED BY <2>1, EndTokensOuts, Zenon
<1>5. CASE sum = due /\ outs' = outs
  BY <1>1, <1>2, <1>3, <1>5 DEF Fields
<1>6. CASE sum > due /\ outs' = Append(outs, change)
  <2>1. change \in Sent /\ change.amount = sum - due /\ change.coins = RentSelf
    BY <1>1, <1>6, PaymentType DEF Self
  <2>2. \A field \in Fields : /\ Append(<<first>>, change) \in Seq(Sent)
                              /\ Total(Append(<<first>>, change), field)
                                   = Total(<<first>>, field) + change[field]
    BY <1>3, <2>1, SentTotals
  <2> QED BY <1>1, <1>2, <1>3, <1>6, <2>1, <2>2 DEF Fields
<1> QED BY <1>4, <1>5, <1>6

\* When coins are to be gathered, too, their count begins at zero.
LEMMA CountersOfEndTokens ==
  ASSUME TypeOK, Phases, Inputs, Counters, EndTokens
  PROVE  Counters'
<1>1. pc = "tokens" /\ pc' \in {"built", "failed", "coins"}
      /\ UNCHANGED <<sumSmr, inputs, kept, retried>>
  BY DEF EndTokens, retries
<1>2. CASE pc' # "coins"
  BY <1>1, <1>2 DEF Counters, Counted, CountedInOrder
<1>3. CASE pc' = "coins"
  <2>1. sum >= due /\ Query(FALSE)
    BY <1>3, EndTokensOuts
  <2>2. sum' = 0 /\ Total(outs', "amount") = sum
    BY <2>1, QueryForCoins, TokensPaidOut
  <2>3. TokenInputs' = TokenInputs /\ CoinInputs' = {} /\ InputRecords' = InputRecords
    BY <1>1, HeldWhileTokens DEF TokenInputs, CoinInputs, Held, InputRecords, Elems
  <2>4. Worth({}, "coins") = 0 /\ sumSmr \in Nat
    BY WorthOfNone DEF Fields, TypeOK
  <2>5. /\ sum = Worth(TokenInputs, "amount") /\ sumSmr = Worth(TokenInputs, "coins")
        /\ sum = Total(InputRecords, "amount") /\ sumSmr = Total(InputRecords, "coins")
    BY <1>1 DEF Counters, Counted, CountedInOrder
  <2>6. Counted'
    BY <1>1, <1>3, <2>2, <2>3, <2>4, <2>5 DEF Counted
  <2>7. CountedInOrder'
    BY <1>1, <1>3, <2>2, <2>3, <2>4, <2>5 DEF CountedInOrder
  <2> QED BY <2>6, <2>7 DEF Counters
<1> QED BY <1>2, <1>3

\* The counters are what the inputs hold, in every phase.
LEMMA CountersStep ==
  TypeOK /\ Phases /\ Phases' /\ Inputs /\ Inputs' /\ Counters /\ [Next]_vars => Counters'
<1> SUFFICES ASSUME TypeOK, Phases, Phases', Inputs, Inputs', Counters, [Next]_vars
             PROVE  Counters'
  OBVIOUS
<1>1. CASE BeginBasic \/ BeginToken
  BY <1>1, CountersOfBegin
<1>2. CASE GatherTokens
  BY <1>2, CountersOfGatherTokens
<1>3. CASE GatherCoins
  BY <1>3, CountersOfGatherCoins
<1>4. CASE Retry
  BY <1>4, CountersOfRetry
<1>5. CASE EndTokens
  BY <1>5, CountersOfEndTokens
<1>6. CASE Ending
  <2>1. pc' \in {"built", "failed"}
    BY <1>6, EndingFacts
  <2> QED BY <2>1 DEF Counters, Counted, CountedInOrder
<1>7. CASE LosePage \/ Spend \/ UNCHANGED vars
  <2>1. UNCHANGED <<pc, sum, sumSmr, inputs, kept, outs, retried>>
    BY <1>7, LosePageFacts DEF Spend, vars, retries
  <2>2. TokenInputs' = TokenInputs /\ CoinInputs' = CoinInputs /\ InputRecords' = InputRecords
    BY <2>1 DEF TokenInputs, CoinInputs, Held, InputRecords
  <2> QED BY <2>1, <2>2 DEF Counters, Counted, CountedInOrder
<1> QED BY <1>1, <1>2, <1>3, <1>4, <1>5, <1>6, <1>7 DEF Next, Build, Ending
-----------------------------------------------------------------------------
(* The finished payment.                                                   *)

Finished == Balanced /\ Covered

\* What a finished payment gives out is given by the counters at its end.
LEMMA FinishedBy ==
  ASSUME TypeOK, pc \in {"tokens", "coins"}, inputs' = inputs, kept' = kept, retried' = retried,
         Total(outs', "coins") = Worth(TokenInputs, "coins")
                                   + (IF pc = "coins" THEN Worth(CoinInputs, "coins") ELSE 0),
         Total(outs', "amount") = Worth(TokenInputs, "amount"),
         ~retried => \A field \in Fields : Total(outs', field) = Total(InputRecords, field)
  PROVE  Finished'
<1>1. InputRecords' = InputRecords /\ Held' = Held
  BY DEF InputRecords, Held
<1>2. Balanced'
  BY <1>1 DEF Balanced, Fields
<1>3. Worth(CoinInputs \cup TokenInputs, "coins")
        = Worth(CoinInputs, "coins") + Worth(TokenInputs, "coins")
  <2>1. CoinInputs \cap TokenInputs = {}
    BY DEF CoinInputs, TokenInputs, Has
  <2> QED BY <2>1, WorthOfUnion DEF Fields
<1>4. CoinInputs \cup TokenInputs \subseteq Held /\ TokenInputs \subseteq Held
  BY DEF CoinInputs, TokenInputs, Held, Elems
<1>5. /\ Worth(CoinInputs \cup TokenInputs, "coins") <= Worth(Held, "coins")
      /\ Worth(TokenInputs, "amount") <= Worth(Held, "amount")
  BY <1>4, WorthOfSubset DEF Fields
<1>6. /\ Worth(CoinInputs, "coins") \in Nat /\ Worth(TokenInputs, "coins") \in Nat
      /\ Worth(Held, "coins") \in Nat
      /\ Worth(TokenInputs, "amount") \in Nat /\ Worth(Held, "amount") \in Nat
  BY WorthType DEF Fields
<1>7. Worth(Held, "coins") >= Total(outs', "coins")
  BY <1>3, <1>5, <1>6
<1>8. Worth(Held, "amount") >= Total(outs', "amount")
  BY <1>5, <1>6
<1>9. Covered'
  BY <1>1, <1>7, <1>8 DEF Covered
<1> QED BY <1>2, <1>9 DEF Finished

\* A payment whose tokens bring in their deposits exactly is right.
LEMMA FinishedByTokens ==
  ASSUME TypeOK, Phases, Inputs, Counters, EndTokens, pc' = "built"
  PROVE  Finished'
<1>1. /\ pc = "tokens" /\ UNCHANGED <<inputs, kept, retried>>
      /\ sum >= due /\ sumSmr = RentTo + (IF sum > due THEN RentSelf ELSE 0)
  BY EndTokensOuts DEF EndTokens, retries
<1>2. Total(outs', "amount") = sum /\ Total(outs', "coins") = sumSmr
  BY <1>1, TokensPaidOut
<1>3. /\ sum = Worth(TokenInputs, "amount") /\ sumSmr = Worth(TokenInputs, "coins")
      /\ sum = Total(InputRecords, "amount") /\ sumSmr = Total(InputRecords, "coins")
  BY <1>1 DEF Counters, Counted, CountedInOrder
<1>4. Worth(TokenInputs, "coins") \in Nat
  BY WorthType DEF Fields
<1> QED BY <1>1, <1>2, <1>3, <1>4, FinishedBy DEF Fields

\* Two summands of the base coin payment.
LEMMA FinishedByBasic ==
  ASSUME TypeOK, Phases, Counters, EndBasic, pc' = "built"
  PROVE  Finished'
<1> DEFINE first == To(0, due)
           change == Self(0, sum - due)
<1>1. /\ pc = "coins" /\ mode = "basic" /\ UNCHANGED <<inputs, kept, retried>> /\ sum >= due
      /\ \/ ~(sum > due) /\ outs' = <<first>> \o << >>
         \/ sum > due /\ outs' = <<first>> \o <<change>>
  BY DEF EndBasic, retries
<1>2. outs = << >> /\ sumSmr = 0 /\ sum \in Nat /\ due \in Nat
  BY <1>1, LimitsType DEF TypeOK, Phases, WhileBasic
<1>3. first \in Sent /\ first.amount = 0 /\ first.coins = due
  BY <1>2, PaymentType DEF To
<1>4. \A field \in Fields : Total(<<first>>, field) = first[field] /\ <<first>> \in Seq(Sent)
  <2>1. << >> \in Seq(Sent) /\ Append(<< >>, first) = <<first>>
    OBVIOUS
  <2>2. \A field \in Fields : /\ Total(<< >>, field) = 0 /\ <<first>> \in Seq(Sent)
                              /\ Total(<<first>>, field) = Total(<< >>, field) + first[field]
    BY <1>3, <2>1, SentTotals
  <2> QED BY <1>2, <1>3, <2>2 DEF Fields
<1>5. Total(outs', "coins") = sum /\ Total(outs', "amount") = 0
  <2>1. CASE ~(sum > due) /\ outs' = <<first>> \o << >>
    <3>1. outs' = <<first>> /\ sum = due
      BY <1>1, <1>2, <2>1
    <3> QED BY <1>3, <1>4, <3>1 DEF Fields
  <2>2. CASE sum > due /\ outs' = <<first>> \o <<change>>
    <3>1. change \in Sent /\ change.amount = 0 /\ change.coins = sum - due
      BY <1>2, <2>2, PaymentType DEF Self
    <3>2. outs' = Append(<<first>>, change)
      BY <2>2
    <3>3. \A field \in Fields : Total(outs', field) = Total(<<first>>, field) + change[field]
      BY <1>4, <3>1, <3>2, SentTotals
    <3> QED BY <1>2, <1>3, <1>4, <3>1, <3>3 DEF Fields
  <2> QED BY <1>1, <2>1, <2>2
<1>6. Total(outs, "amount") = 0
  <2>1. << >> \in Seq({})
    OBVIOUS
  <2> QED BY <1>2, <2>1, TotalType
<1>7. /\ Worth(CoinInputs, "coins") = sum /\ Worth(TokenInputs, "coins") = 0
      /\ Worth(TokenInputs, "amount") = 0
      /\ ~retried => /\ Total(InputRecords, "coins") = sum + sumSmr
                     /\ Total(InputRecords, "amount") = 0
  BY <1>1, <1>2, <1>6 DEF Counters, Counted, CountedInOrder
<1> QED BY <1>1, <1>2, <1>5, <1>7, FinishedBy DEF Fields

\* The change of a token payment is all that its outputs leave.
LEMMA FinishedByCoins ==
  ASSUME TypeOK, Counters, EndCoins, pc' = "built"
  PROVE  Finished'
<1> DEFINE need == Total(outs, "coins")
           change == Self(0, CoinsLeft - need)
<1>1. /\ pc = "coins" /\ UNCHANGED <<inputs, kept, retried>>
      /\ CoinsSuffice(need) /\ outs' = Append(outs, change)
  BY DEF EndCoins, retries
<1>2. /\ outs \in Seq(Sent) /\ sum \in Nat /\ sumSmr \in Nat /\ RentLeft \in Nat
      /\ CoinsLeft = sum + sumSmr
  BY LimitsType DEF TypeOK, CoinsLeft
<1>3. \A field \in Fields : Total(outs, field) \in Nat
  BY <1>2, TotalType DEF Sent, Fields
<1>4. CoinsLeft - need \in Nat
  <2>1. need \in Nat
    BY <1>3 DEF Fields
  <2> HIDE DEF need
  <2> QED BY <1>1, <1>2, <2>1 DEF CoinsSuffice
<1>5. change \in Sent /\ change.amount = 0 /\ change.coins = CoinsLeft - need
  BY <1>4, PaymentType DEF Self
<1>6. \A field \in Fields : Total(outs', field) = Total(outs, field) + change[field]
  <2> HIDE DEF change
  <2> QED BY <1>1, <1>2, <1>5, SentTotals
<1>7. Total(outs', "coins") = sum + sumSmr /\ Total(outs', "amount") = Total(outs, "amount")
  <2> HIDE DEF change
  <2> QED BY <1>2, <1>3, <1>5, <1>6 DEF Fields
<1>8. /\ sum = Worth(CoinInputs, "coins") /\ sumSmr = Worth(TokenInputs, "coins")
      /\ Total(outs, "amount") = Worth(TokenInputs, "amount")
      /\ ~retried => /\ Total(InputRecords, "coins") = sum + sumSmr
                     /\ Total(InputRecords, "amount") = Total(outs, "amount")
  BY <1>1 DEF Counters, Counted, CountedInOrder
<1> HIDE DEF need, change
<1>9. Total(outs', "coins") = Worth(TokenInputs, "coins") + Worth(CoinInputs, "coins")
  BY <1>2, <1>7, <1>8
<1> QED BY <1>1, <1>7, <1>8, <1>9, FinishedBy DEF Fields

\* A payment is balanced, or covered after retries, from the step that finishes it on.
LEMMA FinishedStep ==
  TypeOK /\ Phases /\ Inputs /\ Counters /\ Finished /\ [Next]_vars => Finished'
<1> SUFFICES ASSUME TypeOK, Phases, Inputs, Counters, Finished, [Next]_vars
             PROVE  Finished'
  OBVIOUS
<1>1. CASE pc' # "built"
  BY <1>1 DEF Finished, Balanced, Covered
<1>2. CASE EndTokens /\ pc' = "built"
  BY <1>2, FinishedByTokens
<1>3. CASE EndBasic /\ pc' = "built"
  BY <1>3, FinishedByBasic
<1>4. CASE EndCoins /\ pc' = "built"
  BY <1>4, FinishedByCoins
<1>5. CASE Spend \/ UNCHANGED vars
  <2>1. UNCHANGED <<pc, inputs, kept, outs, retried>>
    BY <1>5 DEF Spend, vars, retries
  <2>2. InputRecords' = InputRecords /\ Held' = Held
    BY <2>1 DEF InputRecords, Held
  <2> QED BY <2>1, <2>2 DEF Finished, Balanced, Covered
<1>6. BeginBasic \/ BeginToken \/ GatherTokens \/ GatherCoins \/ Retry \/ LosePage \/ Fail
        => pc' # "built"
  BY BeginFacts, GatherTokensFacts, GatherCoinsFacts, RetryFacts
     DEF LosePage, Fail
<1> QED BY <1>1, <1>2, <1>3, <1>4, <1>5, <1>6 DEF Next, Build
-----------------------------------------------------------------------------
(* The limit.                                                              *)

\* Both limits let one input in at least.
LEMMA LimitType == MaxInput \in Nat \ {0} /\ MaxInput \div 2 \in Nat \ {0}
<1>1. MaxInput \in Nat /\ MaxInput >= 2
  BY LimitsType
<1>2. MaxInput \div 2 \in Nat /\ MaxInput < (MaxInput \div 2) * 2 + 2
  BY <1>1, Division
<1>3. MaxInput \div 2 \in Nat \ {0}
  BY <1>1, <1>2
<1> QED BY <1>1, <1>3

\* The pages behind the position.
Pages == (pos - 1) \div PageSize

\* A loop that leaves the page with the input that reaches its limit stays within it.
LEMMA GatherWithinLimit ==
  ASSUME NEW n \in Nat, NEW limit \in Nat \ {0}, NEW p \in Nat, NEW q \in Nat,
         n < limit \/ n < limit + p,
         IF n + 1 >= limit THEN q = p + 1 ELSE p <= q
  PROVE  n + 1 < limit \/ n + 1 < limit + q
OBVIOUS

\* Every step keeps the loops within their limits.
LEMMA WithinLimitStep == TypeOK /\ WithinLimit /\ [Next]_vars => WithinLimit'
<1> SUFFICES ASSUME TypeOK, WithinLimit, [Next]_vars
             PROVE  WithinLimit'
  OBVIOUS
<1>0. /\ pos \in Nat \ {0} /\ count \in Nat /\ Pages \in Nat
      /\ ((pos + 1) - 1) \div PageSize \in Nat
      /\ Pages <= ((pos + 1) - 1) \div PageSize
      /\ (NextPage(pos) - 1) \div PageSize = Pages + 1
  <2>1. pos \in Nat \ {0} /\ pos + 1 \in Nat \ {0} /\ count \in Nat
    BY DEF TypeOK
  <2> QED BY <2>1, NextPageFacts, NextPosition DEF Pages
<1>1. ASSUME pc' = pc, mode' = mode, count' = count,
             pos' = pos \/ pos' = pos + 1 \/ pos' = NextPage(pos)
      PROVE  WithinLimit'
  <2>1. HardLimit' = HardLimit /\ HardLimit \in Nat
    BY <1>1, LimitType DEF HardLimit
  <2>2. Pages' \in Nat /\ Pages <= Pages'
    BY <1>0, <1>1 DEF Pages
  <2> QED BY <1>0, <1>1, <2>1, <2>2 DEF WithinLimit, Pages
<1>2. ASSUME count' = 0
      PROVE  WithinLimit'
  <2>1. HardLimit' \in Nat \ {0}
    BY LimitType DEF HardLimit
  <2> QED BY <1>2, <2>1 DEF WithinLimit
<1>3. ASSUME pc' = pc, mode' = mode, count' = count + 1,
             pos' = (IF count' >= HardLimit THEN NextPage(pos) ELSE pos + 1),
             (pc = "tokens" /\ mode = "native") \/ (pc = "coins" /\ mode # "basic")
      PROVE  WithinLimit'
  <2>1. HardLimit' = HardLimit /\ HardLimit \in Nat \ {0}
    BY <1>3, LimitType DEF HardLimit
  <2>2. Pages' \in Nat /\ (IF count + 1 >= HardLimit THEN Pages' = Pages + 1 ELSE Pages <= Pages')
    BY <1>0, <1>3 DEF Pages
  <2>3. count < HardLimit \/ count < HardLimit + Pages
    BY <1>3 DEF WithinLimit, Pages
  <2>4. count + 1 < HardLimit \/ count + 1 < HardLimit + Pages'
    BY <1>0, <2>1, <2>2, <2>3, GatherWithinLimit
  <2> QED BY <1>3, <2>1, <2>4 DEF WithinLimit, Pages
<1>4. CASE BeginBasic \/ BeginToken \/ Retry
  BY <1>2, <1>4, BeginFacts, RetryFacts
<1>5. CASE GatherTokens
  <2>1. /\ pc = "tokens" /\ pc' = pc /\ mode' = mode
        /\ \/ count' = count /\ pos' = pos + 1
           \/ /\ count' = count + 1
              /\ pos' = IF TokensEnough(count', sum') THEN NextPage(pos) ELSE pos + 1
    BY <1>5 DEF GatherTokens, order
  <2>2. CASE mode # "native"
    BY <2>1, <2>2 DEF WithinLimit
  <2>3. CASE mode = "native" /\ count' = count + 1
    <3>1. HardLimit = MaxInput /\ (TokensEnough(count', sum') <=> count' >= HardLimit)
      BY <2>1, <2>3 DEF TokensEnough, HardLimit
    <3>2. count' # count
      BY <1>0, <2>3
    <3> QED BY <1>3, <2>1, <2>3, <3>1, <3>2
  <2> QED BY <1>1, <2>1, <2>2, <2>3
<1>6. CASE GatherCoins
  <2>1. /\ pc = "coins" /\ pc' = pc /\ mode' = mode /\ count' = count + 1
        /\ pos' = IF CoinsEnough(count', sum') THEN NextPage(pos) ELSE pos + 1
    BY <1>6 DEF GatherCoins, order
  <2>2. CASE mode = "basic"
    BY <2>1, <2>2 DEF WithinLimit
  <2>3. CASE mode # "basic"
    <3>1. CoinsEnough(count', sum') <=> count' >= HardLimit
      BY <2>1, <2>3 DEF CoinsEnough, HardLimit
    <3> QED BY <1>3, <2>1, <2>3, <3>1
  <2> QED BY <2>2, <2>3
<1>7. CASE LosePage
  BY <1>1, <1>7, LosePageFacts
<1>8. CASE EndTokens
  <2>1. \/ pc' \in {"built", "failed"}
        \/ Query(FALSE)
    BY <1>8, EndTokensOuts
  <2>2. CASE pc' \in {"built", "failed"}
    BY <2>2 DEF WithinLimit
  <2> QED BY <1>2, <2>1, <2>2, QueryForCoins
<1>9. CASE Ending
  <2>1. pc' \in {"built", "failed"}
    BY <1>9, EndingFacts
  <2> QED BY <2>1 DEF WithinLimit
<1>10. CASE Spend \/ UNCHANGED vars
  BY <1>1, <1>10 DEF Spend, vars, order
<1> QED BY <1>4, <1>5, <1>6, <1>7, <1>8, <1>9, <1>10 DEF Next, Build, Ending
-----------------------------------------------------------------------------
(* The theorems.                                                           *)

\* Nothing is gathered, listed or counted yet.
LEMMA InitIInv == Init => IInv
<1> SUFFICES ASSUME Init
             PROVE  IInv
  OBVIOUS
<1>1. TypeOK
  BY InitTypes
<1>2. pc = "begin" /\ listed = << >> /\ inputs = << >> /\ outs = << >> /\ kept = {}
      /\ sumSmr = 0 /\ ~retried
  BY DEF Init
<1>3. NothingYet /\ ListedOnce /\ ListedKind /\ WhileTokens /\ WhileBasic
  BY <1>2 DEF NothingYet, ListedOnce, ListedKind, WhileTokens, WhileBasic, Ascending, Elems
<1>4. OnlyOnce /\ Behind /\ Counted /\ CountedInOrder /\ Balanced /\ Covered /\ WithinLimit
  BY <1>2 DEF OnlyOnce, Behind, Elems, Counted, CountedInOrder, Balanced, Covered, WithinLimit
<1> QED BY <1>1, <1>3, <1>4 DEF IInv

\* Every step keeps the invariant.
LEMMA IInvStep == IInv /\ [Next]_vars => IInv'
<1> SUFFICES ASSUME IInv, [Next]_vars
             PROVE  IInv'
  OBVIOUS
<1>1. TypeOK /\ Phases /\ Inputs /\ Counters /\ Finished /\ WithinLimit
  BY DEF IInv, Phases, Inputs, Counters, Finished
<1>2. TypeOK' /\ Phases' /\ Inputs' /\ Finished' /\ WithinLimit'
  BY <1>1, TypeStep, PhasesStep, InputsStep, FinishedStep, WithinLimitStep
<1>3. Counters'
  BY <1>1, <1>2, CountersStep
<1> QED BY <1>2, <1>3 DEF IInv, Phases, Inputs, Counters, Finished

\* The building of a payment keeps the invariant.
THEOREM BuildingInvariant == Spec => []IInv
BY InitIInv, IInvStep, PTL DEF Spec

\* No output is an input twice, for every wallet, page size and limit, whatever pages are
\* lost and outputs spent (CreateUnWrapTxData, SendUnWrap).
THEOREM InputsAreDistinct == Spec => []InputsDistinct
<1>1. IInv => InputsDistinct
  BY DEF IInv, OnlyOnce, InputsDistinct
<1> QED BY <1>1, BuildingInvariant, PTL

\* A payment built without a retry gives out what its inputs bring in, in tokens and in
\* coins: the change is right, for every wallet, amount and deposit.
THEOREM PaymentIsBalanced == Spec => []Balanced
<1>1. IInv => Balanced
  BY DEF IInv
<1> QED BY <1>1, BuildingInvariant, PTL

\* A payment built after any number of retries is covered by its inputs, each counted
\* once: no round counts on the coins of an earlier one.
THEOREM PaymentIsCovered == Spec => []Covered
<1>1. IInv => Covered
  BY DEF IInv
<1> QED BY <1>1, BuildingInvariant, PTL

\* A break out of the loop over one page lets a loop pass its limit by one input for
\* each further page, and by no more.
THEOREM LimitIsPassedByPages == Spec => []OverrunOnePerPage
<1>1. IInv => OverrunOnePerPage
  <2> SUFFICES ASSUME IInv
               PROVE  OverrunOnePerPage
    OBVIOUS
  <2>1. HardLimit \in Nat /\ count \in Nat
    BY LimitType DEF HardLimit, IInv, TypeOK
  <2> QED BY <2>1 DEF IInv, WithinLimit, OverrunOnePerPage
<1> QED BY <1>1, BuildingInvariant, PTL
=============================================================================
