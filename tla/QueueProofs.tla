----------------------------- MODULE QueueProofs -----------------------------
(***************************************************************************)
(* The packet buffer implements the queue of PacketQueue, for every ring   *)
(* and every set of lengths: each call of PacketBuffer.h changes the queue *)
(* of packets as PacketQueue allows, or leaves it alone.                   *)
(***************************************************************************)
EXTENDS PacketClientsMC, PacketBufferProofs, FiniteSetTheorems, SequenceTheorems,
        WellFoundedInduction

-----------------------------------------------------------------------------
(* Finite sets in an order: k gives each member its position.              *)

LEMMA LeastNumber ==
  ASSUME NEW S \in SUBSET Nat, S # {}
  PROVE  \E m \in S : \A n \in S : m <= n
  <1>1. IsWellFoundedOn(OpToRel(<, Nat), Nat)
    BY NatLessThanWellFounded
  <1>2. \A m, n \in Nat : n < m => <<n, m>> \in OpToRel(<, Nat)
    BY DEF OpToRel
  <1>3. PICK R : IsWellFoundedOn(R, Nat) /\ \A m, n \in Nat : n < m => <<n, m>> \in R
    BY <1>1, <1>2, Zenon
  <1>4. PICK m \in S : \A n \in S : ~ (<<n, m>> \in R)
    BY <1>3, WFMin
  <1>5. \A n \in S : ~ (n < m)
    BY <1>3, <1>4, Zenon
  <1> QED
    BY <1>5

Ordered(L, k) ==
  /\ IsFiniteSet(L)
  /\ \A p \in L : k[p] \in Int
  /\ \A p, q \in L : k[p] = k[q] => p = q

UpTo(L, k, p) == {q \in L : k[q] <= k[p]}
Rank(L, k, p) == Cardinality(UpTo(L, k, p))
Ranked(L, k, i) == CHOOSE p \in L : Rank(L, k, p) = i

LEMMA UpToFacts ==
  ASSUME NEW L, NEW k, Ordered(L, k), NEW p \in L
  PROVE  /\ IsFiniteSet(UpTo(L, k, p)) /\ UpTo(L, k, p) \subseteq L
         /\ p \in UpTo(L, k, p) /\ Rank(L, k, p) \in 1 .. Cardinality(L)
  <1>1. IsFiniteSet(L) /\ k[p] \in Int
    BY DEF Ordered
  <1>2. UpTo(L, k, p) \subseteq L /\ p \in UpTo(L, k, p)
    BY <1>1 DEF UpTo
  <1>3. /\ IsFiniteSet(UpTo(L, k, p)) /\ Cardinality(UpTo(L, k, p)) <= Cardinality(L)
    BY <1>1, <1>2, FS_Subset
  <1>4. Cardinality(L) \in Nat /\ Cardinality(UpTo(L, k, p)) \in Nat
    BY <1>1, <1>3, FS_CardinalityType
  <1>5. Cardinality(UpTo(L, k, p)) # 0
    BY <1>2, <1>3, FS_EmptySet
  <1> QED
    BY <1>2, <1>3, <1>4, <1>5 DEF Rank

LEMMA RankGrows ==
  ASSUME NEW L, NEW k, Ordered(L, k), NEW p \in L, NEW q \in L, k[p] < k[q]
  PROVE  Rank(L, k, p) < Rank(L, k, q)
  <1>1. /\ UpTo(L, k, p) \subseteq UpTo(L, k, q) /\ q \notin UpTo(L, k, p) /\ q \in UpTo(L, k, q)
    BY DEF UpTo, Ordered
  <1>2. /\ IsFiniteSet(UpTo(L, k, q)) /\ IsFiniteSet(UpTo(L, k, p))
    BY UpToFacts
  <1>3. /\ Cardinality(UpTo(L, k, p)) <= Cardinality(UpTo(L, k, q))
        /\ Cardinality(UpTo(L, k, p)) # Cardinality(UpTo(L, k, q))
    BY <1>1, <1>2, FS_Subset
  <1>4. Cardinality(UpTo(L, k, p)) \in Nat /\ Cardinality(UpTo(L, k, q)) \in Nat
    BY <1>2, FS_CardinalityType
  <1> QED
    BY <1>3, <1>4 DEF Rank

LEMMA RankSame ==
  ASSUME NEW L, NEW k, Ordered(L, k), NEW p \in L, NEW q \in L,
         Rank(L, k, p) = Rank(L, k, q)
  PROVE  p = q
  <1>1. k[p] \in Int /\ k[q] \in Int /\ (k[p] = k[q] => p = q)
    BY DEF Ordered
  <1>2. Rank(L, k, p) \in Int /\ Rank(L, k, q) \in Int
    BY UpToFacts
  <1>3. ~ (k[p] < k[q]) /\ ~ (k[q] < k[p])
    BY <1>2, RankGrows
  <1> QED
    BY <1>1, <1>3

\* Every place is taken by one member.
LEMMA RankedFacts ==
  ASSUME NEW L, NEW k, Ordered(L, k)
  PROVE  /\ Cardinality(L) \in Nat
         /\ \A i \in 1 .. Cardinality(L) : Ranked(L, k, i) \in L /\ Rank(L, k, Ranked(L, k, i)) = i
         /\ \A p \in L : Rank(L, k, p) \in 1 .. Cardinality(L) /\ Ranked(L, k, Rank(L, k, p)) = p
  <1> DEFINE n == Cardinality(L)
             f == [p \in L |-> Rank(L, k, p)]
  <1>1. IsFiniteSet(L) /\ n \in Nat
    BY FS_CardinalityType DEF Ordered
  <1>2. f \in Injection(L, 1 .. n)
    <2>1. f \in [L -> 1 .. n]
      BY UpToFacts
    <2>2. \A p, q \in L : f[p] = f[q] => p = q
      BY RankSame
    <2> QED
      BY <2>1, <2>2 DEF Injection, IsInjective
  <1>3. IsFiniteSet(1 .. n) /\ Cardinality(1 .. n) = n
    BY <1>1, FS_Interval
  <1>4. f \in Surjection(L, 1 .. n)
    <2> HIDE DEF f
    <2> QED
      BY <1>1, <1>2, <1>3, FS_Injection
  <1>5. \A i \in 1 .. n : \E p \in L : Rank(L, k, p) = i
    BY <1>4 DEF Surjection
  <1>6. \A i \in 1 .. n : Ranked(L, k, i) \in L /\ Rank(L, k, Ranked(L, k, i)) = i
    BY <1>5 DEF Ranked
  <1>7. ASSUME NEW p \in L
        PROVE  Rank(L, k, p) \in 1 .. n /\ Ranked(L, k, Rank(L, k, p)) = p
    <2>1. Rank(L, k, p) \in 1 .. n
      BY UpToFacts
    <2> QED
      BY <2>1, <1>6, RankSame
  <1> QED
    BY <1>1, <1>6, <1>7

\* Two positions that agree on a set give it the same order.
Agree(L, k, k2) == \A p, q \in L : k[p] <= k[q] <=> k2[p] <= k2[q]

LEMMA SameRank ==
  ASSUME NEW L, NEW k, NEW k2, Ordered(L, k), Ordered(L, k2), Agree(L, k, k2)
  PROVE  \A i \in 1 .. Cardinality(L) : Ranked(L, k2, i) = Ranked(L, k, i)
  <1>1. \A p \in L : UpTo(L, k2, p) = UpTo(L, k, p)
    BY DEF UpTo, Agree
  <1>2. \A p \in L : Rank(L, k2, p) = Rank(L, k, p)
    BY <1>1 DEF Rank
  <1> SUFFICES ASSUME NEW i \in 1 .. Cardinality(L)
               PROVE  Ranked(L, k2, i) = Ranked(L, k, i)
    OBVIOUS
  <1>3. PICK p \in L : p = Ranked(L, k, i) /\ Rank(L, k, p) = i
    BY RankedFacts
  <1> QED
    BY <1>2, <1>3, RankedFacts

\* A new last member.
LEMMA AddedRank ==
  ASSUME NEW L, NEW k, Ordered(L, k), NEW r, r \notin L, NEW M, M = L \cup {r},
         NEW k2, \A p \in M : k2[p] \in Int, Agree(L, k, k2), \A p \in L : k2[p] < k2[r]
  PROVE  /\ Ordered(M, k2) /\ Cardinality(M) = Cardinality(L) + 1
         /\ Ranked(M, k2, Cardinality(M)) = r
         /\ \A i \in 1 .. Cardinality(L) : Ranked(M, k2, i) = Ranked(L, k, i)
  <1>1. IsFiniteSet(M) /\ Cardinality(M) = Cardinality(L) + 1 /\ Cardinality(L) \in Nat
    BY FS_AddElement, FS_CardinalityType DEF Ordered
  <1>2. Ordered(M, k2)
    <2>1. ASSUME NEW p \in M, NEW q \in M, k2[p] = k2[q] PROVE p = q
      <3>1. k2[p] \in Int /\ k2[q] \in Int
        OBVIOUS
      <3>2. CASE p \in L /\ q \in L
        <4>1. k[p] <= k[q] /\ k[q] <= k[p]
          BY <2>1, <3>1, <3>2 DEF Agree
        <4> QED
          BY <4>1, <3>2 DEF Ordered
      <3>3. CASE p = r \/ q = r
        BY <2>1, <3>1, <3>3
      <3> QED
        BY <3>2, <3>3
    <2> QED
      BY <1>1, <2>1 DEF Ordered
  <1>3. UpTo(M, k2, r) = M
    BY DEF UpTo
  <1>4. ASSUME NEW p \in L PROVE UpTo(M, k2, p) = UpTo(L, k, p)
    <2>1. ~ (k2[r] <= k2[p])
      OBVIOUS
    <2> QED
      BY <2>1 DEF UpTo, Agree
  <1>5. Rank(M, k2, r) = Cardinality(M) /\ \A p \in L : Rank(M, k2, p) = Rank(L, k, p)
    BY <1>3, <1>4 DEF Rank
  <1>6. Ranked(M, k2, Cardinality(M)) = r
    BY <1>2, <1>5, RankedFacts
  <1>7. ASSUME NEW i \in 1 .. Cardinality(L)
        PROVE  Ranked(M, k2, i) = Ranked(L, k, i)
    <2>1. PICK p \in L : p = Ranked(L, k, i) /\ Rank(L, k, p) = i
      BY RankedFacts
    <2> QED
      BY <2>1, <1>2, <1>5, RankedFacts
  <1> QED
    BY <1>1, <1>2, <1>6, <1>7

\* One member leaves, and those behind it move up.
LEMMA RemovedRank ==
  ASSUME NEW L, NEW k, Ordered(L, k), NEW x \in L, NEW M, M = L \ {x},
         NEW k2, \A p \in M : k2[p] \in Int, Agree(M, k, k2)
  PROVE  /\ Ordered(M, k2) /\ Cardinality(M) = Cardinality(L) - 1
         /\ \A i \in 1 .. Cardinality(M) :
              Ranked(M, k2, i) = Ranked(L, k, IF i < Rank(L, k, x) THEN i ELSE i + 1)
  <1>1. IsFiniteSet(M) /\ Cardinality(M) = Cardinality(L) - 1 /\ Cardinality(L) \in Nat
    BY FS_RemoveElement, FS_CardinalityType DEF Ordered
  <1>2. Ordered(M, k2)
    <2>1. ASSUME NEW p \in M, NEW q \in M, k2[p] = k2[q] PROVE p = q
      <3>1. k[p] <= k[q] /\ k[q] <= k[p]
        BY <2>1 DEF Agree
      <3> QED
        BY <3>1 DEF Ordered
    <2> QED
      BY <1>1, <2>1 DEF Ordered
  <1>3. ASSUME NEW p \in M
        PROVE  Rank(M, k2, p) = Rank(L, k, p) - (IF Rank(L, k, p) < Rank(L, k, x) THEN 0 ELSE 1)
    <2>1. p \in L /\ UpTo(M, k2, p) = UpTo(L, k, p) \ {x}
      BY DEF UpTo, Agree
    <2>2. /\ Rank(M, k2, p) = IF x \in UpTo(L, k, p) THEN Rank(L, k, p) - 1 ELSE Rank(L, k, p)
      BY <2>1, UpToFacts, FS_RemoveElement DEF Rank
    <2>3. k[p] \in Int /\ k[x] \in Int /\ k[p] # k[x]
      BY <2>1 DEF Ordered
    <2>4. Rank(L, k, p) \in Int /\ Rank(L, k, x) \in Int
      BY <2>1, UpToFacts
    <2>5. CASE k[p] < k[x]
      BY <2>1, <2>2, <2>3, <2>4, <2>5, RankGrows DEF UpTo
    <2>6. CASE k[x] < k[p]
      <3>1. Rank(L, k, x) < Rank(L, k, p)
        BY <2>1, <2>6, RankGrows
      <3> QED
        BY <3>1, <2>1, <2>2, <2>3, <2>4, <2>6 DEF UpTo
    <2> QED
      BY <2>3, <2>5, <2>6
  <1>4. ASSUME NEW i \in 1 .. Cardinality(M)
        PROVE  Ranked(M, k2, i) = Ranked(L, k, IF i < Rank(L, k, x) THEN i ELSE i + 1)
    <2>1. PICK j \in 1 .. Cardinality(L) : j = IF i < Rank(L, k, x) THEN i ELSE i + 1
      BY <1>1
    <2>2. PICK p \in L : p = Ranked(L, k, j) /\ Rank(L, k, p) = j
      BY RankedFacts
    <2>3. Rank(L, k, x) \in Int
      BY UpToFacts
    <2>4. j # Rank(L, k, x)
      BY <2>1, <2>3
    <2>5. p \in M
      BY <2>2, <2>4
    <2>6. Rank(M, k2, p) = i
      BY <2>1, <2>2, <2>3, <2>5, <1>3
    <2> QED
      BY <2>1, <2>2, <2>5, <2>6, <1>2, RankedFacts
  <1> QED
    BY <1>1, <1>2, <1>4

-----------------------------------------------------------------------------
(* The queue of the slots L in the order k, when m is the memory.          *)

Item(m, p) == [kind |-> kindOf[m[p].flag], len |-> m[p].val]
Items(L, m) == {Item(m, p) : p \in L}
Listed(L, k, m) == [i \in 1 .. Cardinality(L) |-> Item(m, Ranked(L, k, i))]

LEMMA ListedFacts ==
  ASSUME NEW L, NEW k, Ordered(L, k), NEW m
  PROVE  /\ Listed(L, k, m) \in Seq(Items(L, m))
         /\ Len(Listed(L, k, m)) = Cardinality(L) /\ Cardinality(L) \in Nat
         /\ DOMAIN Listed(L, k, m) = 1 .. Cardinality(L)
         /\ \A i \in 1 .. Cardinality(L) : Listed(L, k, m)[i] = Item(m, Ranked(L, k, i))
         /\ \A p \in L : Listed(L, k, m)[Rank(L, k, p)] = Item(m, p)
  <1> DEFINE S == Items(L, m)
             q == Listed(L, k, m)
  <1>1. /\ Cardinality(L) \in Nat
        /\ \A i \in 1 .. Cardinality(L) : Ranked(L, k, i) \in L
        /\ \A p \in L : Rank(L, k, p) \in 1 .. Cardinality(L) /\ Ranked(L, k, Rank(L, k, p)) = p
    BY RankedFacts
  <1>2. q \in [1 .. Cardinality(L) -> S] /\ \A i \in 1 .. Cardinality(L) : q[i] = Item(m, Ranked(L, k, i))
    BY <1>1 DEF Listed, Items
  <1>3. q \in Seq(S) /\ Len(q) = Cardinality(L)
    <2> HIDE DEF S, q
    <2>1. q \in Seq(S)
      BY <1>1, <1>2, SeqDef
    <2> QED
      BY <1>1, <1>2, <2>1, LenProperties
  <1>4. \A p \in L : q[Rank(L, k, p)] = Item(m, p)
    BY <1>1, <1>2
  <1> QED
    BY <1>1, <1>2, <1>3, <1>4

\* Order and items of the slots M are the same for k and m as for k2 and m2.
Alike(M, k, k2, m, m2) ==
  /\ \A p \in M : k2[p] \in Int
  /\ Agree(M, k, k2)
  /\ \A p \in M : Item(m2, p) = Item(m, p)

LEMMA AlikeOrdered ==
  ASSUME NEW L, NEW k, Ordered(L, k), NEW k2, \A p \in L : k2[p] \in Int, Agree(L, k, k2)
  PROVE  Ordered(L, k2)
  <1>1. ASSUME NEW p \in L, NEW q \in L, k2[p] = k2[q] PROVE p = q
    <2>1. k[p] <= k[q] /\ k[q] <= k[p]
      BY <1>1 DEF Agree
    <2> QED
      BY <2>1 DEF Ordered
  <1> QED
    BY <1>1 DEF Ordered

LEMMA ListedSame ==
  ASSUME NEW L, NEW k, Ordered(L, k), NEW k2, NEW m, NEW m2, Alike(L, k, k2, m, m2)
  PROVE  Listed(L, k2, m2) = Listed(L, k, m)
  <1>0. Ordered(L, k2) /\ Agree(L, k, k2) /\ \A p \in L : Item(m2, p) = Item(m, p)
    BY AlikeOrdered DEF Alike
  <1>1. \A i \in 1 .. Cardinality(L) : Ranked(L, k2, i) = Ranked(L, k, i) /\ Ranked(L, k, i) \in L
    BY <1>0, SameRank, RankedFacts
  <1>2. \A i \in 1 .. Cardinality(L) : Item(m2, Ranked(L, k2, i)) = Item(m, Ranked(L, k, i))
    BY <1>0, <1>1
  <1> QED
    BY <1>2 DEF Listed

\* No other item than that of x changes from m to m2.
OnlyChanges(L, x, m, m2) == \A p \in L \ {x} : Item(m2, p) = Item(m, p)

With(q, j, item) == [q EXCEPT ![j] = item]

LEMMA ListedChanged ==
  ASSUME NEW L, NEW k, Ordered(L, k), NEW m, NEW m2, NEW x \in L, OnlyChanges(L, x, m, m2)
  PROVE  Listed(L, k, m2) = With(Listed(L, k, m), Rank(L, k, x), Item(m2, x))
  <1>1. \A i \in 1 .. Cardinality(L) :
          Ranked(L, k, i) \in L /\ Rank(L, k, Ranked(L, k, i)) = i
    BY RankedFacts
  <1>2. Rank(L, k, x) \in 1 .. Cardinality(L) /\ Ranked(L, k, Rank(L, k, x)) = x
    BY RankedFacts
  <1>3. ASSUME NEW i \in 1 .. Cardinality(L)
        PROVE  Item(m2, Ranked(L, k, i)) =
                 IF i = Rank(L, k, x) THEN Item(m2, x) ELSE Item(m, Ranked(L, k, i))
    <2>1. CASE i = Rank(L, k, x)
      BY <2>1, <1>1, <1>2
    <2>2. CASE i # Rank(L, k, x)
      <3>1. Ranked(L, k, i) \in L \ {x}
        BY <2>2, <1>1
      <3> QED
        BY <3>1, <2>2, <1>1 DEF OnlyChanges
    <2> QED
      BY <2>1, <2>2
  <1> QED
    BY <1>2, <1>3 DEF Listed, With

\* M is L and r behind it.
IsLast(L, M, k, r) ==
  r \notin L /\ M = L \cup {r} /\ k[r] \in Int /\ \A p \in L : k[p] < k[r]

\* q2 is q with one more item.
Received(q, q2, item) == q2 = Append(q, item)

LEMMA ListedAdded ==
  ASSUME NEW L, NEW k, Ordered(L, k), NEW r, NEW M, NEW k2, IsLast(L, M, k2, r),
         NEW m, NEW m2, Alike(L, k, k2, m, m2)
  PROVE  Received(Listed(L, k, m), Listed(M, k2, m2), Item(m2, r))
  <1>00. M = L \cup {r}
    BY DEF IsLast
  <1>0. /\ (\A p \in M : k2[p] \in Int) /\ Agree(L, k, k2)
        /\ \A p \in L : Item(m2, p) = Item(m, p)
        /\ \A p \in L : k2[p] < k2[r]
        /\ r \notin L
    BY <1>00 DEF Alike, IsLast
  <1>1. /\ Ordered(M, k2) /\ Cardinality(M) = Cardinality(L) + 1
        /\ Ranked(M, k2, Cardinality(M)) = r
        /\ \A i \in 1 .. Cardinality(L) : Ranked(M, k2, i) = Ranked(L, k, i)
    BY <1>00, <1>0, AddedRank
  <1>2. Cardinality(L) \in Nat /\ \A i \in 1 .. Cardinality(L) : Ranked(L, k, i) \in L
    BY RankedFacts
  <1>3. PICK n \in Nat : n = Cardinality(L)
    BY <1>2
  <1>4. PICK q : q = Listed(L, k, m)
    OBVIOUS
  <1>5. Len(q) = n /\ \A i \in 1 .. n : q[i] = Item(m, Ranked(L, k, i))
    BY <1>3, <1>4, ListedFacts
  <1>6. ASSUME NEW i \in 1 .. (n + 1)
        PROVE  Item(m2, Ranked(M, k2, i)) = IF i = n + 1 THEN Item(m2, r) ELSE q[i]
    <2>1. CASE i = n + 1
      BY <2>1, <1>1, <1>3
    <2>2. CASE i # n + 1
      <3>1. i \in 1 .. n
        BY <2>2
      <3>2. Ranked(M, k2, i) = Ranked(L, k, i) /\ Ranked(L, k, i) \in L
        BY <3>1, <1>1, <1>2, <1>3
      <3> QED
        BY <3>1, <3>2, <2>2, <1>0, <1>5
    <2> QED
      BY <2>1, <2>2
  <1>7. Listed(M, k2, m2) = [i \in 1 .. (n + 1) |-> IF i = n + 1 THEN Item(m2, r) ELSE q[i]]
    BY <1>1, <1>3, <1>6 DEF Listed
  <1>8. Append(q, Item(m2, r)) = [i \in 1 .. (n + 1) |-> IF i = n + 1 THEN Item(m2, r) ELSE q[i]]
    <2>1. q \in Seq(Items(L, m))
      BY <1>4, ListedFacts
    <2>2. PICK S : S = Items(L, m) \cup {Item(m2, r)}
      OBVIOUS
    <2>3. q \in Seq(S) /\ Item(m2, r) \in S
      BY <2>1, <2>2, SeqMonotonic
    <2>4. PICK a : a = Append(q, Item(m2, r))
      OBVIOUS
    <2>5. a \in Seq(S) /\ Len(a) = n + 1 /\ (\A i \in 1 .. n : a[i] = q[i]) /\ a[n + 1] = Item(m2, r)
      BY <1>5, <2>3, <2>4, AppendProperties
    <2>6. a \in [1 .. (n + 1) -> S]
      BY <2>5, LenProperties
    <2>7. \A i \in 1 .. (n + 1) : a[i] = IF i = n + 1 THEN Item(m2, r) ELSE q[i]
      BY <2>5
    <2> QED
      BY <2>4, <2>6, <2>7
  <1> QED
    BY <1>4, <1>7, <1>8 DEF Received

Without(q, j) == SubSeq(q, 1, j - 1) \o SubSeq(q, j + 1, Len(q))

LEMMA ListedRemoved ==
  ASSUME NEW L, NEW k, Ordered(L, k), NEW x \in L,
         NEW k2, NEW m, NEW m2, Alike(L \ {x}, k, k2, m, m2)
  PROVE  Listed(L \ {x}, k2, m2) = Without(Listed(L, k, m), Rank(L, k, x))
  <1>0. PICK M, q, j : M = L \ {x} /\ q = Listed(L, k, m) /\ j = Rank(L, k, x)
    OBVIOUS
  <1>14. (\A p \in M : k2[p] \in Int) /\ Agree(M, k, k2) /\ \A p \in M : Item(m2, p) = Item(m, p)
    BY <1>0 DEF Alike
  <1>1. /\ Ordered(M, k2) /\ Cardinality(M) = Cardinality(L) - 1
        /\ \A i \in 1 .. Cardinality(M) : Ranked(M, k2, i) = Ranked(L, k, IF i < j THEN i ELSE i + 1)
    BY <1>0, <1>14, RemovedRank
  <1>2. PICK n \in Nat : n = Cardinality(L)
    BY RankedFacts
  <1>3. j \in 1 .. n
    BY <1>0, <1>2, RankedFacts
  <1> DEFINE S == Items(L, m)
             a == SubSeq(q, 1, j - 1)
             b == SubSeq(q, j + 1, n)
             s == Listed(M, k2, m2)
  <1>4. q \in Seq(S) /\ Len(q) = n /\ \A i \in 1 .. n : q[i] = Item(m, Ranked(L, k, i))
    <2>1. q \in Seq(S) /\ Len(q) = Cardinality(L)
          /\ \A i \in 1 .. Cardinality(L) : q[i] = Item(m, Ranked(L, k, i))
      BY <1>0, ListedFacts
    <2> HIDE DEF S, s, a, b
    <2> QED
      BY <1>2, <2>1
  <1>5. \A i \in 1 .. n : q[i] \in S
    BY <1>4, ElementOfSeq
  <1>6. /\ a \in Seq(S) /\ Len(a) = j - 1
        /\ \A i \in 1 .. (j - 1) : a[i] = q[i]
    <2> HIDE DEF S
    <2>1. \A i \in 1 .. (j - 1) : q[i] \in S
      BY <1>3, <1>5
    <2>2. /\ a \in Seq(S) /\ Len(a) = IF 1 <= j - 1 THEN (j - 1) - 1 + 1 ELSE 0
          /\ \A i \in 1 .. ((j - 1) - 1 + 1) : a[i] = q[1 + i - 1]
      BY <2>1, <1>3, SubSeqProperties
    <2> HIDE DEF a
    <2> QED
      BY <2>2, <1>3
  <1>7. /\ b \in Seq(S) /\ Len(b) = n - j
        /\ \A i \in 1 .. (n - j) : b[i] = q[j + i]
    <2> HIDE DEF S
    <2>1. \A i \in (j + 1) .. n : q[i] \in S
      BY <1>3, <1>5
    <2>2. /\ b \in Seq(S) /\ Len(b) = IF j + 1 <= n THEN n - (j + 1) + 1 ELSE 0
          /\ \A i \in 1 .. (n - (j + 1) + 1) : b[i] = q[(j + 1) + i - 1]
      BY <2>1, <1>3, SubSeqProperties
    <2> HIDE DEF b
    <2> QED
      BY <2>2, <1>3
  <1>8. /\ a \o b \in Seq(S) /\ Len(a \o b) = n - 1
        /\ \A i \in 1 .. (n - 1) : (a \o b)[i] = IF i < j THEN q[i] ELSE q[i + 1]
    <2> HIDE DEF S, a, b
    <2>1. /\ a \o b \in Seq(S) /\ Len(a \o b) = Len(a) + Len(b)
          /\ \A i \in 1 .. (Len(a) + Len(b)) : (a \o b)[i] = IF i <= Len(a) THEN a[i] ELSE b[i - Len(a)]
      BY <1>6, <1>7, ConcatProperties
    <2>2. Len(a) + Len(b) = n - 1
      BY <1>3, <1>6, <1>7
    <2>3. ASSUME NEW i \in 1 .. (n - 1)
          PROVE  (a \o b)[i] = IF i < j THEN q[i] ELSE q[i + 1]
      <3>1. CASE i < j
        BY <3>1, <2>1, <2>2, <1>3, <1>6
      <3>2. CASE ~ (i < j)
        <4>1. i - (j - 1) \in 1 .. (n - j) /\ j + (i - (j - 1)) = i + 1
          BY <3>2, <1>3
        <4>2. (a \o b)[i] = b[i - (j - 1)]
          BY <3>2, <2>1, <2>2, <1>3, <1>6
        <4>3. b[i - (j - 1)] = q[i + 1]
          BY <4>1, <1>7
        <4> QED
          BY <4>2, <4>3, <3>2
      <3> QED
        BY <3>1, <3>2
    <2> QED
      BY <2>1, <2>2, <2>3
  <1>9. ASSUME NEW i \in 1 .. (n - 1)
        PROVE  Item(m2, Ranked(M, k2, i)) = IF i < j THEN q[i] ELSE q[i + 1]
    <2>1. PICK l \in 1 .. n : l = IF i < j THEN i ELSE i + 1
      OBVIOUS
    <2>2. Ranked(M, k2, i) = Ranked(L, k, l) /\ Ranked(M, k2, i) \in M
      BY <2>1, <1>1, <1>2, RankedFacts
    <2> QED
      BY <2>1, <2>2, <1>4, <1>14
  <1>10. /\ s \in Seq(Items(M, m2)) /\ Len(s) = n - 1
         /\ \A i \in 1 .. (n - 1) : s[i] = Item(m2, Ranked(M, k2, i))
    <2>1. Ordered(M, k2) /\ Cardinality(M) = n - 1
      BY <1>1, <1>2
    <2>2. s \in Seq(Items(M, m2)) /\ Len(s) = Cardinality(M)
          /\ \A i \in 1 .. Cardinality(M) : s[i] = Item(m2, Ranked(M, k2, i))
      BY <2>1, ListedFacts
    <2> HIDE DEF S, s, a, b
    <2> QED
      BY <2>1, <2>2
  <1>11. s \in Seq(S)
    <2>1. Items(M, m2) \subseteq S
      BY <1>0, <1>14 DEF Items
    <2> HIDE DEF S, s
    <2> QED
      BY <2>1, <1>10, SeqMonotonic
  <1>12. \A i \in 1 .. (n - 1) : s[i] = (a \o b)[i]
    <2> HIDE DEF S, s, a, b
    <2> QED
      BY <1>8, <1>9, <1>10
  <1>13. s = a \o b
    <2> HIDE DEF S, s, a, b
    <2> QED
      BY <1>8, <1>10, <1>11, <1>12, SeqEqual
  <1> QED
    BY <1>0, <1>4, <1>13 DEF Without

\* The first member leaves.
IsFirst(L, k, x) == x \in L /\ \A p \in L : k[x] <= k[p]

\* q2 is q without its first item.
Sent(q, q2, item) == q # << >> /\ Head(q) = item /\ q2 = Tail(q)

LEMMA ListedSent ==
  ASSUME NEW L, NEW k, Ordered(L, k), NEW x, IsFirst(L, k, x),
         NEW k2, NEW m, NEW m2, Alike(L \ {x}, k, k2, m, m2)
  PROVE  Sent(Listed(L, k, m), Listed(L \ {x}, k2, m2), Item(m, x))
  <1>0. PICK q : q = Listed(L, k, m) /\ x \in L
    BY DEF IsFirst
  <1>1. UpTo(L, k, x) = {x}
    BY DEF UpTo, Ordered, IsFirst
  <1>2. Rank(L, k, x) = 1
    BY <1>1, FS_Singleton DEF Rank
  <1> DEFINE S == Items(L, m)
  <1>3. /\ q \in Seq(S) /\ Len(q) \in Nat /\ Len(q) >= 1 /\ q[1] = Item(m, x)
    <2> HIDE DEF S
    <2>1. q \in Seq(S) /\ Len(q) = Cardinality(L) /\ q[Rank(L, k, x)] = Item(m, x)
      BY <1>0, ListedFacts DEF S
    <2> QED
      BY <2>1, <1>0, <1>2, RankedFacts
  <1>4. Listed(L \ {x}, k2, m2) = SubSeq(q, 1, 0) \o SubSeq(q, 2, Len(q))
    <2>1. PICK j : j = Rank(L, k, x) /\ j = 1
      BY <1>2
    <2>2. Listed(L \ {x}, k2, m2) = Without(Listed(L, k, m), Rank(L, k, x))
      BY <1>0, ListedRemoved
    <2>3. j - 1 = 0 /\ j + 1 = 2
      BY <2>1
    <2> QED
      BY <1>0, <2>1, <2>2, <2>3 DEF Without
  <1> HIDE DEF S
  <1>5. q # << >> /\ Head(q) = q[1] /\ Tail(q) = SubSeq(q, 2, Len(q)) /\ Tail(q) \in Seq(S)
    BY <1>3, EmptySeq, TailIsSubSeq, HeadTailProperties
  <1>6. SubSeq(q, 1, 0) = << >>
    BY SubSeqEmpty
  <1>7. << >> \o Tail(q) = Tail(q)
    BY <1>5, ConcatEmptySeq
  <1> QED
    BY <1>0, <1>3, <1>4, <1>5, <1>6, <1>7 DEF Sent

-----------------------------------------------------------------------------
(* The queue is the list of the live entries of the chain.                 *)

Key == [s \in Slots |-> Offset(s)]

\* Every slot before the writer belongs to an entry.
LEMMA CoverFacts ==
  ASSUME RingTypeOK, NEW E \in SUBSET Headers, Chain(E),
         NEW t \in Slots, Offset(t) < Offset(NextWriter)
  PROVE  \E p \in E : Offset(p) <= Offset(t) /\ Offset(t) < Offset(following(p))
  <1>1. E \subseteq Slots /\ \A s \in Slots : Offset(s) \in Int /\ 0 <= Offset(s)
    BY OffsetFacts DEF Headers
  <1>2. OutputReader \in E /\ Offset(OutputReader) = 0
    BY <1>1, OffsetFacts DEF Chain
  <1> DEFINE Q == {q \in E : Offset(q) <= Offset(t)}
             S == {Offset(t) - Offset(p) : p \in Q}
  <1>3. S \in SUBSET Nat
    <2> SUFFICES ASSUME NEW p \in Q PROVE Offset(t) - Offset(p) \in Nat
      OBVIOUS
    <2> QED
      BY <1>1
  <1>4. S # {}
    BY <1>1, <1>2
  <1>5. PICK m \in S : \A n \in S : m <= n
    BY <1>3, <1>4, LeastNumber
  <1>6. PICK p \in E : Offset(p) <= Offset(t) /\ m = Offset(t) - Offset(p)
    BY <1>5
  <1>7. CASE following(p) = NextWriter
    BY <1>6, <1>7
  <1>8. CASE following(p) \in E
    <2>1. Offset(p) < Offset(following(p))
      BY EntryFacts
    <2>2. ASSUME Offset(following(p)) <= Offset(t) PROVE FALSE
      <3>1. Offset(t) - Offset(following(p)) \in S
        BY <1>8, <2>2
      <3> QED
        BY <3>1, <2>1, <1>1, <1>5, <1>6, <1>8
    <2> QED
      BY <2>2, <1>1, <1>6, <1>8
  <1> QED
    BY <1>7, <1>8, EntryFacts

\* A header before the writer that is not behind the StartOver is an entry.
LEMMA EntriesFacts ==
  ASSUME RingTypeOK, NEW E \in SUBSET Headers, Chain(E)
  PROVE  Entries = E
  <1>1. /\ E \subseteq Slots /\ End \in Nat /\ OutputReader \in Slots /\ NextWriter \in Slots
        /\ \A s \in Slots : s \in Int
    BY OffsetFacts, SlotsFacts DEF Headers
  <1>2. ASSUME NEW t \in Slots, Offset(t) < Offset(NextWriter), mem[t].flag # "Data", t \notin E
        PROVE  \E q \in E : /\ mem[q].flag = "StartOver" /\ following(q) = 0
                            /\ OutputReader <= q /\ q < t /\ 0 < OutputReader
                            /\ Offset(q) < Offset(t) /\ Offset(t) < Offset(0)
    <2>1. PICK q \in E : Offset(q) <= Offset(t) /\ Offset(t) < Offset(following(q))
      BY <1>2, CoverFacts
    <2>2. q # t /\ q \in Slots
      BY <1>1, <1>2
    <2>3. Offset(q) < Offset(t)
      BY <1>2, <2>1, <2>2, OffsetFacts
    <2>4. CASE mem[q].flag # "StartOver"
      <3>1. /\ following(q) = packetEnd(q) /\ packetEnd(q) \in Slots /\ q < packetEnd(q)
            /\ \A s \in (q + 1) .. (packetEnd(q) - 1) : mem[s] = Data(q)
        BY <2>4, EntryWords
      <3>2. t \in (q + 1) .. (packetEnd(q) - 1)
        BY <3>1, <2>1, <2>2, <2>3, <1>1, SlotsFacts DEF Offset
      <3> QED
        BY <3>1, <3>2, <1>2 DEF Data
    <2>5. CASE mem[q].flag = "StartOver"
      <3>1. NextWriter < OutputReader /\ OutputReader <= q /\ following(q) = 0
        BY <2>5 DEF Chain, following
      <3>2. q < t /\ 0 < OutputReader
        BY <3>1, <2>1, <2>2, <2>3, <1>1, SlotsFacts DEF Offset
      <3> QED
        BY <3>1, <3>2, <2>1, <2>3, <2>5
    <2> QED
      BY <2>4, <2>5
  <1>3. ASSUME NEW p \in E, NEW t \in OutputReader .. (p - 1), mem[t].flag = "StartOver"
        PROVE  FALSE
    <2>1. /\ p \in Slots /\ t \in Slots /\ OutputReader <= t /\ t < p
          /\ Offset(t) < Offset(p) /\ Offset(p) < Offset(NextWriter)
      <3>1. p \in Slots /\ t \in Int /\ OutputReader <= t /\ t < p
        BY <1>1
      <3>2. t \in Slots
        BY <3>1, <1>1, SlotsFacts
      <3>3. Offset(p) < Offset(NextWriter)
        BY DEF Chain
      <3> QED
        BY <3>1, <3>2, <3>3, <1>1 DEF Offset
    <2>2. PICK q \in E : /\ mem[q].flag = "StartOver" /\ following(q) = 0
                         /\ OutputReader <= q /\ q < p /\ 0 < OutputReader
                         /\ Offset(q) < Offset(p)
      <3>1. CASE t \in E
        <4>1. NextWriter < OutputReader /\ following(t) = 0
          BY <1>3, <3>1 DEF Chain, following
        <4> QED
          BY <4>1, <3>1, <2>1, <1>1, <1>3, SlotsFacts
      <3>2. CASE t \notin E
        <4>1. Offset(t) < Offset(NextWriter) /\ mem[t].flag # "Data"
          BY <2>1, <1>1, <1>3, OffsetFacts
        <4>2. PICK q \in E : /\ mem[q].flag = "StartOver" /\ following(q) = 0
                             /\ OutputReader <= q /\ q < t /\ 0 < OutputReader
                             /\ Offset(q) < Offset(t)
          BY <4>1, <3>2, <2>1, <1>2
        <4> QED
          BY <4>2, <2>1, <1>1, OffsetFacts
      <3> QED
        BY <3>1, <3>2
    <2>3. Offset(p) >= Offset(0)
      BY <2>1, <2>2, <1>1, EntryFacts, OffsetFacts
    <2> QED
      BY <2>1, <2>2, <2>3, <1>1, SlotsFacts DEF Offset
  <1>4. E \subseteq Entries
    BY <1>3, EntryFacts DEF Entries, Chain
  <1>5. Entries \subseteq E
    <2> SUFFICES ASSUME NEW s \in Entries, s \notin E PROVE FALSE
      OBVIOUS
    <2>1. /\ s \in Slots /\ mem[s].flag # "Data" /\ Offset(s) < Offset(NextWriter)
          /\ \A t \in OutputReader .. (s - 1) : mem[t].flag # "StartOver"
      BY DEF Entries, Headers
    <2>2. PICK q \in E : mem[q].flag = "StartOver" /\ OutputReader <= q /\ q < s
      BY <2>1, <1>2
    <2>3. q \in OutputReader .. (s - 1)
      BY <2>1, <2>2, <1>1
    <2> QED
      BY <2>1, <2>2, <2>3
  <1> QED
    BY <1>4, <1>5

LEMMA SlotsOrdered ==
  ASSUME RingTypeOK, NEW L \in SUBSET Slots
  PROVE  Ordered(L, Key) /\ \A s \in Slots : Key[s] = Offset(s)
  <1>1. IsFiniteSet(Slots)
    BY EndAssumption, FS_Interval DEF Slots
  <1>2. IsFiniteSet(L)
    BY <1>1, FS_Subset
  <1> QED
    BY <1>2, OffsetFacts DEF Ordered, Key

LEMMA QueueListed ==
  ASSUME RingTypeOK, NEW L \in SUBSET Slots
  PROVE  QueueOf(L) = Listed(L, Key, mem)
  <1>1. Ordered(L, Key) /\ \A s \in Slots : Key[s] = Offset(s)
    BY SlotsOrdered
  <1>2. ASSUME NEW p \in L PROVE Place(L, p) = Rank(L, Key, p)
    <2>1. {q \in L : Offset(q) <= Offset(p)} = UpTo(L, Key, p)
      BY <1>1 DEF UpTo
    <2> QED
      BY <2>1 DEF Place, Rank
  <1>3. ASSUME NEW i \in 1 .. Cardinality(L) PROVE At(L, i) = Ranked(L, Key, i)
    <2>1. Ranked(L, Key, i) \in L /\ Rank(L, Key, Ranked(L, Key, i)) = i
      BY <1>1, RankedFacts
    <2>2. At(L, i) \in L /\ Place(L, At(L, i)) = i
      BY <2>1, <1>2 DEF At
    <2> QED
      BY <2>1, <2>2, <1>1, <1>2, RankSame
  <1> QED
    BY <1>3 DEF QueueOf, Listed, Item

\* The mapping of the refinement, of every chain the ring may hold.
Queued ==
  RingTypeOK => \A E \in SUBSET Headers :
                  Chain(E) => /\ Contents = Listed(Live(E), Key, mem)
                              /\ \A L \in SUBSET Slots : Ordered(L, Key)
                              /\ \A s \in Slots : Key[s] = Offset(s)
                              /\ E \subseteq Slots

LEMMA QueuedHolds == Queued
  <1> SUFFICES ASSUME RingTypeOK, NEW E \in SUBSET Headers, Chain(E)
               PROVE  /\ Contents = Listed(Live(E), Key, mem)
                      /\ \A L \in SUBSET Slots : Ordered(L, Key)
                      /\ \A s \in Slots : Key[s] = Offset(s)
                      /\ E \subseteq Slots
    BY DEF Queued
  <1>1. Entries = E
    BY EntriesFacts
  <1>2. E \subseteq Slots /\ Live(E) \in SUBSET Slots
    BY DEF Headers, Live
  <1>3. QueueOf(Live(E)) = Listed(Live(E), Key, mem)
    BY <1>2, QueueListed
  <1>4. Contents = QueueOf(Live(E))
    BY <1>1 DEF Contents
  <1> QED
    BY <1>2, <1>3, <1>4, SlotsOrdered

LEMMA ChainsQueued ==
  ASSUME RingTypeOK, NEW E \in SUBSET Headers, Chain(E),
         RingTypeOK', NEW G \in SUBSET Headers', Chain(G)'
  PROVE  /\ Contents = Listed(Live(E), Key, mem) /\ Ordered(Live(E), Key)
         /\ \A s \in Slots : Key[s] = Offset(s)
         /\ E \subseteq Slots /\ Live(E) = {p \in E : mem[p].flag \notin PassedByOutput}
         /\ Contents' = Listed(Live(G)', Key', mem') /\ Ordered(Live(G)', Key')
         /\ \A s \in Slots : Key'[s] = Offset(s)'
         /\ G \subseteq Slots /\ Live(G)' = {p \in G : mem'[p].flag \notin PassedByOutput}
  <1>1. Live(E) = {p \in E : mem[p].flag \notin PassedByOutput}
    BY DEF Live
  <1>2. Live(G)' = {p \in G : mem'[p].flag \notin PassedByOutput}
    BY DEF Live, PassedByOutput
  <1>3. /\ Contents = Listed(Live(E), Key, mem) /\ \A L \in SUBSET Slots : Ordered(L, Key)
        /\ \A s \in Slots : Key[s] = Offset(s)
        /\ E \subseteq Slots
    BY QueuedHolds DEF Queued
  <1>4. Queued'
    BY QueuedHolds, PTL
  <1>5. /\ Contents' = Listed(Live(G)', Key', mem') /\ \A L \in SUBSET Slots : Ordered(L, Key')
        /\ \A s \in Slots : Key'[s] = Offset(s)'
        /\ G \subseteq Slots
    BY <1>4 DEF Queued, Slots, Listed, Item, kindOf
  <1>6. Live(E) \in SUBSET Slots /\ Live(G)' \in SUBSET Slots
    BY <1>1, <1>2, <1>3, <1>5
  <1> QED
    BY <1>1, <1>2, <1>3, <1>5, <1>6

\* The kind of packet each flag stands for.
LEMMA KindFacts ==
  ASSUME NEW m, NEW p
  PROVE  /\ m[p].flag = "EndOfRing" => Item(m, p).kind = "unfinished"
         /\ m[p].flag = "Input"     => Item(m, p).kind = "in"
         /\ m[p].flag = "Output"    => Item(m, p).kind = "out"
         /\ Item(m, p).len = m[p].val
         /\ Item(m, p) = [kind |-> Item(m, p).kind, len |-> Item(m, p).len]
  BY DEF Item, kindOf

-----------------------------------------------------------------------------
(* The calls that leave the queue alone.                                   *)

\* Readers that pass only entries that are skipped.
LEMMA ReadersQueue ==
  ASSUME RingTypeOK, NEW E \in SUBSET Headers, Chain(E), ReadersStep(E),
         \A q \in E : mem[q].flag \notin PassedByOutput => Offset(OutputReader') <= Offset(q)
  PROVE  Contents' = Contents
  <1>1. PICK F \in SUBSET E : F = {q \in E : Offset(q) >= Offset(OutputReader')}
    OBVIOUS
  <1>2. /\ F \in SUBSET Headers' /\ Chain(F)'
        /\ OutputReader' \in Slots /\ InputReader' \in Slots
        /\ \A q \in F : Offset(q)' = Offset(q) - Offset(OutputReader')
    BY <1>1, ReadersLeave
  <1>3. UNCHANGED <<mem, NextWriter, aborted>> /\ RingTypeOK'
    BY <1>2 DEF ReadersStep, RingTypeOK
  <1>4. /\ Contents = Listed(Live(E), Key, mem) /\ Ordered(Live(E), Key)
        /\ \A s \in Slots : Key[s] = Offset(s)
        /\ E \subseteq Slots /\ Live(E) = {p \in E : mem[p].flag \notin PassedByOutput}
        /\ Contents' = Listed(Live(F)', Key', mem')
        /\ \A s \in Slots : Key'[s] = Offset(s)'
        /\ Live(F)' = {p \in F : mem'[p].flag \notin PassedByOutput}
    BY <1>2, <1>3, ChainsQueued
  <1>5. Live(F)' = Live(E)
    <2>1. \A s \in Slots : Offset(s) \in Int
      BY OffsetFacts
    <2>2. \A q \in E : mem[q].flag \notin PassedByOutput => q \in F
      BY <2>1, <1>1, <1>2, <1>4
    <2> QED
      BY <2>2, <1>3, <1>4
  <1>6. Alike(Live(E), Key, Key', mem, mem')
    <2>1. \A p \in Live(E) : p \in F /\ p \in Slots
      BY <1>4, <1>5
    <2>2. \A p \in Live(E) : Key'[p] = Key[p] - Offset(OutputReader')
      BY <2>1, <1>2, <1>4
    <2>3. Offset(OutputReader') \in Int /\ \A p \in Live(E) : Key[p] \in Int
      BY <2>1, <1>2, <1>4, OffsetFacts
    <2>4. (\A p \in Live(E) : Key'[p] \in Int) /\ Agree(Live(E), Key, Key')
      BY <2>2, <2>3 DEF Agree
    <2> QED
      BY <2>4, <1>3 DEF Alike
  <1>7. Contents' = Listed(Live(E), Key', mem')
    BY <1>4, <1>5
  <1>8. Listed(Live(E), Key', mem') = Listed(Live(E), Key, mem)
    BY <1>4, <1>6, ListedSame
  <1> QED
    BY <1>4, <1>7, <1>8

LEMMA NothingQueue ==
  ASSUME UNCHANGED <<mem, NextWriter, OutputReader>>
  PROVE  Contents' = Contents
  BY DEF Contents, Entries, Live, QueueOf, At, Place, Offset, Headers

LEMMA GetQueue ==
  ASSUME TypeOK, NEW E \in SUBSET Headers, Whole(E), GetInput \/ GetOutput
  PROVE  Contents' = Contents
  <1>1. RingTypeOK /\ Chain(E) /\ InputAhead(E)
    BY DEF TypeOK, Whole
  <1>2. CASE GetInput
    BY <1>1, <1>2, GetInputMoves, ReadersQueue DEF GetInput
  <1>3. CASE GetOutput
    BY <1>1, <1>3, GetOutputMoves, ReadersQueue DEF GetOutput
  <1> QED
    BY <1>2, <1>3

-----------------------------------------------------------------------------
(* The calls that change one packet.                                       *)

\* x and no other of the entries E is changed; readers skip what is new in G.
Changes(E, G, x) ==
  /\ E \subseteq G /\ \A q \in G \ E : mem'[q].flag = "Skip"
  /\ \A q \in E \ {x} : mem'[q] = mem[q]
  /\ mem[x].flag \notin PassedByOutput /\ mem'[x].flag \notin PassedByOutput

LEMMA ChangedQueue ==
  ASSUME RingTypeOK, NEW E \in SUBSET Headers, Chain(E),
         RingTypeOK', NEW G \in SUBSET Headers', Chain(G)',
         UNCHANGED OutputReader, NEW x \in E, Changes(E, G, x)
  PROVE  \E i \in DOMAIN Contents :
           /\ Contents[i] = Item(mem, x) /\ i = Rank(Live(E), Key, x)
           /\ Contents' = [Contents EXCEPT ![i] = Item(mem', x)]
  <1>1. /\ Contents = Listed(Live(E), Key, mem) /\ Ordered(Live(E), Key)
        /\ Live(E) = {p \in E : mem[p].flag \notin PassedByOutput}
        /\ Contents' = Listed(Live(G)', Key', mem')
        /\ Live(G)' = {p \in G : mem'[p].flag \notin PassedByOutput}
    BY ChainsQueued
  <1>2. Key' = Key
    BY DEF Key, Offset, Slots
  <1>3. Live(G)' = Live(E) /\ x \in Live(E)
    <2>1. \A q \in G \ E : mem'[q].flag \in PassedByOutput
      BY DEF PassedByOutput, Changes
    <2> QED
      BY <2>1, <1>1 DEF Changes
  <1>4. OnlyChanges(Live(E), x, mem, mem')
    BY <1>1 DEF OnlyChanges, Item, Changes
  <1>5. /\ DOMAIN Contents = 1 .. Cardinality(Live(E))
        /\ Rank(Live(E), Key, x) \in 1 .. Cardinality(Live(E))
        /\ Contents[Rank(Live(E), Key, x)] = Item(mem, x)
    BY <1>1, <1>3, ListedFacts, RankedFacts
  <1>6. Contents' = Listed(Live(E), Key, mem')
    BY <1>1, <1>2, <1>3
  <1>7. Listed(Live(E), Key, mem') =
          With(Listed(Live(E), Key, mem), Rank(Live(E), Key, x), Item(mem', x))
    BY <1>1, <1>3, <1>4, ListedChanged
  <1> QED
    BY <1>1, <1>5, <1>6, <1>7 DEF With

LEMMA PutQueue ==
  ASSUME TypeOK, TypeOK', NEW E \in SUBSET Headers, Whole(E),
         NEW p \in unfinished, PutInput(p) \/ PutOutput(p)
  PROVE  Promise!Next
  <1>1. p \in E /\ mem[p].flag = "EndOfRing" /\ RingTypeOK /\ RingTypeOK' /\ Chain(E) /\ InputAhead(E)
        /\ E \subseteq Slots
    BY DEF Whole, HeldIn, TypeOK, Headers
  <1>2. PICK f \in {"Input", "Output"} : SetFlag(p, f)
    BY <1>1 DEF PutInput, PutOutput, Packet_PutInput, Packet_PutOutput
  <1>3. /\ UNCHANGED OutputReader
        /\ mem' = [mem EXCEPT ![p].flag = f]
        /\ E \in SUBSET Headers' /\ Chain(E)'
    BY <1>1, <1>2, PutMoves
  <1>4. /\ \A q \in E \ {p} : mem'[q] = mem[q]
        /\ mem'[p].flag = f /\ mem'[p].val = mem[p].val
    BY <1>1, <1>3 DEF RingTypeOK, Word
  <1>5. Changes(E, E, p)
    BY <1>1, <1>4 DEF Changes, PassedByOutput
  <1>6. PICK i \in DOMAIN Contents :
          /\ Contents[i] = Item(mem, p)
          /\ Contents' = [Contents EXCEPT ![i] = Item(mem', p)]
    BY <1>1, <1>3, <1>5, ChangedQueue
  <1>7. PICK kind \in {"in", "out"} : Item(mem', p) = [Item(mem, p) EXCEPT !.kind = kind]
    BY <1>4 DEF Item, kindOf
  <1>8. Contents[i].kind = "unfinished" /\ Contents' = [Contents EXCEPT ![i].kind = kind]
    BY <1>1, <1>6, <1>7, KindFacts
  <1> QED
    BY <1>6, <1>8 DEF Promise!Next, Promise!Finish

\* Resizing a packet in its place.
LEMMA ResizedQueue ==
  ASSUME TypeOK, TypeOK', NEW E \in SUBSET Headers, Whole(E),
         NEW p \in unfinished, NEW len \in Lens, Resized(E, p, len)
  PROVE  Promise!Next
  <1>1. p \in E /\ mem[p].flag = "EndOfRing" /\ RingTypeOK /\ RingTypeOK' /\ Chain(E)
    BY DEF Whole, HeldIn, TypeOK
  <1>2. PICK G \in SUBSET Headers' : /\ E \subseteq G /\ Chain(G)'
                                     /\ \A q \in G \ E : mem'[q].flag = "Skip"
    BY DEF Resized
  <1>3. /\ UNCHANGED OutputReader /\ mem'[p] = Unfinished(len)
        /\ \A q \in E \ {p} : mem'[q] = mem[q]
    BY DEF Resized
  <1>4. Changes(E, G, p)
    BY <1>1, <1>2, <1>3 DEF Changes, PassedByOutput, Unfinished
  <1>5. PICK i \in DOMAIN Contents :
          /\ Contents[i] = Item(mem, p)
          /\ Contents' = [Contents EXCEPT ![i] = Item(mem', p)]
    BY <1>1, <1>2, <1>3, <1>4, ChangedQueue
  <1>6. Item(mem', p) = [Item(mem, p) EXCEPT !.len = len]
    BY <1>1, <1>3 DEF Item, kindOf, Unfinished
  <1>7. Contents[i].kind = "unfinished" /\ Contents' = [Contents EXCEPT ![i].len = len]
    BY <1>1, <1>5, <1>6, KindFacts
  <1> QED
    BY <1>5, <1>7 DEF Promise!Next, Promise!ResizeInPlace

-----------------------------------------------------------------------------
(* The input packet that is next.                                          *)

\* The packets in front of it are output packets.
LEMMA NextInputFacts ==
  ASSUME RingTypeOK, NEW E \in SUBSET Headers, Chain(E), InputAhead(E),
         InputReader \in E, mem[InputReader].flag = "Input",
         NEW i \in DOMAIN Contents, i = Rank(Live(E), Key, InputReader)
  PROVE  Promise!NextInput(i)
  <1>1. /\ Contents = Listed(Live(E), Key, mem) /\ E \subseteq Slots
        /\ \A L \in SUBSET Slots : Ordered(L, Key)
        /\ \A s \in Slots : Key[s] = Offset(s)
    BY QueuedHolds DEF Queued
  <1>2. /\ Live(E) \subseteq E /\ InputReader \in Live(E) /\ Ordered(Live(E), Key)
        /\ \A q \in Live(E) : mem[q].flag \notin PassedByOutput
    <2>1. Live(E) \subseteq E /\ \A q \in Live(E) : mem[q].flag \notin PassedByOutput
      BY DEF Live
    <2> QED
      BY <2>1, <1>1 DEF Live, PassedByOutput
  <1>3. Contents[i].kind = "in"
    BY <1>1, <1>2, ListedFacts, KindFacts
  <1>4. ASSUME NEW j \in 1 .. (i - 1)
        PROVE  Contents[j].kind = "out"
    <2>1. i \in 1 .. Cardinality(Live(E)) /\ Cardinality(Live(E)) \in Nat
      BY <1>2, RankedFacts
    <2>2. j \in 1 .. Cardinality(Live(E)) /\ j < i
      BY <2>1
    <2>3. PICK q \in Live(E) : q = Ranked(Live(E), Key, j) /\ Rank(Live(E), Key, q) = j
      BY <2>2, <1>2, RankedFacts
    <2>4. q \in E /\ q \in Slots /\ InputReader \in Slots /\ Offset(q) \in Int /\ Offset(InputReader) \in Int
      BY <1>1, <1>2, OffsetFacts
    <2>5. ~ (Key[InputReader] < Key[q]) /\ q # InputReader
      BY <2>1, <2>2, <2>3, <1>2, RankGrows
    <2>6. ~ (Offset(InputReader) <= Offset(q))
      BY <2>4, <2>5, <1>1, OffsetFacts
    <2>7. mem[q].flag \notin {"EndOfRing", "Input"}
      BY <2>4, <2>6 DEF InputAhead
    <2>8. mem[q].flag = "Output"
      <3>1. mem[q].flag \in Flags /\ mem[q].flag # "Data"
        BY <2>4, EntryFacts DEF Word
      <3> QED
        BY <3>1, <2>7, <1>2 DEF Flags, PassedByOutput
    <2>9. Contents[j] = Item(mem, q)
      BY <2>3, <1>1, <1>2, ListedFacts
    <2> QED
      BY <2>8, <2>9, KindFacts
  <1> QED
    BY <1>3, <1>4 DEF Promise!NextInput

LEMMA ReattachQueue ==
  ASSUME TypeOK, TypeOK', NEW E \in SUBSET Headers, Whole(E), ReattachOutput
  PROVE  Promise!Next
  <1>1. /\ inPacket = InputReader /\ InputReader \in E /\ mem[InputReader].flag = "Input"
        /\ RingTypeOK /\ RingTypeOK' /\ Chain(E) /\ InputAhead(E) /\ InputReader \in Slots
        /\ Packet_ReattachOutput(InputReader) /\ E \subseteq Slots
    BY DEF Whole, HeldIn, TypeOK, RingTypeOK, ReattachOutput, Headers
  <1>2. /\ UNCHANGED OutputReader
        /\ mem' = [mem EXCEPT ![InputReader].flag = "Output"]
        /\ E \in SUBSET Headers' /\ Chain(E)'
    BY <1>1, ReattachMoves
  <1>3. /\ \A q \in E \ {InputReader} : mem'[q] = mem[q]
        /\ mem'[InputReader].flag = "Output" /\ mem'[InputReader].val = mem[InputReader].val
    BY <1>1, <1>2 DEF RingTypeOK, Word
  <1>4. Changes(E, E, InputReader)
    BY <1>1, <1>3 DEF Changes, PassedByOutput
  <1>5. PICK i \in DOMAIN Contents :
          /\ Contents[i] = Item(mem, InputReader) /\ i = Rank(Live(E), Key, InputReader)
          /\ Contents' = [Contents EXCEPT ![i] = Item(mem', InputReader)]
    BY <1>1, <1>2, <1>4, ChangedQueue
  <1>6. Item(mem', InputReader) = [Item(mem, InputReader) EXCEPT !.kind = "out"]
    BY <1>3 DEF Item, kindOf
  <1>7. Contents' = [Contents EXCEPT ![i].kind = "out"]
    BY <1>5, <1>6
  <1>8. Promise!NextInput(i)
    BY <1>1, <1>5, NextInputFacts
  <1> QED
    BY <1>5, <1>7, <1>8 DEF Promise!Next, Promise!Resend

-----------------------------------------------------------------------------
(* Packets that leave.                                                     *)

\* The entry x leaves or is skipped from now on; the others keep their order.
Leaves(E, G, x) ==
  /\ G \subseteq E /\ x \in E
  /\ mem[x].flag \notin PassedByOutput
  /\ x \in G => mem'[x].flag \in PassedByOutput
  /\ \A q \in E \ {x} : /\ mem'[q] = mem[q]
                        /\ q \in G \/ mem[q].flag \in PassedByOutput
  /\ \E d \in Int : \A q \in G : Offset(q)' = Offset(q) - d

LEMMA LeftQueue ==
  ASSUME RingTypeOK, NEW E \in SUBSET Headers, Chain(E),
         RingTypeOK', NEW G \in SUBSET Headers', Chain(G)',
         NEW x \in E, Leaves(E, G, x)
  PROVE  /\ x \in Live(E) /\ Contents = Listed(Live(E), Key, mem)
         /\ Contents' = Listed(Live(E) \ {x}, Key', mem')
         /\ Alike(Live(E) \ {x}, Key, Key', mem, mem')
  <1>1. /\ Contents = Listed(Live(E), Key, mem)
        /\ \A s \in Slots : Key[s] = Offset(s) /\ Offset(s) \in Int
        /\ E \subseteq Slots /\ Live(E) = {p \in E : mem[p].flag \notin PassedByOutput}
        /\ Contents' = Listed(Live(G)', Key', mem')
        /\ \A s \in Slots : Key'[s] = Offset(s)'
        /\ Live(G)' = {p \in G : mem'[p].flag \notin PassedByOutput}
    BY ChainsQueued, OffsetFacts
  <1>2. Live(G)' = Live(E) \ {x} /\ x \in Live(E)
    BY <1>1 DEF Leaves
  <1>3. PICK d \in Int : \A q \in G : Offset(q)' = Offset(q) - d
    BY DEF Leaves
  <1>4. ASSUME NEW q \in Live(E) \ {x}
        PROVE  q \in Slots /\ Key'[q] = Key[q] - d /\ Key[q] \in Int /\ Item(mem', q) = Item(mem, q)
    <2>1. q \in G /\ q \in E /\ q # x /\ q \in Slots /\ Live(G)' \subseteq G
      BY <1>1, <1>2
    <2>2. mem'[q] = mem[q]
      BY <2>1 DEF Leaves
    <2> QED
      BY <2>1, <2>2, <1>1, <1>3 DEF Item
  <1>5. Alike(Live(E) \ {x}, Key, Key', mem, mem')
    <2>1. Agree(Live(E) \ {x}, Key, Key')
      BY <1>4 DEF Agree
    <2> QED
      BY <2>1, <1>4 DEF Alike
  <1>6. Contents' = Listed(Live(E) \ {x}, Key', mem')
    BY <1>1, <1>2
  <1> QED
    BY <1>1, <1>2, <1>5, <1>6

\* The output reader steps from x, the first entry of the chain, to the next.
LEMMA FirstLeaves ==
  ASSUME RingTypeOK, RingTypeOK', NEW E \in SUBSET Headers, Chain(E),
         OutputReader \in E, mem[OutputReader].flag \notin PassedByOutput,
         UNCHANGED <<mem, NextWriter>>,
         OutputReader' \in E \cup {NextWriter}, InputReader' \in E \cup {NextWriter},
         Offset(OutputReader') <= Offset(InputReader'),
         \A q \in E : q # OutputReader <=> Offset(q) >= Offset(OutputReader')
  PROVE  \E G \in SUBSET Headers' : Chain(G)' /\ Leaves(E, G, OutputReader)
  <1>1. PICK F \in SUBSET E : F = {q \in E : Offset(q) >= Offset(OutputReader')}
    OBVIOUS
  <1>2. E \subseteq Slots /\ OutputReader' \in Slots
    BY DEF Headers, RingTypeOK
  <1>3. F \in SUBSET Headers'
    BY <1>1 DEF Headers
  <1>4. Chain(F)'
    BY <1>1, ReadersMove
  <1>5. ASSUME NEW q \in F
        PROVE  Offset(q)' = Offset(q) - Offset(OutputReader')
    <2>1. q \in Slots /\ Offset(q) >= Offset(OutputReader')
      BY <1>1, <1>2
    <2> QED
      BY <2>1, <1>2, SlotsFacts, OffsetFacts DEF Offset
  <1>6. Offset(OutputReader') \in Int
    BY <1>2, OffsetFacts
  <1>7. OutputReader \notin F /\ \A q \in E \ {OutputReader} : q \in F
    BY <1>1
  <1>8. Leaves(E, F, OutputReader)
    BY <1>5, <1>6, <1>7 DEF Leaves
  <1> QED
    BY <1>3, <1>4, <1>8

LEMMA ReleaseOutputQueue ==
  ASSUME TypeOK, TypeOK', NEW E \in SUBSET Headers, Whole(E), ReleaseOutput
  PROVE  Promise!Next
  <1>1. /\ OutputReader \in E /\ mem[OutputReader].flag = "Output"
        /\ RingTypeOK /\ RingTypeOK' /\ Chain(E) /\ InputAhead(E) /\ E \subseteq Slots
        /\ Packet_ReleaseOutput(OutputReader)
    BY DEF Whole, HeldIn, TypeOK, ReleaseOutput, Headers
  <1>2. /\ ReadersStep(E)
        /\ \A q \in E : q # OutputReader <=> Offset(q) >= Offset(OutputReader')
    BY <1>1, ReleaseOutputMoves
  <1>3. PICK G \in SUBSET Headers' : Chain(G)' /\ Leaves(E, G, OutputReader)
    BY <1>1, <1>2, FirstLeaves DEF PassedByOutput, ReadersStep
  <1>4. /\ OutputReader \in Live(E) /\ Contents = Listed(Live(E), Key, mem)
        /\ Contents' = Listed(Live(E) \ {OutputReader}, Key', mem')
        /\ Alike(Live(E) \ {OutputReader}, Key, Key', mem, mem')
    BY <1>1, <1>3, LeftQueue
  <1>5. Ordered(Live(E), Key) /\ IsFirst(Live(E), Key, OutputReader)
    <2>1. Live(E) \in SUBSET Slots
      BY <1>1 DEF Live
    <2> QED
      BY <2>1, <1>1, <1>4, SlotsOrdered, OffsetFacts DEF IsFirst
  <1>6. Sent(Listed(Live(E), Key, mem), Listed(Live(E) \ {OutputReader}, Key', mem'),
             Item(mem, OutputReader))
    BY <1>4, <1>5, ListedSent
  <1>7. Contents # << >> /\ Head(Contents) = Item(mem, OutputReader) /\ Contents' = Tail(Contents)
    BY <1>4, <1>6 DEF Sent
  <1> QED
    BY <1>1, <1>7, KindFacts DEF Promise!Next, Promise!Send

LEMMA ReleaseInputQueue ==
  ASSUME TypeOK, TypeOK', NEW E \in SUBSET Headers, Whole(E), ReleaseInput
  PROVE  Promise!Next
  <1>1. /\ inPacket = InputReader /\ InputReader \in E /\ mem[InputReader].flag = "Input"
        /\ RingTypeOK /\ RingTypeOK' /\ Chain(E) /\ InputAhead(E) /\ InputReader \in Slots
        /\ Packet_ReleaseInput(InputReader) /\ E \subseteq Slots
    BY DEF Whole, HeldIn, TypeOK, RingTypeOK, ReleaseInput, Headers
  <1>2. PICK e : e = packetEnd(InputReader)
    OBVIOUS
  <1>3. /\ e = following(InputReader) /\ e \in Slots /\ e \in E \cup {NextWriter}
        /\ Offset(InputReader) < Offset(e)
        /\ \A q \in E : q # InputReader /\ mem[q].flag \in {"EndOfRing", "Input"} =>
             Offset(e) <= Offset(q)
    BY <1>1, <1>2, InputFollowed
  <1>4. /\ UNCHANGED <<NextWriter, aborted>> /\ InputReader' = e
        /\ IF OutputReader = InputReader
           THEN OutputReader' = e /\ UNCHANGED mem
           ELSE mem' = [mem EXCEPT ![InputReader].flag = "Skip"] /\ UNCHANGED OutputReader
    BY <1>1, <1>2 DEF Packet_ReleaseInput
  <1>5. PICK G \in SUBSET Headers' : Chain(G)' /\ Leaves(E, G, InputReader)
    <2>1. CASE OutputReader = InputReader
      <3>1. \A q \in E : q # OutputReader <=> Offset(q) >= Offset(e)
        BY <2>1, <1>1, <1>3, EntryFacts, OffsetFacts
      <3>2. /\ UNCHANGED <<mem, NextWriter>> /\ OutputReader' = e /\ InputReader' = e
            /\ Offset(e) <= Offset(e)
        BY <2>1, <1>1, <1>3, <1>4, OffsetFacts
      <3> QED
        BY <2>1, <3>1, <3>2, <1>1, <1>3, FirstLeaves DEF PassedByOutput
    <2>2. CASE OutputReader # InputReader
      <3>1. E \in SUBSET Headers' /\ Chain(E)'
        BY <2>2, <1>1, <1>3, <1>4, FlagChanges
      <3>2. /\ mem'[InputReader].flag = "Skip"
            /\ \A q \in E \ {InputReader} : mem'[q] = mem[q]
        BY <2>2, <1>1, <1>4 DEF RingTypeOK, Word
      <3>3. \A q \in E : Offset(q)' = Offset(q) - 0
        BY <2>2, <1>1, <1>4, OffsetFacts DEF Offset
      <3>4. Leaves(E, E, InputReader)
        BY <3>2, <3>3, <1>1 DEF Leaves, PassedByOutput
      <3> QED
        BY <3>1, <3>4
    <2> QED
      BY <2>1, <2>2
  <1>6. /\ InputReader \in Live(E) /\ Contents = Listed(Live(E), Key, mem)
        /\ Contents' = Listed(Live(E) \ {InputReader}, Key', mem')
        /\ Alike(Live(E) \ {InputReader}, Key, Key', mem, mem')
    BY <1>1, <1>5, LeftQueue
  <1>7. Ordered(Live(E), Key)
    <2>1. Live(E) \in SUBSET Slots
      BY <1>1 DEF Live
    <2> QED
      BY <2>1, <1>1, SlotsOrdered
  <1>8. PICK i \in DOMAIN Contents : i = Rank(Live(E), Key, InputReader)
    BY <1>6, <1>7, ListedFacts, RankedFacts
  <1>9. Contents' = Without(Contents, i)
    BY <1>6, <1>7, <1>8, ListedRemoved
  <1>10. Promise!NextInput(i)
    BY <1>1, <1>8, NextInputFacts
  <1> QED
    BY <1>8, <1>9, <1>10 DEF Promise!Next, Promise!Drop, Promise!Remove, Without

-----------------------------------------------------------------------------
(* New packets.                                                            *)

\* r is created behind the entries L that are not skipped.
LEMMA CreatedQueue ==
  ASSUME RingTypeOK, NEW E \in SUBSET Headers, Chain(E), RingTypeOK',
         NEW r, Created(E, r),
         NEW L, L = {q \in E : mem'[q].flag \notin PassedByOutput}, \A q \in L : mem'[q] = mem[q]
  PROVE  Ordered(L, Key) /\ Contents' = Append(Listed(L, Key, mem), Item(mem', r))
  <1>1. PICK G \in SUBSET Headers' :
          /\ E \cup {r} \subseteq G /\ Chain(G)'
          /\ \A q \in G \ (E \cup {r}) : mem'[q].flag = "StartOver"
          /\ \A q \in E : Offset(q)' = Offset(q) /\ Offset(q)' < Offset(r)'
    BY DEF Created
  <1>2. r \in Slots /\ r \notin E /\ mem'[r].flag = "EndOfRing"
    BY DEF Created
  <1>3. /\ \A s \in Slots : Key[s] = Offset(s) /\ Offset(s) \in Int
        /\ E \subseteq Slots
        /\ Contents' = Listed(Live(G)', Key', mem') /\ Ordered(Live(G)', Key')
        /\ \A s \in Slots : Key'[s] = Offset(s)'
        /\ Live(G)' = {p \in G : mem'[p].flag \notin PassedByOutput}
    BY <1>1, ChainsQueued, OffsetFacts
  <1>4. PICK M : M = Live(G)' /\ M = L \cup {r}
    BY <1>1, <1>2, <1>3 DEF PassedByOutput
  <1>5. L \in SUBSET Slots /\ L \subseteq E
    BY <1>3
  <1>6. Ordered(L, Key)
    BY <1>5, SlotsOrdered
  <1>7. ASSUME NEW q \in L
        PROVE  Key'[q] = Key[q] /\ Key[q] \in Int /\ Key'[q] < Key'[r] /\ Item(mem', q) = Item(mem, q)
    BY <1>1, <1>2, <1>3, <1>5 DEF Item
  <1>8. Alike(L, Key, Key', mem, mem')
    BY <1>7 DEF Alike, Agree
  <1>9. IsLast(L, M, Key', r)
    <2>1. Key'[r] \in Int
      BY <1>3, <1>4 DEF Ordered
    <2> QED
      BY <2>1, <1>2, <1>4, <1>5, <1>7 DEF IsLast
  <1>10. Received(Listed(L, Key, mem), Listed(M, Key', mem'), Item(mem', r))
    BY <1>6, <1>8, <1>9, ListedAdded
  <1>11. Contents' = Listed(M, Key', mem')
    BY <1>3, <1>4
  <1> QED
    BY <1>6, <1>10, <1>11 DEF Received

LEMMA NewItem ==
  ASSUME NEW len, NEW r, mem'[r] = Unfinished(len)
  PROVE  Item(mem', r) = Promise!Packet("unfinished", len)
  BY DEF Item, kindOf, Unfinished, Promise!Packet

LEMMA NewQueue ==
  ASSUME TypeOK, TypeOK', NEW E \in SUBSET Headers, Whole(E), New
  PROVE  Promise!Next \/ Contents' = Contents
  <1>1. PICK len \in Lens, r \in Slots \cup {NULL} : allocateNew(mem, len, r)
    BY DEF New, Packet_New
  <1>2. RingTypeOK /\ RingTypeOK' /\ Chain(E) /\ InputAhead(E) /\ Found(mem, E) /\ len \in Nat
    BY LensFacts DEF TypeOK, RingTypeOK, Whole, Found
  <1>3. CASE UNCHANGED <<mem, NextWriter, InputReader, OutputReader>>
    BY <1>3, NothingQueue
  <1>4. CASE Created(E, r) /\ mem'[r] = Unfinished(len) /\ \A p \in E : mem'[p] = mem[p]
    <2>1. Contents = Listed(Live(E), Key, mem)
      BY <1>2, QueuedHolds DEF Queued
    <2>2. Live(E) = {q \in E : mem'[q].flag \notin PassedByOutput}
      BY <1>4 DEF Live
    <2>3. \A q \in Live(E) : mem'[q] = mem[q]
      BY <1>4 DEF Live
    <2>4. Contents' = Append(Listed(Live(E), Key, mem), Item(mem', r))
      BY <2>2, <2>3, <1>2, <1>4, CreatedQueue
    <2>5. Contents' = Append(Contents, Promise!Packet("unfinished", len))
      BY <2>1, <2>4, <1>4, NewItem
    <2> QED
      BY <2>5 DEF Promise!Next, Promise!Create
  <1> QED
    BY <1>1, <1>2, <1>3, <1>4, AllocateCreates

\* A packet takes more slots only if it is longer.
LEMMA UnitsGrow ==
  ASSUME NEW p \in Nat, NEW len \in Nat, NEW n \in Nat, getNextPacket(p, len) > getNextPacket(p, n)
  PROVE  len > n
  BY DEF getNextPacket, Units

LEMMA MoveQueue ==
  ASSUME TypeOK, TypeOK', NEW E \in SUBSET Headers, Whole(E), NEW p \in unfinished,
         NEW len \in Lens, NEW r \in Slots \cup {NULL}, Move(p, len, r)
  PROVE  Promise!Next \/ Contents' = Contents
  <1>0. PICK m : m = [mem EXCEPT ![p] = Skip(mem[p].val)]
    OBVIOUS
  <1>1. /\ RingTypeOK /\ RingTypeOK' /\ Chain(E) /\ InputAhead(E) /\ E \subseteq Slots
        /\ p \in E /\ p \in Slots /\ mem[p].flag = "EndOfRing" /\ mem[p].val \in Nat
        /\ len \in Nat
    BY UnfinishedFacts, LensFacts DEF TypeOK
  <1>2. allocateNew(m, len, r) /\ getNextPacket(p, len) > packetEnd(p)
    BY <1>0 DEF Move
  <1>3. Found(m, E) /\ m[p] = Skip(mem[p].val) /\ \A q \in E \ {p} : m[q] = mem[q]
    <2>1. Skip(mem[p].val) \in Word
      BY <1>1 DEF Skip, Word, Flags
    <2>2. /\ m \in [Slots -> Word] /\ m[p] = Skip(mem[p].val)
          /\ \A s \in Slots : s # p => m[s] = mem[s]
      BY <2>1, <1>0, <1>1 DEF RingTypeOK
    <2> QED
      BY <2>2, <1>1 DEF Found
  <1>4. CASE UNCHANGED <<mem, NextWriter, InputReader, OutputReader>>
    BY <1>4, NothingQueue
  <1>5. CASE Created(E, r) /\ mem'[r] = Unfinished(len) /\ \A q \in E : mem'[q] = m[q]
    <2>1. /\ Contents = Listed(Live(E), Key, mem) /\ Ordered(Live(E), Key)
          /\ \A s \in Slots : Key[s] = Offset(s)
      <3>1. Live(E) \in SUBSET Slots
        BY <1>1 DEF Live
      <3> QED
        BY <3>1, <1>1, QueuedHolds DEF Queued
    <2>2. p \in Live(E) /\ Live(E) \subseteq E
      BY <1>1 DEF Live, PassedByOutput
    <2>3. PICK L : L = Live(E) \ {p}
      OBVIOUS
    <2>4. L = {q \in E : mem'[q].flag \notin PassedByOutput} /\ \A q \in L : mem'[q] = mem[q]
      <3>1. mem'[p].flag \in PassedByOutput /\ \A q \in E \ {p} : mem'[q] = mem[q]
        BY <1>1, <1>3, <1>5 DEF Skip, PassedByOutput
      <3> QED
        BY <3>1, <2>3 DEF Live
    <2>5. Contents' = Append(Listed(L, Key, mem), Item(mem', r))
      BY <2>4, <1>1, <1>5, CreatedQueue
    <2>6. PICK i \in DOMAIN Contents : i = Rank(Live(E), Key, p) /\ Contents[i] = Item(mem, p)
      BY <2>1, <2>2, ListedFacts, RankedFacts
    <2>7. Listed(L, Key, mem) = Without(Contents, i)
      <3>1. Alike(Live(E) \ {p}, Key, Key, mem, mem)
        BY <2>1 DEF Alike, Agree, Ordered
      <3> QED
        BY <3>1, <2>1, <2>2, <2>3, <2>6, ListedRemoved
    <2>8. Contents' = Append(Promise!Remove(i), Promise!Packet("unfinished", len))
      BY <2>5, <2>7, <1>5, NewItem DEF Promise!Remove, Without
    <2>9. Contents[i].kind = "unfinished" /\ len > Contents[i].len
      <3>1. p \in Nat /\ getNextPacket(p, len) > getNextPacket(p, mem[p].val)
        BY <1>1, <1>2, SlotsFacts DEF packetEnd
      <3>2. len > mem[p].val
        BY <3>1, <1>1, UnitsGrow
      <3> QED
        BY <3>2, <2>6, <1>1, KindFacts
    <2> QED
      BY <2>6, <2>8, <2>9 DEF Promise!Next, Promise!ResizeByMoving
  <1> QED
    BY <1>1, <1>2, <1>3, <1>4, <1>5, AllocateCreates

LEMMA ResizeQueue ==
  ASSUME ~ ShrinkLast, TypeOK, TypeOK', NEW E \in SUBSET Headers, Whole(E),
         NEW p \in unfinished, Resize(p)
  PROVE  Promise!Next \/ Contents' = Contents
  <1>1. PICK len \in Lens, r \in Slots \cup {NULL} :
          /\ getNextPacket(p, len) >= packetEnd(p) \/ NextWriter # packetEnd(p)
          /\ Packet_Resize(p, len, r)
          /\ unfinished' = IF r = NULL THEN unfinished ELSE (unfinished \ {p}) \cup {r}
          /\ UNCHANGED <<inPacket, outPacket>>
    BY DEF Resize
  <1>2. len \in Nat /\ mem[p].flag = "EndOfRing" /\ p \in Slots
    BY LensFacts, UnfinishedFacts
  <1>3. ASSUME r = p
        PROVE  UNCHANGED clients
    BY <1>1, <1>2, <1>3, SlotsFacts, NullAssumption DEF clients
  <1>4. CASE Shrink(p, len, r)
    BY <1>1, <1>2, <1>3, <1>4, ShrinkKeeps, ResizedQueue DEF Shrink
  <1>5. CASE Extend(p, len, r)
    BY <1>1, <1>2, <1>3, <1>5, ExtendKeeps, ResizedQueue DEF Extend
  <1>6. CASE Move(p, len, r)
    BY <1>1, <1>2, <1>6, MoveQueue
  <1> QED
    BY <1>1, <1>2, <1>4, <1>5, <1>6 DEF Packet_Resize

-----------------------------------------------------------------------------
(* The theorem.                                                            *)

LEMMA InitQueue ==
  ASSUME Init
  PROVE  Promise!Init
  <1>1. OutputReader = NextWriter /\ RingTypeOK
    BY InitIntact DEF Init, RingInit, TypeOK
  <1>2. \A s \in Slots : ~ (Offset(s) < Offset(NextWriter))
    BY <1>1, OffsetFacts
  <1>3. Entries = {}
    BY <1>2 DEF Entries, Headers
  <1>4. Live(Entries) = {} /\ Cardinality(Live(Entries)) = 0
    BY <1>3, FS_EmptySet DEF Live
  <1>5. Contents = [i \in 1 .. 0 |->
                      [kind |-> kindOf[mem[At(Live(Entries), i)].flag],
                       len  |-> mem[At(Live(Entries), i)].val]]
    BY <1>4 DEF Contents, QueueOf
  <1>6. Contents = << >>
    BY <1>5
  <1> QED
    BY <1>6 DEF Promise!Init

LEMMA NextQueue ==
  ASSUME ~ ShrinkLast, TypeOK, RingIntact, TypeOK', [Next]_vars
  PROVE  [Promise!Next]_Contents
  <1>1. PICK E \in SUBSET Headers : Whole(E)
    BY DEF RingIntact, Whole
  <1>2. CASE New
    BY <1>1, <1>2, NewQueue
  <1>3. CASE \E p \in unfinished : Resize(p)
    BY <1>1, <1>3, ResizeQueue
  <1>4. CASE \E p \in unfinished : PutInput(p) \/ PutOutput(p)
    BY <1>1, <1>4, PutQueue
  <1>5. CASE GetInput \/ GetOutput
    BY <1>1, <1>5, GetQueue
  <1>6. CASE ReleaseInput
    BY <1>1, <1>6, ReleaseInputQueue
  <1>7. CASE ReattachOutput
    BY <1>1, <1>7, ReattachQueue
  <1>8. CASE ReleaseOutput
    BY <1>1, <1>8, ReleaseOutputQueue
  <1>9. CASE UNCHANGED vars
    BY <1>9, NothingQueue DEF vars, ring
  <1> QED
    BY <1>2, <1>3, <1>4, <1>5, <1>6, <1>7, <1>8, <1>9 DEF Next, Step

\* Whatever the size of the ring and the lengths of the packets, and as long as
\* nobody makes the last packet smaller, PacketBuffer.c implements one queue of
\* packets: no interleaving of its calls loses, duplicates or reorders a packet,
\* only what was released or moved is skipped, and an output packet leaves only
\* when it is the oldest of all.
THEOREM RingIsAQueue ==
  ASSUME ~ ShrinkLast
  PROVE  Spec => ImplementsQueue
  <1>1. Init => TypeOK /\ RingIntact
    BY InitIntact
  <1>2. TypeOK /\ RingIntact /\ [Next]_vars => TypeOK' /\ RingIntact'
    BY NextIntact
  <1>3. Init => Promise!Init
    BY InitQueue
  <1>4. TypeOK /\ RingIntact /\ TypeOK' /\ [Next]_vars => [Promise!Next]_Contents
    BY NextQueue
  <1> QED
    BY <1>1, <1>2, <1>3, <1>4, PTL DEF Spec, ImplementsQueue, Promise!Spec

=============================================================================
