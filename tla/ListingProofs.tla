--------------------------- MODULE ListingProofs ---------------------------
(***************************************************************************)
(* Facts about the operators on listings and on lists of ids that the      *)
(* collectors are built from.                                              *)
(***************************************************************************)
EXTENDS Listing, TLAPS, FiniteSetTheorems, WellFoundedInduction

(* The least number of a set. *)
LEMMA Least ==
  ASSUME NEW S \in SUBSET Nat, S # {}
  PROVE  \E k \in S : \A j \in S : k <= j
<1> DEFINE R == OpToRel(<, Nat)
<1>1. PICK k \in S : \A j \in S : ~(<<j, k>> \in R)
  BY NatLessThanWellFounded, WFMin
<1>2. \A j \in S : <<j, k>> \in R <=> j < k
  BY DEF OpToRel
<1> HIDE DEF R
<1>3. \A j \in S : k <= j
  <2> SUFFICES ASSUME NEW j \in S
               PROVE  k <= j
    OBVIOUS
  <2>1. ~(j < k) /\ j \in Nat /\ k \in Nat
    BY <1>1, <1>2
  <2> QED
    BY <2>1
<1> QED
  BY <1>3

LEMMA ItemFields ==
  ASSUME NEW items \in Seq(Item), NEW k \in 1..Len(items)
  PROVE  /\ items[k] \in Item
         /\ items[k].id \in Nat /\ items[k].rev \in Nat /\ items[k].at \in Nat
         /\ items[k].dead \in BOOLEAN
<1>1. items[k] \in Item
  OBVIOUS
<1> QED
  BY <1>1 DEF Item

(* A part of a sequence, from its beginning or to its end. *)
LEMMA FirstProperties ==
  ASSUME NEW S, NEW seq \in Seq(S), NEW n \in Nat
  PROVE  /\ First(seq, n) \in Seq(S)
         /\ Len(First(seq, n)) = (IF n < Len(seq) THEN n ELSE Len(seq))
         /\ Len(First(seq, n)) <= n /\ Len(First(seq, n)) <= Len(seq)
         /\ \A k \in 1..Len(First(seq, n)) : First(seq, n)[k] = seq[k]
  BY DEF First

LEMMA BeyondProperties ==
  ASSUME NEW S, NEW seq \in Seq(S), NEW n \in Nat
  PROVE  /\ Beyond(seq, n) \in Seq(S)
         /\ Len(Beyond(seq, n)) = (IF n < Len(seq) THEN Len(seq) - n ELSE 0)
         /\ \A k \in 1..Len(Beyond(seq, n)) :
              /\ n + k \in 1..Len(seq)
              /\ Beyond(seq, n)[k] = seq[n + k]
  BY DEF Beyond

LEMMA TailProperties ==
  ASSUME NEW S, NEW seq \in Seq(S), NEW n \in 0..Len(seq)
  PROVE  /\ Beyond(seq, n) \in Seq(S)
         /\ Len(Beyond(seq, n)) = Len(seq) - n
         /\ \A k \in 1..(Len(seq) - n) : Beyond(seq, n)[k] = seq[n + k]
  BY DEF Beyond

(* place counts a set of places from the least to the greatest. *)
Enumerates(place, places) ==
  LET C == Cardinality(places)
  IN /\ C \in Nat
     /\ place \in [1..C -> places]
     /\ \A m, n \in 1..C : m < n => place[m] < place[n]
     /\ \A k \in places : \E n \in 1..C : place[n] = k

(* The elements kept of a sequence are those at the given places, each of  *)
(* them once and in their order.                                           *)
LEMMA KeptProperties ==
  ASSUME NEW seq, NEW N \in Nat, NEW places \in SUBSET (1..N)
  PROVE  \E place :
           /\ Enumerates(place, places)
           /\ Kept(seq, places) = [n \in 1..Cardinality(places) |-> seq[place[n]]]
<1> DEFINE upTo(k) == {j \in places : j <= k}
           C == Cardinality(places)
           rank == [k \in places |-> Cardinality(upTo(k))]
           place == [n \in 1..C |-> CHOOSE k \in places : Cardinality(upTo(k)) = n]
<1>0. \A k \in places : k \in Nat
  OBVIOUS
<1>1. IsFiniteSet(places) /\ C \in Nat
  <2>1. IsFiniteSet(1..N)
    BY FS_Interval
  <2>2. IsFiniteSet(places)
    BY <2>1, FS_Subset
  <2> QED
    BY <2>2, FS_CardinalityType
<1>2. ASSUME NEW k \in places
      PROVE  IsFiniteSet(upTo(k)) /\ Cardinality(upTo(k)) \in 1..C
  <2>1. upTo(k) \in SUBSET places /\ k \in upTo(k)
    OBVIOUS
  <2>2. IsFiniteSet(upTo(k)) /\ Cardinality(upTo(k)) <= C
    BY <1>1, <2>1, FS_Subset
  <2>3. Cardinality(upTo(k)) \in Nat /\ Cardinality(upTo(k)) # 0
    BY <2>1, <2>2, FS_CardinalityType, FS_EmptySet
  <2> QED
    BY <1>1, <2>2, <2>3
<1>3. ASSUME NEW j \in places, NEW k \in places, j < k
      PROVE  Cardinality(upTo(j)) < Cardinality(upTo(k))
  <2>0. j \in Nat /\ k \in Nat
    BY <1>0
  <2>1. upTo(j) \in SUBSET upTo(k) /\ k \in upTo(k) /\ k \notin upTo(j)
    <3>1. \A i \in places : i <= j => i <= k
      BY <1>0, <1>3, <2>0
    <3>2. k <= k /\ ~(k <= j)
      BY <1>3, <2>0
    <3> QED
      BY <3>1, <3>2
  <2> HIDE DEF upTo
  <2>2. IsFiniteSet(upTo(k)) /\ upTo(j) # upTo(k)
    BY <1>2, <2>1
  <2>3. /\ Cardinality(upTo(j)) <= Cardinality(upTo(k))
        /\ Cardinality(upTo(j)) # Cardinality(upTo(k))
    BY <2>1, <2>2, FS_Subset
  <2> QED
    BY <1>2, <2>2, <2>3
<1>4. \A n \in 1..C : \E k \in places : Cardinality(upTo(k)) = n
  <2> HIDE DEF upTo
  <2>1. rank \in [places -> 1..C]
    BY <1>2
  <2>2. \A j, k \in places : rank[j] = rank[k] => j = k
    <3> SUFFICES ASSUME NEW j \in places, NEW k \in places, j < k
                 PROVE  rank[j] # rank[k]
      OBVIOUS
    <3> QED
      BY <1>2, <1>3
  <2>3. rank \in Injection(places, 1..C)
    BY <2>1, <2>2 DEF Injection, IsInjective
  <2>4. IsFiniteSet(1..C) /\ Cardinality(1..C) = C
    BY <1>1, FS_Interval
  <2> HIDE DEF rank, C
  <2>5. rank \in Surjection(places, 1..C)
    BY <2>3, <2>4, FS_Injection DEF C
  <2>6. \A n \in 1..C : \E k \in places : rank[k] = n
    BY <2>5 DEF Surjection
  <2> QED
    BY <2>6 DEF rank
<1>5. \A n \in 1..C : place[n] \in places /\ Cardinality(upTo(place[n])) = n
  BY <1>4
<1>6. place \in [1..C -> places]
  BY <1>5
<1>7. Kept(seq, places) = [n \in 1..C |-> seq[place[n]]]
  BY DEF Kept
<1> HIDE DEF place, upTo
<1>8. \A m, n \in 1..C : m < n => place[m] < place[n]
  <2> SUFFICES ASSUME NEW m \in 1..C, NEW n \in 1..C, m < n, ~(place[m] < place[n])
               PROVE  FALSE
    OBVIOUS
  <2>0. /\ place[m] \in places /\ Cardinality(upTo(place[m])) = m
        /\ place[n] \in places /\ Cardinality(upTo(place[n])) = n
    BY <1>5
  <2>1. place[n] < place[m] \/ place[n] = place[m]
    <3>1. place[m] \in Nat /\ place[n] \in Nat
      BY <1>0, <2>0
    <3> QED
      BY <3>1
  <2>2. m \in Nat /\ n \in Nat
    BY <1>1
  <2>3. CASE place[n] < place[m]
    <3>1. Cardinality(upTo(place[n])) < Cardinality(upTo(place[m]))
      BY <1>3, <2>0, <2>3
    <3> QED
      BY <2>0, <2>2, <3>1
  <2> QED
    BY <2>0, <2>1, <2>2, <2>3
<1>9. \A k \in places : \E n \in 1..C : place[n] = k
  <2> SUFFICES ASSUME NEW k \in places
               PROVE  place[Cardinality(upTo(k))] = k
    BY <1>2
  <2> DEFINE n == Cardinality(upTo(k))
  <2>1. n \in 1..C /\ place[n] \in places /\ Cardinality(upTo(place[n])) = n
    BY <1>2, <1>5
  <2>2. k \in Nat /\ place[n] \in Nat
    BY <1>0, <2>1
  <2> HIDE DEF n
  <2>3. Cardinality(upTo(k)) = n /\ n \in Nat
    BY <1>1, <2>1 DEF n
  <2>4. ~(k < place[n]) /\ ~(place[n] < k)
    <3>1. k < place[n] => n < n
      BY <1>3, <2>1, <2>3
    <3>2. place[n] < k => n < n
      BY <1>3, <2>1, <2>3
    <3> QED
      BY <2>3, <3>1, <3>2
  <2> QED
    BY <2>2, <2>4 DEF n
<1>10. Enumerates(place, places)
  BY <1>1, <1>6, <1>8, <1>9 DEF Enumerates
<1> HIDE DEF C
<1> QED
  BY <1>7, <1>10 DEF C

(* What comes before the first known id: a part from the beginning without *)
(* any known id, and the item it ends at is known.                         *)
LEMMA BeforeProperties ==
  ASSUME NEW items \in Seq(Item), NEW known
  PROVE  /\ Before(items, known) \in Seq(Item)
         /\ Len(Before(items, known)) <= Len(items)
         /\ \A k \in 1..Len(Before(items, known)) : Before(items, known)[k] = items[k]
         /\ Len(Before(items, known)) < Len(items)
              => Among(known, items[Len(Before(items, known)) + 1].id)
<1> DEFINE hits == {k \in DOMAIN items : Among(known, items[k].id)}
<1>1. CASE hits = {}
  BY <1>1 DEF Before
<1>2. CASE hits # {}
  <2> DEFINE least(k) == k \in hits /\ \A j \in hits : k <= j
             m == CHOOSE k \in hits : \A j \in hits : k <= j
  <2>1. hits \in SUBSET Nat
    OBVIOUS
  <2>2. \E k \in hits : \A j \in hits : k <= j
    BY <1>2, <2>1, Least
  <2>3. m \in hits /\ Before(items, known) = First(items, m - 1)
    BY <1>2, <2>2 DEF Before
  <2> HIDE DEF m
  <2>4. m \in 1..Len(items) /\ Among(known, items[m].id)
    BY <2>3
  <2>5. /\ First(items, m - 1) \in Seq(Item)
        /\ Len(First(items, m - 1)) = m - 1
        /\ \A k \in 1..Len(First(items, m - 1)) : First(items, m - 1)[k] = items[k]
    BY <2>4, FirstProperties, SMTT(30)
  <2> QED
    BY <2>3, <2>4, <2>5
<1> QED
  BY <1>1, <1>2

(* sub has the elements of seq at some places, all of them and in their    *)
(* order.                                                                  *)
Extracts(sub, seq, places) ==
  /\ \A n \in 1..Len(sub) : \E k \in places : sub[n] = seq[k]
  /\ \A k \in places : \E n \in 1..Len(sub) : sub[n] = seq[k]
  /\ \A m, n \in 1..Len(sub) :
       m < n => \E j, k \in places : j < k /\ sub[m] = seq[j] /\ sub[n] = seq[k]

LEMMA KeptExtracts ==
  ASSUME NEW S, NEW seq \in Seq(S), NEW places \in SUBSET (1..Len(seq))
  PROVE  /\ Kept(seq, places) \in Seq(S)
         /\ Len(Kept(seq, places)) = Cardinality(places)
         /\ Extracts(Kept(seq, places), seq, places)
<1>0. Len(seq) \in Nat /\ \A k \in places : seq[k] \in S
  OBVIOUS
<1> DEFINE C == Cardinality(places)
           sub == Kept(seq, places)
<1> HIDE DEF C, sub
<1>1. PICK place :
        /\ Enumerates(place, places)
        /\ sub = [n \in 1..C |-> seq[place[n]]]
  BY <1>0, KeptProperties DEF C, sub
<1>2. /\ C \in Nat
      /\ \A n \in 1..C : place[n] \in places
      /\ \A m, n \in 1..C : m < n => place[m] < place[n]
      /\ \A k \in places : \E n \in 1..C : place[n] = k
  BY <1>1 DEF Enumerates, C
<1>3. \A n \in 1..C : seq[place[n]] \in S
  BY <1>0, <1>2
<1>4. sub \in Seq(S) /\ Len(sub) = C /\ \A n \in 1..C : sub[n] = seq[place[n]]
  BY <1>1, <1>2, <1>3
<1>5. /\ \A n \in 1..C : \E k \in places : sub[n] = seq[k]
      /\ \A k \in places : \E n \in 1..C : sub[n] = seq[k]
  <2>1. ASSUME NEW n \in 1..C
        PROVE  \E k \in places : sub[n] = seq[k]
    BY <1>2, <1>4
  <2>2. ASSUME NEW k \in places
        PROVE  \E n \in 1..C : sub[n] = seq[k]
    <3>1. PICK n \in 1..C : place[n] = k
      BY <1>2
    <3> QED
      BY <1>4, <3>1
  <2> QED
    BY <2>1, <2>2
<1>6. ASSUME NEW m \in 1..C, NEW n \in 1..C, m < n
      PROVE  \E j, k \in places : j < k /\ sub[m] = seq[j] /\ sub[n] = seq[k]
  BY <1>2, <1>4, <1>6
<1>7. Extracts(sub, seq, places)
  BY <1>4, <1>5, <1>6 DEF Extracts
<1> QED
  BY <1>4, <1>7 DEF C, sub

-----------------------------------------------------------------------------
(* items are some of a listing, in its order. *)
Sublist(items, listing) ==
  /\ items \in Seq(Item)
  /\ \A n \in 1..Len(items) : \E k \in 1..Len(listing) : items[n] = listing[k]
  /\ \A m, n \in 1..Len(items) :
       m < n => \E j, k \in 1..Len(listing) :
                  j < k /\ items[m] = listing[j] /\ items[n] = listing[k]

(* No two items have the same id; every item is newer than those below it. *)
Apart(items) == \A j, k \in 1..Len(items) : items[j].id = items[k].id => j = k
NewestFirst(items) == \A j, k \in 1..Len(items) : j < k => items[j].id > items[k].id

LEMMA SublistTransitive ==
  ASSUME NEW a, NEW b, NEW c, Sublist(a, b), Sublist(b, c)
  PROVE  Sublist(a, c)
<1>1. ASSUME NEW n \in 1..Len(a)
      PROVE  \E k \in 1..Len(c) : a[n] = c[k]
  BY DEF Sublist
<1>2. ASSUME NEW m \in 1..Len(a), NEW n \in 1..Len(a), m < n
      PROVE  \E j, k \in 1..Len(c) : j < k /\ a[m] = c[j] /\ a[n] = c[k]
  <2>1. PICK j, k \in 1..Len(b) : j < k /\ a[m] = b[j] /\ a[n] = b[k]
    BY <1>2 DEF Sublist
  <2> QED
    BY <2>1 DEF Sublist
<1> QED
  BY <1>1, <1>2 DEF Sublist

LEMMA SublistKeepsApart ==
  ASSUME NEW a, NEW b, Sublist(a, b), Apart(b), Len(b) \in Nat
  PROVE  Apart(a)
<1> SUFFICES ASSUME NEW m \in 1..Len(a), NEW n \in 1..Len(a), m < n,
                    a[m].id = a[n].id
             PROVE  FALSE
  <2>1. Len(a) \in Nat
    BY DEF Sublist
  <2> QED
    BY <2>1 DEF Apart
<1>1. PICK j, k \in 1..Len(b) : j < k /\ a[m] = b[j] /\ a[n] = b[k]
  BY DEF Sublist
<1> QED
  BY <1>1 DEF Apart

LEMMA SublistKeepsOrder ==
  ASSUME NEW a, NEW b, Sublist(a, b), NewestFirst(b)
  PROVE  NewestFirst(a)
<1> SUFFICES ASSUME NEW m \in 1..Len(a), NEW n \in 1..Len(a), m < n
             PROVE  a[m].id > a[n].id
  BY DEF NewestFirst
<1>1. PICK j, k \in 1..Len(b) : j < k /\ a[m] = b[j] /\ a[n] = b[k]
  BY DEF Sublist
<1> QED
  BY <1>1 DEF NewestFirst

LEMMA NewestFirstIsApart ==
  ASSUME NEW items \in Seq(Item), NewestFirst(items)
  PROVE  Apart(items)
<1> SUFFICES ASSUME NEW m \in 1..Len(items), NEW n \in 1..Len(items), m < n,
                    items[m].id = items[n].id
             PROVE  FALSE
  BY DEF Apart
<1>1. items[m].id > items[n].id
  BY DEF NewestFirst
<1>2. items[n].id \in Nat
  BY ItemFields
<1> QED
  BY <1>1, <1>2

LEMMA PartsAreSublists ==
  ASSUME NEW items \in Seq(Item), NEW n \in Nat
  PROVE  /\ Sublist(items, items)
         /\ Sublist(First(items, n), items)
         /\ Sublist(Beyond(items, n), items)
<1>1. Sublist(items, items)
  BY DEF Sublist
<1>2. Sublist(First(items, n), items)
  BY FirstProperties DEF Sublist
<1>3. Sublist(Beyond(items, n), items)
  <2> DEFINE rest == Beyond(items, n)
  <2>1. /\ rest \in Seq(Item)
        /\ \A k \in 1..Len(rest) : n + k \in 1..Len(items) /\ rest[k] = items[n + k]
    BY BeyondProperties
  <2> HIDE DEF rest
  <2>2. ASSUME NEW l \in 1..Len(rest), NEW m \in 1..Len(rest), l < m
        PROVE  \E j, k \in 1..Len(items) :
                 j < k /\ rest[l] = items[j] /\ rest[m] = items[k]
    <3>1. n + l < n + m
      BY <2>1, <2>2
    <3> QED
      BY <2>1, <3>1
  <2>3. Sublist(rest, items)
    BY <2>1, <2>2 DEF Sublist
  <2> QED
    BY <2>3 DEF rest
<1> QED
  BY <1>1, <1>2, <1>3

LEMMA BeforeIsSublist ==
  ASSUME NEW items \in Seq(Item), NEW known
  PROVE  Sublist(Before(items, known), items)
<1> DEFINE open == Before(items, known)
<1>1. /\ open \in Seq(Item) /\ Len(open) <= Len(items)
      /\ \A k \in 1..Len(open) : open[k] = items[k]
  BY BeforeProperties
<1> HIDE DEF open
<1>2. Sublist(open, items)
  BY <1>1 DEF Sublist
<1> QED
  BY <1>2 DEF open

(* What is new in a list of items: all that is not known. *)
LEMMA WithoutProperties ==
  ASSUME NEW items \in Seq(Item), NEW known
  PROVE  /\ Sublist(Without(items, known), items)
         /\ \A n \in 1..Len(Without(items, known)) : ~Among(known, Without(items, known)[n].id)
         /\ \A k \in 1..Len(items) :
              \/ Among(known, items[k].id)
              \/ \E n \in 1..Len(Without(items, known)) : Without(items, known)[n] = items[k]
<1> DEFINE places == {k \in DOMAIN items : ~Among(known, items[k].id)}
           new == Without(items, known)
<1>1. \A k : k \in places <=> k \in 1..Len(items) /\ ~Among(known, items[k].id)
  OBVIOUS
<1>2. new = Kept(items, places)
  BY DEF Without
<1> HIDE DEF places, new
<1>3. new \in Seq(Item) /\ Extracts(new, items, places)
  <2>1. places \in SUBSET (1..Len(items))
    BY <1>1
  <2> QED
    BY <1>2, <2>1, KeptExtracts
<1>4. Sublist(new, items)
  <2>1. ASSUME NEW m \in 1..Len(new), NEW n \in 1..Len(new), m < n
        PROVE  \E j, k \in 1..Len(items) : j < k /\ new[m] = items[j] /\ new[n] = items[k]
    <3>1. PICK j, k \in places : j < k /\ new[m] = items[j] /\ new[n] = items[k]
      BY <1>3, <2>1 DEF Extracts
    <3> QED
      BY <1>1, <3>1
  <2>2. \A n \in 1..Len(new) : \E k \in 1..Len(items) : new[n] = items[k]
    BY <1>1, <1>3 DEF Extracts
  <2> QED
    BY <1>3, <2>1, <2>2 DEF Sublist
<1>5. \A n \in 1..Len(new) : ~Among(known, new[n].id)
  BY <1>1, <1>3 DEF Extracts
<1>6. ASSUME NEW k \in 1..Len(items), ~Among(known, items[k].id)
      PROVE  \E n \in 1..Len(new) : new[n] = items[k]
  BY <1>1, <1>3, <1>6 DEF Extracts
<1> QED
  BY <1>4, <1>5, <1>6 DEF new

-----------------------------------------------------------------------------
LEMMA InLists ==
  ASSUME NEW S, NEW seq \in Seq(S)
  PROVE  /\ Len(seq) \in Nat
         /\ \A k \in 1..Len(seq) : seq[k] \in S
         /\ \A x : Among(seq, x) <=> \E k \in 1..Len(seq) : seq[k] = x
         /\ Distinct(seq) <=> \A j, k \in 1..Len(seq) : seq[j] = seq[k] => j = k
<1>1. DOMAIN seq = 1..Len(seq) /\ Len(seq) \in Nat
  OBVIOUS
<1>2. \A x : Among(seq, x) <=> \E k \in 1..Len(seq) : seq[k] = x
  BY <1>1 DEF Among
<1>3. Distinct(seq) <=> \A j, k \in 1..Len(seq) : seq[j] = seq[k] => j = k
  BY <1>1 DEF Distinct
<1> QED
  BY <1>1, <1>2, <1>3

(* The ids of a list of items. *)
LEMMA IdSeqProperties ==
  ASSUME NEW items \in Seq(Item)
  PROVE  /\ IdSeq(items) \in Seq(Nat) /\ Len(IdSeq(items)) = Len(items)
         /\ \A k \in 1..Len(items) : IdSeq(items)[k] = items[k].id
         /\ \A x : Among(IdSeq(items), x) <=> \E k \in 1..Len(items) : items[k].id = x
         /\ Apart(items) => Distinct(IdSeq(items))
<1>1. \A k \in 1..Len(items) : items[k].id \in Nat
  BY ItemFields
<1>2. /\ IdSeq(items) \in Seq(Nat) /\ Len(IdSeq(items)) = Len(items)
      /\ DOMAIN IdSeq(items) = 1..Len(items)
      /\ \A k \in 1..Len(items) : IdSeq(items)[k] = items[k].id
  BY <1>1 DEF IdSeq
<1>3. \A x : Among(IdSeq(items), x) <=> \E k \in 1..Len(items) : items[k].id = x
  BY <1>2 DEF Among
<1>4. Apart(items) => Distinct(IdSeq(items))
  BY <1>2 DEF Apart, Distinct
<1> QED
  BY <1>2, <1>3, <1>4

(* A list of ids without known ones. *)
LEMMA OmitProperties ==
  ASSUME NEW ids \in Seq(Nat), NEW known
  PROVE  /\ Omit(ids, known) \in Seq(Nat)
         /\ \A x : Among(Omit(ids, known), x) <=> Among(ids, x) /\ ~Among(known, x)
         /\ Distinct(ids) => Distinct(Omit(ids, known))
<1> DEFINE places == {k \in DOMAIN ids : ~Among(known, ids[k])}
           rest == Omit(ids, known)
<1>1. \A k : k \in places <=> k \in 1..Len(ids) /\ ~Among(known, ids[k])
  OBVIOUS
<1>2. rest = Kept(ids, places)
  BY DEF Omit
<1> HIDE DEF places, rest
<1>3. rest \in Seq(Nat) /\ Extracts(rest, ids, places)
  <2>1. places \in SUBSET (1..Len(ids))
    BY <1>1
  <2> QED
    BY <1>2, <2>1, KeptExtracts
<1>4. ASSUME NEW x
      PROVE  Among(rest, x) <=> Among(ids, x) /\ ~Among(known, x)
  <2>1. /\ Among(rest, x) <=> \E n \in 1..Len(rest) : rest[n] = x
        /\ Among(ids, x) <=> \E k \in 1..Len(ids) : ids[k] = x
    BY <1>3, InLists
  <2>2. ASSUME NEW n \in 1..Len(rest), rest[n] = x
        PROVE  Among(ids, x) /\ ~Among(known, x)
    BY <1>1, <1>3, <2>1, <2>2 DEF Extracts
  <2>3. ASSUME NEW k \in 1..Len(ids), ids[k] = x, ~Among(known, x)
        PROVE  Among(rest, x)
    BY <1>1, <1>3, <2>1, <2>3 DEF Extracts
  <2> QED
    BY <2>1, <2>2, <2>3
<1>5. ASSUME Distinct(ids)
      PROVE  Distinct(rest)
  <2> SUFFICES ASSUME NEW m \in 1..Len(rest), NEW n \in 1..Len(rest), m < n,
                      rest[m] = rest[n]
               PROVE  FALSE
    BY <1>3 DEF Distinct
  <2>1. PICK j, k \in places : j < k /\ rest[m] = ids[j] /\ rest[n] = ids[k]
    BY <1>3 DEF Extracts
  <2>2. j \in 1..Len(ids) /\ k \in 1..Len(ids) /\ ids[j] = ids[k]
    BY <1>1, <2>1
  <2>3. j = k
    BY <1>5, <2>2 DEF Distinct
  <2> QED
    BY <2>1, <2>2, <2>3
<1> QED
  BY <1>3, <1>4, <1>5 DEF rest

(* Two lists one behind the other, if they have no id in common. *)
LEMMA JoinedProperties ==
  ASSUME NEW front \in Seq(Nat), NEW rest \in Seq(Nat),
         \A x : Among(rest, x) => ~Among(front, x)
  PROVE  /\ front \o rest \in Seq(Nat)
         /\ \A x : Among(front \o rest, x) <=> Among(front, x) \/ Among(rest, x)
         /\ Distinct(front) /\ Distinct(rest) => Distinct(front \o rest)
<1> DEFINE both == front \o rest
<1>1. rest \in Seq(Nat) /\ \A x : Among(rest, x) => ~Among(front, x)
  OBVIOUS
<1>2. both = front \o rest
  OBVIOUS
<1> HIDE DEF both
<1>3. /\ both \in Seq(Nat) /\ Len(both) = Len(front) + Len(rest)
      /\ \A k \in 1..Len(front) : both[k] = front[k]
      /\ \A k \in 1..Len(rest) : both[Len(front) + k] = rest[k]
  BY <1>2
<1>4. ASSUME NEW k \in 1..Len(both)
      PROVE  \/ k \in 1..Len(front) /\ both[k] = front[k]
             \/ /\ k - Len(front) \in 1..Len(rest) /\ both[k] = rest[k - Len(front)]
                /\ ~(k \in 1..Len(front))
  BY <1>1, <1>3, SMTT(30)
<1>5. ASSUME NEW x
      PROVE  Among(both, x) <=> Among(front, x) \/ Among(rest, x)
  <2>1. /\ Among(both, x) <=> \E k \in 1..Len(both) : both[k] = x
        /\ Among(front, x) <=> \E k \in 1..Len(front) : front[k] = x
        /\ Among(rest, x) <=> \E k \in 1..Len(rest) : rest[k] = x
        /\ Len(front) \in Nat /\ Len(rest) \in Nat
    <3>1. Among(both, x) <=> \E k \in 1..Len(both) : both[k] = x
      <4>1. both \in Seq(Nat)
        BY <1>3
      <4> QED
        BY <4>1, InLists, Zenon, SMTT(30)
    <3>2. Len(front) \in Nat /\ (Among(front, x) <=> \E k \in 1..Len(front) : front[k] = x)
      BY InLists
    <3>3. Len(rest) \in Nat /\ (Among(rest, x) <=> \E k \in 1..Len(rest) : rest[k] = x)
      BY <1>1, InLists
    <3> QED
      BY <3>1, <3>2, <3>3
  <2>2. ASSUME NEW k \in 1..Len(both), both[k] = x
        PROVE  Among(front, x) \/ Among(rest, x)
    BY <1>4, <2>1, <2>2
  <2>3. ASSUME NEW k \in 1..Len(front), front[k] = x
        PROVE  Among(both, x)
    <3>1. k \in 1..Len(both) /\ both[k] = x
      BY <1>3, <2>1, <2>3
    <3> QED
      BY <2>1, <3>1
  <2>4. ASSUME NEW k \in 1..Len(rest), rest[k] = x
        PROVE  Among(both, x)
    <3>1. Len(front) + k \in 1..Len(both) /\ both[Len(front) + k] = x
      BY <1>3, <2>1, <2>4, SMTT(30)
    <3> QED
      BY <2>1, <3>1
  <2> QED
    BY <2>1, <2>2, <2>3, <2>4
<1>6. ASSUME Distinct(front), Distinct(rest)
      PROVE  Distinct(both)
  <2>0. /\ Len(front) \in Nat /\ Len(rest) \in Nat
        /\ \A j, k \in 1..Len(front) : front[j] = front[k] => j = k
        /\ \A j, k \in 1..Len(rest) : rest[j] = rest[k] => j = k
        /\ \A k \in 1..Len(front) : Among(front, front[k])
        /\ \A k \in 1..Len(rest) : Among(rest, rest[k])
    BY <1>1, <1>6, InLists
  <2> SUFFICES ASSUME NEW m \in 1..Len(both), NEW n \in 1..Len(both), m < n,
                      both[m] = both[n]
               PROVE  FALSE
    <3>1. Len(both) \in Nat
      BY <1>3, <2>0
    <3>2. \A j, k \in 1..Len(both) : both[j] = both[k] => j = k
      BY <3>1
    <3> QED
      BY <1>3, <3>2, InLists
  <2>1. CASE m \in 1..Len(front) /\ n \in 1..Len(front)
    BY <1>3, <2>0, <2>1
  <2>2. CASE m \in 1..Len(front) /\ ~(n \in 1..Len(front))
    <3>1. Among(front, both[m]) /\ Among(rest, both[n])
      BY <1>3, <1>4, <2>0, <2>2
    <3> QED
      BY <1>1, <3>1
  <2>3. CASE ~(m \in 1..Len(front))
    <3>1. /\ m - Len(front) \in 1..Len(rest) /\ n - Len(front) \in 1..Len(rest)
          /\ m - Len(front) < n - Len(front)
          /\ rest[m - Len(front)] = rest[n - Len(front)]
      BY <1>3, <1>4, <2>0, <2>3, SMTT(30)
    <3>2. m - Len(front) = n - Len(front)
      BY <2>0, <3>1
    <3> QED
      BY <3>1, <3>2
  <2> QED
    BY <2>1, <2>2, <2>3
<1> QED
  BY <1>3, <1>5, <1>6 DEF both

(* Two lists put together: no id is lost, and none is there twice. *)
LEMMA MergedProperties ==
  ASSUME NEW front \in Seq(Nat), NEW back \in Seq(Nat)
  PROVE  /\ Merged(front, back) \in Seq(Nat)
         /\ \A x : Among(Merged(front, back), x) <=> Among(front, x) \/ Among(back, x)
         /\ Distinct(front) /\ Distinct(back) => Distinct(Merged(front, back))
<1> DEFINE rest == Omit(back, front)
<1>1. /\ rest \in Seq(Nat)
      /\ \A x : Among(rest, x) <=> Among(back, x) /\ ~Among(front, x)
      /\ Distinct(back) => Distinct(rest)
  BY OmitProperties
<1>2. Merged(front, back) = front \o rest
  BY DEF Merged
<1> HIDE DEF rest
<1>3. /\ front \o rest \in Seq(Nat)
      /\ \A x : Among(front \o rest, x) <=> Among(front, x) \/ Among(rest, x)
      /\ Distinct(front) /\ Distinct(rest) => Distinct(front \o rest)
  BY <1>1, JoinedProperties
<1> QED
  BY <1>1, <1>2, <1>3

(* What is remembered of two lists: a list of the right length without     *)
(* repetitions, of ids that were in one of them.                           *)
LEMMA RememberProperties ==
  ASSUME NEW front \in Seq(Nat), NEW back \in Seq(Nat), Window \in Nat,
         Distinct(front), Distinct(back)
  PROVE  /\ Remembered(Remember(front, back))
         /\ \A x : Among(Remember(front, back), x) => Among(front, x) \/ Among(back, x)
<1> DEFINE both == Merged(front, back)
           kept == First(both, Window)
<1>1. /\ both \in Seq(Nat) /\ Distinct(both)
      /\ \A x : Among(both, x) <=> Among(front, x) \/ Among(back, x)
  BY MergedProperties
<1> HIDE DEF both
<1>2. /\ kept \in Seq(Nat) /\ Len(kept) <= Window /\ Len(kept) <= Len(both)
      /\ \A k \in 1..Len(kept) : kept[k] = both[k]
  BY <1>1, FirstProperties
<1>3. Remember(front, back) = kept
  BY DEF Remember, both
<1> HIDE DEF kept
<1>4. Distinct(kept)
  <2>1. /\ Len(kept) \in Nat /\ Len(both) \in Nat
        /\ \A j, k \in 1..Len(both) : both[j] = both[k] => j = k
    BY <1>1, <1>2, InLists
  <2>2. \A j, k \in 1..Len(kept) : kept[j] = kept[k] => j = k
    BY <1>2, <2>1
  <2> QED
    BY <1>2, <2>2, InLists
<1>5. ASSUME NEW x, Among(kept, x)
      PROVE  Among(both, x)
  <2>1. PICK k \in 1..Len(kept) : kept[k] = x
    BY <1>2, <1>5, InLists
  <2>2. k \in 1..Len(both) /\ both[k] = x
    <3>1. Len(kept) \in Nat /\ Len(both) \in Nat
      BY <1>1, <1>2, InLists
    <3> QED
      BY <1>2, <2>1, <3>1
  <2> QED
    BY <1>1, <2>2, InLists
<1> QED
  BY <1>1, <1>2, <1>3, <1>4, <1>5 DEF Remembered

(* The part of a listing behind a position, up to a number of items.       *)
LEMMA SliceProperties ==
  ASSUME NEW seq \in Seq(Item), NEW c \in Nat, NEW n \in Nat
  PROVE  LET part == First(Beyond(seq, c), n)
         IN /\ part \in Seq(Item) /\ Len(part) \in Nat /\ Len(part) <= n
            /\ c <= Len(seq) => c + Len(part) <= Len(seq)
            /\ c > Len(seq) => Len(part) = 0
            /\ c + Len(part) < Len(seq) => Len(part) = n
            /\ \A k \in 1..Len(part) :
                 c + k \in 1..Len(seq) /\ part[k] = seq[c + k]
            /\ Sublist(part, seq)
<1> DEFINE rest == Beyond(seq, c)
           part == First(rest, n)
<1>1. /\ rest \in Seq(Item)
      /\ Len(rest) = (IF c < Len(seq) THEN Len(seq) - c ELSE 0)
      /\ \A k \in 1..Len(rest) : c + k \in 1..Len(seq) /\ rest[k] = seq[c + k]
  BY BeyondProperties
<1>2. Sublist(rest, seq)
  BY PartsAreSublists
<1>3. Len(seq) \in Nat /\ Len(rest) \in Nat
  BY <1>1
<1> HIDE DEF rest
<1>4. /\ part \in Seq(Item)
      /\ Len(part) = (IF n < Len(rest) THEN n ELSE Len(rest))
      /\ \A k \in 1..Len(part) : part[k] = rest[k]
  BY <1>1, FirstProperties
<1>5. Sublist(part, seq)
  BY <1>1, <1>2, PartsAreSublists, SublistTransitive
<1> HIDE DEF part
<1>6. /\ Len(part) \in Nat /\ Len(part) <= n /\ Len(part) <= Len(rest)
      /\ Len(part) < Len(rest) => Len(part) = n
  <2>1. CASE n < Len(rest)
    BY <1>3, <1>4, <2>1
  <2>2. CASE ~(n < Len(rest))
    BY <1>3, <1>4, <2>2
  <2> QED
    BY <2>1, <2>2
<1>7. /\ c <= Len(seq) => c + Len(part) <= Len(seq)
      /\ c > Len(seq) => Len(part) = 0
      /\ c + Len(part) < Len(seq) => Len(part) = n
  <2>1. CASE c < Len(seq)
    <3>1. Len(rest) = Len(seq) - c
      BY <1>1, <2>1
    <3> QED
      BY <1>3, <1>6, <2>1, <3>1
  <2>2. CASE ~(c < Len(seq))
    <3>1. Len(rest) = 0
      BY <1>1, <2>2
    <3> QED
      BY <1>3, <1>6, <2>2, <3>1
  <2> QED
    BY <2>1, <2>2
<1>8. \A k \in 1..Len(part) : c + k \in 1..Len(seq) /\ part[k] = seq[c + k]
  <2> SUFFICES ASSUME NEW k \in 1..Len(part)
               PROVE  c + k \in 1..Len(seq) /\ part[k] = seq[c + k]
    OBVIOUS
  <2>1. k \in 1..Len(rest)
    BY <1>3, <1>6
  <2> QED
    BY <1>1, <1>4, <2>1
<1>9. /\ part \in Seq(Item) /\ Len(part) \in Nat /\ Len(part) <= n
      /\ c <= Len(seq) => c + Len(part) <= Len(seq)
      /\ c > Len(seq) => Len(part) = 0
      /\ c + Len(part) < Len(seq) => Len(part) = n
      /\ \A k \in 1..Len(part) : c + k \in 1..Len(seq) /\ part[k] = seq[c + k]
      /\ Sublist(part, seq)
  BY <1>4, <1>5, <1>6, <1>7, <1>8
<1> QED
  BY <1>9, Zenon DEF part, rest

LEMMA KeptIsSublist ==
  ASSUME NEW items \in Seq(Item), NEW places \in SUBSET (1..Len(items))
  PROVE  /\ Sublist(Kept(items, places), items)
         /\ \A k \in places :
              \E n \in 1..Len(Kept(items, places)) : Kept(items, places)[n] = items[k]
<1> DEFINE sub == Kept(items, places)
<1>1. sub \in Seq(Item) /\ Extracts(sub, items, places)
  BY KeptExtracts
<1> HIDE DEF sub
<1>2. /\ \A n \in 1..Len(sub) : \E k \in 1..Len(items) : sub[n] = items[k]
      /\ \A k \in places : \E n \in 1..Len(sub) : sub[n] = items[k]
  BY <1>1 DEF Extracts
<1>3. \A m, n \in 1..Len(sub) :
        m < n => \E j, k \in 1..Len(items) :
                   j < k /\ sub[m] = items[j] /\ sub[n] = items[k]
  BY <1>1 DEF Extracts
<1>4. Sublist(sub, items)
  BY <1>1, <1>2, <1>3 DEF Sublist
<1> QED
  BY <1>2, <1>4 DEF sub

LEMMA FirstOfDistinct ==
  ASSUME NEW ids \in Seq(Nat), NEW n \in Nat, Distinct(ids)
  PROVE  /\ First(ids, n) \in Seq(Nat) /\ Len(First(ids, n)) <= n
         /\ Distinct(First(ids, n))
<1> DEFINE kept == First(ids, n)
<1>1. /\ kept \in Seq(Nat) /\ Len(kept) <= n /\ Len(kept) <= Len(ids)
      /\ \A k \in 1..Len(kept) : kept[k] = ids[k]
  BY FirstProperties
<1> HIDE DEF kept
<1>2. \A j, k \in 1..Len(ids) : ids[j] = ids[k] => j = k
  BY InLists
<1>3. Len(ids) \in Nat /\ Len(kept) \in Nat
  BY <1>1
<1>4. \A j, k \in 1..Len(kept) : kept[j] = kept[k] => j = k
  BY <1>1, <1>2, <1>3, SMTT(30)
<1>5. Distinct(kept)
  BY <1>1, <1>4, InLists
<1> QED
  BY <1>1, <1>5 DEF kept

(* What follows an anchor: everything behind its place, or nothing when it *)
(* is gone.                                                                *)
LEMMA FollowingProperties ==
  ASSUME NEW listing \in Seq(Item), NEW anchor
  PROVE  \E c \in 0..Len(listing) :
           /\ Following(listing, anchor) \in Seq(Item)
           /\ Len(Following(listing, anchor)) = Len(listing) - c
           /\ \A k \in 1..(Len(listing) - c) :
                Following(listing, anchor)[k] = listing[c + k]
           /\ Sublist(Following(listing, anchor), listing)
           /\ \/ c \in 1..Len(listing) /\ listing[c].id = anchor
              \/ c = Len(listing) /\ \A k \in 1..Len(listing) : listing[k].id # anchor
<1>1. Len(listing) \in Nat /\ DOMAIN listing = 1..Len(listing)
  OBVIOUS
<1>2. CASE \E k \in DOMAIN listing : listing[k].id = anchor
  <2> DEFINE c == CHOOSE k \in DOMAIN listing : listing[k].id = anchor
  <2>1. c \in DOMAIN listing /\ listing[c].id = anchor
    BY <1>2
  <2>2. Following(listing, anchor) = Beyond(listing, c)
    BY <1>2 DEF Following
  <2> HIDE DEF c
  <2>3. c \in 1..Len(listing) /\ c \in 0..Len(listing) /\ c \in Nat
    BY <1>1, <2>1
  <2>4. /\ Beyond(listing, c) \in Seq(Item)
        /\ Len(Beyond(listing, c)) = Len(listing) - c
        /\ \A k \in 1..(Len(listing) - c) : Beyond(listing, c)[k] = listing[c + k]
    BY <2>3, TailProperties, Zenon
  <2>5. Sublist(Beyond(listing, c), listing)
    BY <2>3, PartsAreSublists
  <2>6. /\ Following(listing, anchor) \in Seq(Item)
        /\ Len(Following(listing, anchor)) = Len(listing) - c
        /\ \A k \in 1..(Len(listing) - c) :
             Following(listing, anchor)[k] = listing[c + k]
        /\ Sublist(Following(listing, anchor), listing)
    BY <2>2, <2>4, <2>5, Zenon
  <2>7. c \in 1..Len(listing) /\ listing[c].id = anchor
    BY <2>1, <2>3
  <2> WITNESS c \in 0..Len(listing)
  <2> QED
    BY <2>6, <2>7
<1>3. CASE ~\E k \in DOMAIN listing : listing[k].id = anchor
  <2>1. Following(listing, anchor) = << >>
    BY <1>3 DEF Following
  <2>2. << >> \in Seq(Item) /\ Len(<< >>) = Len(listing) - Len(listing)
    BY <1>1
  <2>3. Sublist(<< >>, listing)
    BY <2>2 DEF Sublist
  <2>4. \A k \in 1..(Len(listing) - Len(listing)) : << >>[k] = listing[Len(listing) + k]
    BY <1>1
  <2>5. \A k \in 1..Len(listing) : listing[k].id # anchor
    BY <1>1, <1>3
  <2>6. Len(listing) \in 0..Len(listing)
    BY <1>1
  <2> WITNESS Len(listing) \in 0..Len(listing)
  <2> QED
    BY <2>1, <2>2, <2>3, <2>4, <2>5
<1> QED
  BY <1>2, <1>3

(* The greatest number of a set that has a bound. *)
LEMMA Greatest ==
  ASSUME NEW S \in SUBSET Nat, S # {}, NEW bound \in Nat, \A k \in S : k <= bound
  PROVE  \E k \in S : \A j \in S : j <= k
<1> DEFINE gaps == {bound - k : k \in S}
<1>1. gaps \in SUBSET Nat /\ gaps # {}
  <2>1. \A k \in S : k \in Nat /\ bound - k \in Nat
    OBVIOUS
  <2>2. \E k \in S : bound - k \in gaps
    OBVIOUS
  <2> QED
    BY <2>1, <2>2
<1>2. PICK gap \in gaps : \A d \in gaps : gap <= d
  BY <1>1, Least
<1>3. PICK k \in S : gap = bound - k
  BY <1>2
<1>4. \A j \in S : bound - k <= bound - j
  BY <1>2, <1>3
<1>5. \A j \in S : j <= k
  BY <1>4
<1> QED
  BY <1>5

(* The same of the elements.                                               *)
LEMMA KeptPlaces ==
  ASSUME NEW S, NEW seq \in Seq(S), NEW places \in SUBSET (1..Len(seq))
  PROVE  \E place :
           /\ Enumerates(place, places)
           /\ Len(Kept(seq, places)) = Cardinality(places)
           /\ \A n \in 1..Cardinality(places) : Kept(seq, places)[n] = seq[place[n]]
<1>0. Len(seq) \in Nat /\ \A k \in places : seq[k] \in S
  OBVIOUS
<1> DEFINE C == Cardinality(places)
           sub == Kept(seq, places)
<1> HIDE DEF C, sub
<1>1. PICK place :
        /\ Enumerates(place, places)
        /\ sub = [n \in 1..C |-> seq[place[n]]]
  BY <1>0, KeptProperties DEF C, sub
<1>2. C \in Nat /\ \A n \in 1..C : place[n] \in places
  BY <1>1 DEF Enumerates, C
<1>3. \A n \in 1..C : seq[place[n]] \in S
  BY <1>0, <1>2
<1>4. sub \in Seq(S) /\ Len(sub) = C /\ \A n \in 1..C : sub[n] = seq[place[n]]
  BY <1>1, <1>2, <1>3
<1> QED
  BY <1>1, <1>4 DEF C, sub

(* What is kept of a sequence at places without a gap.                     *)
LEMMA IntervalKept ==
  ASSUME NEW S, NEW seq \in Seq(S), NEW a \in Nat, NEW c \in Nat, a + c = Len(seq)
  PROVE  /\ Len(Kept(seq, (a + 1)..(a + c))) = c
         /\ \A n \in 1..c : Kept(seq, (a + 1)..(a + c))[n] = seq[a + n]
<1> DEFINE places == (a + 1)..(a + c)
<1>1. places \in SUBSET (1..Len(seq))
  OBVIOUS
<1>2. Cardinality(places) = c
  <2>1. a + 1 \in Int /\ a + c \in Int
    OBVIOUS
  <2>2. Cardinality(places) = IF a + 1 > a + c THEN 0 ELSE (a + c) - (a + 1) + 1
    BY <2>1, FS_Interval
  <2> QED
    BY <2>2
<1>3. PICK place :
        /\ Enumerates(place, places)
        /\ Len(Kept(seq, places)) = Cardinality(places)
        /\ \A n \in 1..Cardinality(places) : Kept(seq, places)[n] = seq[place[n]]
  <2> HIDE DEF places
  <2> QED
    BY <1>1, KeptPlaces, Zenon
<1>4. /\ \A n \in 1..c : place[n] \in places
      /\ \A m, n \in 1..c : m < n => place[m] < place[n]
      /\ \A k \in places : \E n \in 1..c : place[n] = k
  BY <1>2, <1>3 DEF Enumerates
<1>5. \A n \in 1..c : place[n] = a + n
  <2> DEFINE wrong == {n \in 1..c : place[n] # a + n}
  <2> SUFFICES ASSUME wrong # {}
               PROVE  FALSE
    OBVIOUS
  <2>1. wrong \in SUBSET Nat
    OBVIOUS
  <2>2. PICK n \in wrong : \A m \in wrong : n <= m
    BY <2>1, Least
  <2>3. n \in 1..c /\ place[n] # a + n /\ \A m \in 1..c : m < n => place[m] = a + m
    BY <2>2
  <2> HIDE DEF wrong
  <2>4. a + n \in places /\ place[n] \in places
    BY <1>4, <2>3
  <2>5. PICK m \in 1..c : place[m] = a + n
    BY <1>4, <2>4
  <2>6. ~(m < n) /\ m # n
    BY <2>3, <2>5
  <2>7. place[n] < a + n /\ place[n] - a \in 1..c /\ place[n] - a < n
    BY <1>4, <2>3, <2>4, <2>5, <2>6
  <2>8. place[place[n] - a] = place[n]
    BY <2>3, <2>4, <2>7
  <2> QED
    BY <1>4, <2>3, <2>7, <2>8
<1> HIDE DEF places
<1>6. /\ Len(Kept(seq, places)) = c
      /\ \A n \in 1..c : Kept(seq, places)[n] = seq[a + n]
  BY <1>2, <1>3, <1>5
<1> QED
  BY <1>6 DEF places

(* A listing from its end to its beginning. *)
OldestFirst(items) == [k \in DOMAIN items |-> items[Len(items) + 1 - k]]

LEMMA OldestFirstProperties ==
  ASSUME NEW items \in Seq(Item)
  PROVE  /\ OldestFirst(items) \in Seq(Item)
         /\ Len(OldestFirst(items)) = Len(items)
         /\ \A k \in 1..Len(items) :
              /\ Len(items) + 1 - k \in 1..Len(items)
              /\ OldestFirst(items)[k] = items[Len(items) + 1 - k]
         /\ Apart(items) => Apart(OldestFirst(items))
<1> DEFINE N == Len(items)
           old == OldestFirst(items)
<1>1. N \in Nat /\ DOMAIN items = 1..N /\ \A k \in 1..N : items[k] \in Item
  OBVIOUS
<1>2. \A k \in 1..N : N + 1 - k \in 1..N /\ items[N + 1 - k] \in Item
  BY <1>1
<1>3. old = [k \in 1..N |-> items[N + 1 - k]]
  BY <1>1 DEF OldestFirst
<1> HIDE DEF N, old
<1>4. /\ old \in Seq(Item) /\ Len(old) = N
      /\ \A k \in 1..N : old[k] = items[N + 1 - k]
  BY <1>1, <1>2, <1>3
<1>5. ASSUME \A j, k \in 1..N : items[j].id = items[k].id => j = k,
             NEW j \in 1..N, NEW k \in 1..N, old[j].id = old[k].id
      PROVE  j = k
  <2> DEFINE a == N + 1 - j
             b == N + 1 - k
  <2>1. /\ a \in 1..N /\ old[j] = items[a]
        /\ b \in 1..N /\ old[k] = items[b]
    BY <1>2, <1>4
  <2>2. a = b
    <3> HIDE DEF a, b
    <3> QED
      BY <1>5, <2>1
  <2> QED
    BY <1>1, <2>2
<1>6. Apart(items) => Apart(old)
  BY <1>4, <1>5 DEF Apart, N
<1> QED
  BY <1>2, <1>4, <1>6 DEF N, old

(* A search for the items last updated in or after a second, oldest first: *)
(* of a listing that has the last updated item first it finds the first    *)
(* items, from the last of them up.                                        *)
LEMMA SearchProperties ==
  ASSUME NEW items \in Seq(Item), NEW time \in Nat,
         \A j, k \in 1..Len(items) : j < k => items[j].at >= items[k].at
  PROVE  LET old == OldestFirst(items)
             found == Kept(old, {k \in DOMAIN old : old[k].at >= time})
         IN \E c \in 0..Len(items) :
              /\ found \in Seq(Item) /\ Len(found) = c
              /\ Sublist(found, old) /\ old \in Seq(Item)
              /\ \A k \in 1..Len(items) : items[k].at >= time <=> k <= c
              /\ \A n \in 1..c : c + 1 - n \in 1..c /\ found[n] = items[c + 1 - n]
<1> DEFINE N == Len(items)
           old == OldestFirst(items)
           places == {k \in DOMAIN old : old[k].at >= time}
           found == Kept(old, places)
           before == {k \in 1..N : items[k].at < time}
<1>1. /\ N \in Nat /\ DOMAIN items = 1..N
      /\ \A k \in 1..N : items[k] \in Item /\ items[k].at \in Nat
      /\ \A j, k \in 1..N : j < k => items[j].at >= items[k].at
  BY ItemFields
<1> HIDE DEF N
<1>2. /\ DOMAIN old = 1..N /\ Len(old) = N /\ old \in Seq(Item)
      /\ \A k \in 1..N : N + 1 - k \in 1..N /\ old[k] = items[N + 1 - k]
  <2>1. old \in Seq(Item) /\ Len(old) = N
    BY OldestFirstProperties DEF N
  <2>2. \A k \in 1..N : N + 1 - k \in 1..N /\ old[k] = items[N + 1 - k]
    BY OldestFirstProperties DEF N
  <2> HIDE DEF old
  <2> QED
    BY <2>1, <2>2
<1>3. PICK c \in 0..N : \A k \in 1..N : items[k].at >= time <=> k <= c
  <2>1. CASE before = {}
    <3>1. \A k \in 1..N : items[k].at >= time <=> k <= N
      BY <1>1, <2>1
    <3> N \in 0..N
      BY <1>1
    <3> WITNESS N \in 0..N
    <3> QED
      BY <3>1
  <2>2. CASE before # {}
    <3>1. before \in SUBSET Nat
      OBVIOUS
    <3>2. PICK m \in before : \A k \in before : m <= k
      BY <2>2, <3>1, Least
    <3>3. m \in 1..N /\ items[m].at < time
      BY <3>2
    <3>4. \A k \in 1..N : items[k].at < time => m <= k
      BY <3>2
    <3>5. ASSUME NEW k \in 1..N
          PROVE  items[k].at >= time <=> k <= m - 1
      <4>1. CASE k < m
        BY <1>1, <3>3, <3>4, <4>1
      <4>2. CASE k = m
        BY <1>1, <3>3, <4>2
      <4>3. CASE m < k
        <5>1. items[m].at >= items[k].at
          BY <1>1, <3>3, <4>3
        <5> QED
          BY <1>1, <3>3, <4>3, <5>1
      <4> QED
        BY <3>3, <4>1, <4>2, <4>3
    <3> m - 1 \in 0..N
      BY <1>1, <3>3
    <3> WITNESS m - 1 \in 0..N
    <3> QED
      BY <3>5
  <2> QED
    BY <2>1, <2>2
<1> HIDE DEF old, before
<1>4. places = ((N - c) + 1)..((N - c) + c)
  <2>1. \A k \in 1..N : old[k].at >= time <=> N + 1 - k <= c
    BY <1>2, <1>3
  <2>2. places = {k \in 1..N : N + 1 - k <= c}
    BY <1>2, <2>1
  <2> HIDE DEF places
  <2>3. N \in Nat /\ c \in 0..N
    BY <1>1
  <2>4. \A k \in 1..N : N + 1 - k <= c <=> k \in ((N - c) + 1)..((N - c) + c)
    BY <2>3
  <2>5. ((N - c) + 1)..((N - c) + c) \subseteq 1..N
    BY <2>3
  <2> QED
    BY <2>2, <2>4, <2>5
<1>5. N - c \in Nat /\ c \in Nat
  BY <1>1, <1>3
<1>6. Sublist(found, old)
  <2>1. places \in SUBSET (1..Len(old))
    BY <1>2
  <2> HIDE DEF places
  <2> QED
    BY <1>2, <2>1, KeptIsSublist
<1> HIDE DEF places
<1>7. Len(found) = c /\ \A n \in 1..c : found[n] = old[(N - c) + n]
  <2> DEFINE a == N - c
  <2>1. a \in Nat /\ a + c = Len(old) /\ found = Kept(old, (a + 1)..(a + c))
    BY <1>1, <1>2, <1>4, <1>5 DEF found
  <2> HIDE DEF a, found
  <2>2. /\ Len(Kept(old, (a + 1)..(a + c))) = c
        /\ \A n \in 1..c : Kept(old, (a + 1)..(a + c))[n] = old[a + n]
    <3>1. old \in Seq(Item) /\ c \in Nat /\ a \in Nat /\ a + c = Len(old)
      BY <1>2, <1>5, <2>1
    <3> QED
      BY ONLY <3>1, IntervalKept, Zenon
  <2> QED
    BY <2>1, <2>2, Zenon DEF a
<1>8. found \in Seq(Item) /\ Len(found) = c
  BY <1>6, <1>7 DEF Sublist
<1>9. ASSUME NEW n \in 1..c
      PROVE  c + 1 - n \in 1..c /\ found[n] = items[c + 1 - n]
  <2>1. (N - c) + n \in 1..N /\ N + 1 - ((N - c) + n) = c + 1 - n /\ c + 1 - n \in 1..c
    BY <1>1, <1>5
  <2>2. old[(N - c) + n] = items[c + 1 - n]
    BY <1>2, <2>1
  <2> QED
    BY <1>7, <2>1, <2>2
<1> HIDE DEF found
<1> SUFFICES \E d \in 0..N :
              /\ found \in Seq(Item) /\ Len(found) = d
              /\ Sublist(found, old) /\ old \in Seq(Item)
              /\ \A k \in 1..N : items[k].at >= time <=> k <= d
              /\ \A n \in 1..d : d + 1 - n \in 1..d /\ found[n] = items[d + 1 - n]
  BY DEF N, old, places, found
<1> WITNESS c \in 0..N
<1> QED
  BY <1>2, <1>3, <1>6, <1>8, <1>9
=============================================================================
