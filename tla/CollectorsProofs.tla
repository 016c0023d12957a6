-------------------------- MODULE CollectorsProofs --------------------------
(***************************************************************************)
(* Proofs about every collector and the source it polls.                   *)
(***************************************************************************)
EXTENDS Collectors, ListingProofs

-----------------------------------------------------------------------------
(* Every collector is built from the operators of Listing; those of its    *)
(* instance are the ones the lemmas on listings are about.                 *)
LEMMA RSSListing ==
  /\ RSS!Item = Item
  /\ \A s, n : RSS!First(s, n) = First(s, n)
  /\ \A s, n : RSS!Beyond(s, n) = Beyond(s, n)
  /\ \A item, c : RSS!EventOf(item, c) = EventOf(item, c)
  /\ \A n, t, c, m : RSS!Result(n, t, c, m) = Result(n, t, c, m)
<1>1. RSS!Item = Item
  BY DEF RSS!Item, Item
<1>2. \A s, n : RSS!First(s, n) = First(s, n)
  BY Zenon DEF RSS!First, First
<1>3. \A s, n : RSS!Beyond(s, n) = Beyond(s, n)
  BY Zenon DEF RSS!Beyond, Beyond
<1>4. \A item, c : RSS!EventOf(item, c) = EventOf(item, c)
  BY Zenon DEF RSS!EventOf, EventOf
<1>5. \A n, t, c, m : RSS!Result(n, t, c, m) = Result(n, t, c, m)
  BY Zenon DEF RSS!Result, Result
<1> QED
  BY <1>1, <1>2, <1>3, <1>4, <1>5

LEMMA JSONFeedListing ==
  /\ JSONFeed!Item = Item
  /\ \A s, n : JSONFeed!First(s, n) = First(s, n)
  /\ \A s, n : JSONFeed!Beyond(s, n) = Beyond(s, n)
  /\ \A s, n, m : JSONFeed!ServedPage(s, n, m) = ServedPage(s, n, m)
  /\ \A s, known : JSONFeed!Before(s, known) = Before(s, known)
  /\ \A s, known : JSONFeed!Without(s, known) = Without(s, known)
  /\ \A s, t : JSONFeed!Remember(s, t) = Remember(s, t)
  /\ \A s : JSONFeed!IdSeq(s) = IdSeq(s)
  /\ \A s : JSONFeed!Remembered(s) = Remembered(s)
  /\ \A item, c : JSONFeed!EventOf(item, c) = EventOf(item, c)
  /\ \A n, t, c, m : JSONFeed!Result(n, t, c, m) = Result(n, t, c, m)
<1>1. JSONFeed!Item = Item
  BY DEF JSONFeed!Item, Item
<1>2. \A s, n : JSONFeed!First(s, n) = First(s, n)
  BY Zenon DEF JSONFeed!First, First
<1>3. \A s, n : JSONFeed!Beyond(s, n) = Beyond(s, n)
  BY Zenon DEF JSONFeed!Beyond, Beyond
<1>4. \A s, n, m : JSONFeed!ServedPage(s, n, m) = ServedPage(s, n, m)
  BY Zenon DEF JSONFeed!ServedPage, ServedPage, JSONFeed!First, First,
     JSONFeed!Beyond, Beyond
<1>5. \A s, known : JSONFeed!Before(s, known) = Before(s, known)
  BY Zenon DEF JSONFeed!Before, Before, JSONFeed!First, First, JSONFeed!Among,
     Among
<1>6. \A s, known : JSONFeed!Without(s, known) = Without(s, known)
  BY Zenon DEF JSONFeed!Without, Without, JSONFeed!Kept, Kept, JSONFeed!Among,
     Among, JSONFeed!Cardinality, Cardinality
<1>7. \A s, t : JSONFeed!Remember(s, t) = Remember(s, t)
  BY Zenon DEF JSONFeed!Remember, Remember, JSONFeed!First, First,
     JSONFeed!Merged, Merged, JSONFeed!Omit, Omit, JSONFeed!Kept, Kept,
     JSONFeed!Among, Among, JSONFeed!Cardinality, Cardinality
<1>8. \A s : JSONFeed!IdSeq(s) = IdSeq(s)
  BY Zenon DEF JSONFeed!IdSeq, IdSeq
<1>9. \A s : JSONFeed!Remembered(s) = Remembered(s)
  BY Zenon DEF JSONFeed!Remembered, Remembered, JSONFeed!Distinct, Distinct
<1>10. \A item, c : JSONFeed!EventOf(item, c) = EventOf(item, c)
  BY Zenon DEF JSONFeed!EventOf, EventOf
<1>11. \A n, t, c, m : JSONFeed!Result(n, t, c, m) = Result(n, t, c, m)
  BY Zenon DEF JSONFeed!Result, Result
<1> QED
  BY <1>1, <1>2, <1>3, <1>4, <1>5, <1>6, <1>7, <1>8, <1>9, <1>10, <1>11

LEMMA GitHubListing ==
  /\ \A s, n : GitHub!First(s, n) = First(s, n)
  /\ \A s, n : GitHub!Beyond(s, n) = Beyond(s, n)
  /\ \A s, n, m : GitHub!ServedPage(s, n, m) = ServedPage(s, n, m)
  /\ \A s, places : GitHub!Kept(s, places) = Kept(s, places)
  /\ \A item, c : GitHub!EventOf(item, c) = EventOf(item, c)
  /\ \A n, t, c, m : GitHub!Result(n, t, c, m) = Result(n, t, c, m)
<1>1. \A s, n : GitHub!First(s, n) = First(s, n)
  BY Zenon DEF GitHub!First, First
<1>2. \A s, n : GitHub!Beyond(s, n) = Beyond(s, n)
  BY Zenon DEF GitHub!Beyond, Beyond
<1>3. \A s, n, m : GitHub!ServedPage(s, n, m) = ServedPage(s, n, m)
  BY Zenon DEF GitHub!ServedPage, ServedPage, GitHub!First, First,
     GitHub!Beyond, Beyond
<1>4. \A s, places : GitHub!Kept(s, places) = Kept(s, places)
  BY Zenon DEF GitHub!Kept, Kept, GitHub!Cardinality, Cardinality
<1>5. \A item, c : GitHub!EventOf(item, c) = EventOf(item, c)
  BY Zenon DEF GitHub!EventOf, EventOf
<1>6. \A n, t, c, m : GitHub!Result(n, t, c, m) = Result(n, t, c, m)
  BY Zenon DEF GitHub!Result, Result
<1> QED
  BY <1>1, <1>2, <1>3, <1>4, <1>5, <1>6

LEMMA HackerNewsListing ==
  /\ \A s, n : HackerNews!First(s, n) = First(s, n)
  /\ \A s, t : HackerNews!Omit(s, t) = Omit(s, t)
  /\ \A s, t : HackerNews!Merged(s, t) = Merged(s, t)
  /\ \A s, places : HackerNews!Kept(s, places) = Kept(s, places)
  /\ \A s, known : HackerNews!Without(s, known) = Without(s, known)
  /\ \A s, t : HackerNews!Remember(s, t) = Remember(s, t)
  /\ \A s : HackerNews!IdSeq(s) = IdSeq(s)
  /\ \A s : HackerNews!IdsIn(s) = IdsIn(s)
  /\ \A s : HackerNews!Distinct(s) = Distinct(s)
  /\ \A s : HackerNews!Remembered(s) = Remembered(s)
  /\ \A item, c : HackerNews!EventOf(item, c) = EventOf(item, c)
  /\ \A n, t, c, m : HackerNews!Result(n, t, c, m) = Result(n, t, c, m)
<1>1. \A s, n : HackerNews!First(s, n) = First(s, n)
  BY Zenon DEF HackerNews!First, First
<1>2. \A s, t : HackerNews!Omit(s, t) = Omit(s, t)
  BY Zenon DEF HackerNews!Omit, Omit, HackerNews!Kept, Kept, HackerNews!Among,
     Among, HackerNews!Cardinality, Cardinality
<1>3. \A s, t : HackerNews!Merged(s, t) = Merged(s, t)
  BY Zenon DEF HackerNews!Merged, Merged, HackerNews!Omit, Omit,
     HackerNews!Kept, Kept, HackerNews!Among, Among, HackerNews!Cardinality,
     Cardinality
<1>4. \A s, places : HackerNews!Kept(s, places) = Kept(s, places)
  BY Zenon DEF HackerNews!Kept, Kept, HackerNews!Cardinality, Cardinality
<1>5. \A s, known : HackerNews!Without(s, known) = Without(s, known)
  BY Zenon DEF HackerNews!Without, Without, HackerNews!Kept, Kept,
     HackerNews!Among, Among, HackerNews!Cardinality, Cardinality
<1>6. \A s, t : HackerNews!Remember(s, t) = Remember(s, t)
  BY Zenon DEF HackerNews!Remember, Remember, HackerNews!First, First,
     HackerNews!Merged, Merged, HackerNews!Omit, Omit, HackerNews!Kept, Kept,
     HackerNews!Among, Among, HackerNews!Cardinality, Cardinality
<1>7. \A s : HackerNews!IdSeq(s) = IdSeq(s)
  BY Zenon DEF HackerNews!IdSeq, IdSeq
<1>8. \A s : HackerNews!IdsIn(s) = IdsIn(s)
  BY Zenon DEF HackerNews!IdsIn, IdsIn
<1>9. \A s : HackerNews!Distinct(s) = Distinct(s)
  BY Zenon DEF HackerNews!Distinct, Distinct
<1>10. \A s : HackerNews!Remembered(s) = Remembered(s)
  BY Zenon DEF HackerNews!Remembered, Remembered, HackerNews!Distinct,
     Distinct
<1>11. \A item, c : HackerNews!EventOf(item, c) = EventOf(item, c)
  BY Zenon DEF HackerNews!EventOf, EventOf
<1>12. \A n, t, c, m : HackerNews!Result(n, t, c, m) = Result(n, t, c, m)
  BY Zenon DEF HackerNews!Result, Result
<1> QED
  BY <1>1, <1>2, <1>3, <1>4, <1>5, <1>6, <1>7, <1>8, <1>9, <1>10, <1>11, <1>12

LEMMA RedditListing ==
  /\ \A s, n : Reddit!First(s, n) = First(s, n)
  /\ \A s, x : Reddit!Following(s, x) = Following(s, x)
  /\ \A s, known : Reddit!Before(s, known) = Before(s, known)
  /\ \A s, t : Reddit!Omit(s, t) = Omit(s, t)
  /\ \A s, known : Reddit!Without(s, known) = Without(s, known)
  /\ \A s, t : Reddit!Remember(s, t) = Remember(s, t)
  /\ \A s : Reddit!IdSeq(s) = IdSeq(s)
  /\ \A s : Reddit!IdsIn(s) = IdsIn(s)
  /\ \A s : Reddit!Remembered(s) = Remembered(s)
  /\ \A item, c : Reddit!EventOf(item, c) = EventOf(item, c)
  /\ \A n, t, c, m : Reddit!Result(n, t, c, m) = Result(n, t, c, m)
<1>1. \A s, n : Reddit!First(s, n) = First(s, n)
  BY Zenon DEF Reddit!First, First
<1>2. \A s, x : Reddit!Following(s, x) = Following(s, x)
  BY Zenon DEF Reddit!Following, Following, Reddit!Beyond, Beyond
<1>3. \A s, known : Reddit!Before(s, known) = Before(s, known)
  BY Zenon DEF Reddit!Before, Before, Reddit!First, First, Reddit!Among, Among
<1>4. \A s, t : Reddit!Omit(s, t) = Omit(s, t)
  BY Zenon DEF Reddit!Omit, Omit, Reddit!Kept, Kept, Reddit!Among, Among,
     Reddit!Cardinality, Cardinality
<1>5. \A s, known : Reddit!Without(s, known) = Without(s, known)
  BY Zenon DEF Reddit!Without, Without, Reddit!Kept, Kept, Reddit!Among,
     Among, Reddit!Cardinality, Cardinality
<1>6. \A s, t : Reddit!Remember(s, t) = Remember(s, t)
  BY Zenon DEF Reddit!Remember, Remember, Reddit!First, First, Reddit!Merged,
     Merged, Reddit!Omit, Omit, Reddit!Kept, Kept, Reddit!Among, Among,
     Reddit!Cardinality, Cardinality
<1>7. \A s : Reddit!IdSeq(s) = IdSeq(s)
  BY Zenon DEF Reddit!IdSeq, IdSeq
<1>8. \A s : Reddit!IdsIn(s) = IdsIn(s)
  BY Zenon DEF Reddit!IdsIn, IdsIn
<1>9. \A s : Reddit!Remembered(s) = Remembered(s)
  BY Zenon DEF Reddit!Remembered, Remembered, Reddit!Distinct, Distinct
<1>10. \A item, c : Reddit!EventOf(item, c) = EventOf(item, c)
  BY Zenon DEF Reddit!EventOf, EventOf
<1>11. \A n, t, c, m : Reddit!Result(n, t, c, m) = Result(n, t, c, m)
  BY Zenon DEF Reddit!Result, Result
<1> QED
  BY <1>1, <1>2, <1>3, <1>4, <1>5, <1>6, <1>7, <1>8, <1>9, <1>10, <1>11

LEMMA RESTListing ==
  /\ REST!Item = Item
  /\ \A s, n : REST!First(s, n) = First(s, n)
  /\ \A s, n : REST!Beyond(s, n) = Beyond(s, n)
  /\ \A s, x : REST!Following(s, x) = Following(s, x)
  /\ \A s, known : REST!Before(s, known) = Before(s, known)
  /\ \A s, known : REST!Without(s, known) = Without(s, known)
  /\ \A s, t : REST!Remember(s, t) = Remember(s, t)
  /\ \A s : REST!IdSeq(s) = IdSeq(s)
  /\ \A s : REST!Distinct(s) = Distinct(s)
  /\ \A s : REST!Remembered(s) = Remembered(s)
  /\ \A item, c : REST!EventOf(item, c) = EventOf(item, c)
  /\ \A n, t, c, m : REST!Result(n, t, c, m) = Result(n, t, c, m)
<1>1. REST!Item = Item
  BY DEF REST!Item, Item
<1>2. \A s, n : REST!First(s, n) = First(s, n)
  BY Zenon DEF REST!First, First
<1>3. \A s, n : REST!Beyond(s, n) = Beyond(s, n)
  BY Zenon DEF REST!Beyond, Beyond
<1>4. \A s, x : REST!Following(s, x) = Following(s, x)
  BY Zenon DEF REST!Following, Following, REST!Beyond, Beyond
<1>5. \A s, known : REST!Before(s, known) = Before(s, known)
  BY Zenon DEF REST!Before, Before, REST!First, First, REST!Among, Among
<1>6. \A s, known : REST!Without(s, known) = Without(s, known)
  BY Zenon DEF REST!Without, Without, REST!Kept, Kept, REST!Among, Among,
     REST!Cardinality, Cardinality
<1>7. \A s, t : REST!Remember(s, t) = Remember(s, t)
  BY Zenon DEF REST!Remember, Remember, REST!First, First, REST!Merged,
     Merged, REST!Omit, Omit, REST!Kept, Kept, REST!Among, Among,
     REST!Cardinality, Cardinality
<1>8. \A s : REST!IdSeq(s) = IdSeq(s)
  BY Zenon DEF REST!IdSeq, IdSeq
<1>9. \A s : REST!Distinct(s) = Distinct(s)
  BY Zenon DEF REST!Distinct, Distinct
<1>10. \A s : REST!Remembered(s) = Remembered(s)
  BY Zenon DEF REST!Remembered, Remembered, REST!Distinct, Distinct
<1>11. \A item, c : REST!EventOf(item, c) = EventOf(item, c)
  BY Zenon DEF REST!EventOf, EventOf
<1>12. \A n, t, c, m : REST!Result(n, t, c, m) = Result(n, t, c, m)
  BY Zenon DEF REST!Result, Result
<1> QED
  BY <1>1, <1>2, <1>3, <1>4, <1>5, <1>6, <1>7, <1>8, <1>9, <1>10, <1>11, <1>12

-----------------------------------------------------------------------------
(* The items a source of these constants can list. *)
Shown == [id : Ids, rev : 1..MaxRev, at : 1..MaxTime, dead : BOOLEAN]

LEMMA Constants ==
  /\ MaxItems \in Nat \ {0} /\ Cap \in Nat \ {0} /\ MaxRev \in Nat \ {0}
  /\ MaxTime \in Nat \ {0} /\ Window \in Nat \ {0} /\ PageSize \in Nat \ {0}
  /\ SearchCap \in Nat \ {0} /\ MaxPerPage \in Nat \ {0}
  /\ Limits \subseteq Nat \ {0}
  /\ Backlog \in Nat /\ Backlog <= MaxItems /\ Refresh \in Nat
  /\ None \notin Nat /\ None \notin Seq(Item)
BY CollectorsAssumption

LEMMA ShownItems ==
  ASSUME NEW items \in Seq(Shown)
  PROVE  /\ items \in Seq(Item) /\ Len(items) \in Nat /\ DOMAIN items = 1..Len(items)
         /\ \A k \in 1..Len(items) :
              /\ items[k] \in Shown
              /\ items[k].id \in Ids /\ items[k].id \in Nat
              /\ items[k].rev \in 1..MaxRev
              /\ items[k].at \in 1..MaxTime /\ items[k].at \in Nat
              /\ items[k].dead \in BOOLEAN
<1>1. Shown \subseteq Item
  BY Constants DEF Shown, Item, Ids
<1>2. /\ items \in Seq(Item) /\ Len(items) \in Nat /\ DOMAIN items = 1..Len(items)
      /\ \A k \in 1..Len(items) : items[k] \in Shown
  BY <1>1
<1>3. ASSUME NEW k \in 1..Len(items)
      PROVE  /\ items[k].id \in Ids /\ items[k].id \in Nat
             /\ items[k].rev \in 1..MaxRev
             /\ items[k].at \in 1..MaxTime /\ items[k].at \in Nat
             /\ items[k].dead \in BOOLEAN
  <2>1. items[k] \in Shown
    BY <1>2
  <2> QED
    BY <2>1, Constants, SMTT(30) DEF Shown, Ids
<1> QED
  BY <1>2, <1>3

LEMMA ListingFacts ==
  ASSUME TypeOK
  PROVE  /\ live \in Seq(Shown) /\ live \in Seq(Item)
         /\ Len(live) \in Nat /\ DOMAIN live = 1..Len(live)
         /\ \A k \in 1..Len(live) :
              /\ live[k] \in Shown /\ live[k] \in Item
              /\ live[k].id \in Ids /\ live[k].id \in Nat
              /\ live[k].rev \in 1..MaxRev /\ live[k].rev # 0
              /\ live[k].at \in 1..MaxTime /\ live[k].at \in Nat
              /\ live[k].dead \in BOOLEAN
         /\ Apart(live)
<1>1. live \in Seq(Shown)
  BY DEF TypeOK, Shown
<1>2. Apart(live)
  BY <1>1, SMTT(30) DEF TypeOK, Apart
<1> QED
  BY <1>1, <1>2, ShownItems

(* What each change of the source does to the listing. *)
LEMMA PublishEffect ==
  ASSUME TypeOK, ListingSorted, NEW time \in 1..MaxTime, Publish(time)
  PROVE  /\ published' = published + 1 /\ published' \in Ids
         /\ now' = time /\ time >= now
         /\ live' \in Seq(Shown)
         /\ Len(live') \in 1..(Len(live) + 1)
         /\ conf.type = "github" => Len(live') = Len(live) + 1
         /\ live'[1] = NewItem(published + 1, time)
         /\ \A k \in 2..Len(live') : k - 1 \in 1..Len(live) /\ live'[k] = live[k - 1]
<1> DEFINE item == NewItem(published + 1, time)
           all == <<item>> \o live
<1>0. conf.items \in Nat /\ conf.items <= MaxItems
  <2>1. conf.items \in Backlog..MaxItems
    BY CollectorsAssumption DEF TypeOK
  <2> QED
    BY <2>1, Constants
<1>1. /\ published \in Nat /\ published < MaxItems /\ published' = published + 1
      /\ now \in Nat /\ time \in Nat /\ now' = time
  BY <1>0, Constants DEF TypeOK, Publish, Later
<1>2. time >= now
  BY <1>1 DEF Publish, Later
<1>3. published + 1 \in Ids
  BY <1>1, Constants DEF Ids
<1>4. item \in Shown
  BY <1>1, <1>3, Constants DEF NewItem, Shown
<1>5. live \in Seq(Shown) /\ Len(live) \in Nat
  BY ListingFacts
<1>6. live' = IF conf.type = "github" THEN all ELSE First(all, Cap)
  BY DEF Publish
<1> HIDE DEF item
<1>7. /\ all \in Seq(Shown) /\ Len(all) = Len(live) + 1 /\ all[1] = item
      /\ \A k \in 2..Len(all) : k - 1 \in 1..Len(live) /\ all[k] = live[k - 1]
  BY <1>4, <1>5
<1> HIDE DEF all
<1>8. /\ First(all, Cap) \in Seq(Shown)
      /\ Len(First(all, Cap)) \in 1..(Len(live) + 1)
      /\ \A k \in 1..Len(First(all, Cap)) : First(all, Cap)[k] = all[k]
  BY <1>5, <1>7, FirstProperties, Constants
<1>9. /\ live' \in Seq(Shown)
      /\ Len(live') \in 1..(Len(live) + 1)
      /\ conf.type = "github" => Len(live') = Len(live) + 1
      /\ \A k \in 1..Len(live') : live'[k] = all[k]
  BY <1>5, <1>6, <1>7, <1>8
<1>10. /\ live'[1] = item
       /\ \A k \in 2..Len(live') : k - 1 \in 1..Len(live) /\ live'[k] = live[k - 1]
  BY <1>5, <1>7, <1>9
<1> QED
  BY <1>1, <1>2, <1>3, <1>9, <1>10 DEF item

LEMMA RemoveEffect ==
  ASSUME TypeOK, NEW k \in DOMAIN live, Remove(k)
  PROVE  /\ live' \in Seq(Shown)
         /\ Len(live') = Len(live) - 1
         /\ \A j \in 1..Len(live') : j < k => live'[j] = live[j]
         /\ \A j \in 1..Len(live') : j >= k => live'[j] = live[j + 1]
<1>1. live \in Seq(Shown) /\ Len(live) \in Nat /\ k \in 1..Len(live)
  BY ListingFacts
<1>2. /\ First(live, k - 1) \in Seq(Shown) /\ Len(First(live, k - 1)) = k - 1
      /\ \A j \in 1..(k - 1) : First(live, k - 1)[j] = live[j]
  BY <1>1, FirstProperties
<1>3. /\ Beyond(live, k) \in Seq(Shown) /\ Len(Beyond(live, k)) = Len(live) - k
      /\ \A j \in 1..(Len(live) - k) : Beyond(live, k)[j] = live[k + j]
  <2>1. k \in 0..Len(live)
    BY <1>1
  <2> QED
    BY <1>1, <2>1, TailProperties, Zenon
<1>4. live' = First(live, k - 1) \o Beyond(live, k)
  BY DEF Remove
<1>5. live' \in Seq(Shown) /\ Len(live') = Len(live) - 1
  BY <1>1, <1>2, <1>3, <1>4
<1>6. ASSUME NEW j \in 1..Len(live'), j < k
      PROVE  live'[j] = live[j]
  BY <1>1, <1>2, <1>3, <1>4, <1>5, <1>6
<1>7. ASSUME NEW j \in 1..Len(live'), j >= k
      PROVE  live'[j] = live[j + 1]
  <2>1. j - (k - 1) \in 1..(Len(live) - k)
    BY <1>1, <1>5, <1>7
  <2>2. live'[j] = Beyond(live, k)[j - (k - 1)]
    BY <1>1, <1>2, <1>3, <1>4, <1>5, <1>7
  <2>3. k + (j - (k - 1)) = j + 1
    BY <1>1, <1>5
  <2> QED
    BY <1>3, <2>1, <2>2, <2>3
<1> QED
  BY <1>5, <1>6, <1>7

LEMMA KillEffect ==
  ASSUME TypeOK, NEW k \in DOMAIN live, Kill(k)
  PROVE  /\ live' \in Seq(Shown) /\ Len(live') = Len(live)
         /\ \A j \in 1..Len(live) :
              /\ live'[j].id = live[j].id /\ live'[j].at = live[j].at
              /\ live[j].dead => live'[j].dead
<1>1. /\ live \in Seq(Shown) /\ k \in 1..Len(live) /\ live[k] \in Shown
  BY ListingFacts
<1> DEFINE item == [live[k] EXCEPT !.dead = TRUE]
<1>2. item \in Shown /\ item.id = live[k].id /\ item.at = live[k].at /\ item.dead
  BY <1>1 DEF Shown
<1>3. live' = [live EXCEPT ![k] = item]
  BY DEF Kill
<1> HIDE DEF item
<1> QED
  BY <1>1, <1>2, <1>3

LEMMA UpdateEffect ==
  ASSUME TypeOK, NEW k \in DOMAIN live, NEW time \in 1..MaxTime, Update(k, time)
  PROVE  /\ now' = time /\ time >= now
         /\ conf.type # "github" => time = now
         /\ live' \in Seq(Shown) /\ Len(live') = Len(live)
         /\ conf.type # "github" =>
              \A j \in 1..Len(live) :
                /\ live'[j].id = live[j].id /\ live'[j].at \in {live[j].at, time}
                /\ live[j].dead => live'[j].dead
         /\ conf.type = "github" =>
              /\ live'[1].id = live[k].id /\ live'[1].at = time
              /\ \A j \in 2..k : live'[j] = live[j - 1]
              /\ \A j \in (k + 1)..Len(live) : live'[j] = live[j]
<1> DEFINE item == [live[k] EXCEPT !.rev = @ + 1, !.at = time]
<1>1. /\ live \in Seq(Shown) /\ Len(live) \in Nat /\ k \in 1..Len(live)
      /\ live[k] \in Shown /\ live[k].rev \in 1..MaxRev
  BY ListingFacts
<1>2. /\ now \in Nat /\ time \in Nat /\ now' = time /\ time >= now
      /\ conf.type # "github" => time = now
  <2>1. /\ now \in Nat /\ time \in Nat /\ now' = time
        /\ time \in now..(IF conf.type = "github" THEN now + 1 ELSE now)
    <3>1. Later(time)
      BY DEF Update
    <3> QED
      BY <3>1, Constants DEF TypeOK, Later
  <2> QED
    BY <2>1
<1>3. item \in Shown /\ item.id = live[k].id /\ item.at = time /\ item.dead = live[k].dead
  <2>1. live[k].rev + 1 \in 1..MaxRev
    <3>1. live[k].rev < MaxRev
      BY Zenon DEF Update
    <3> QED
      BY <1>1, <3>1, Constants
  <2>2. live[k] \in Shown
    BY <1>1
  <2> QED
    <3> DEFINE was == live[k]
               rev == was.rev + 1
    <3>1. was \in [id : Ids, rev : 1..MaxRev, at : 1..MaxTime, dead : BOOLEAN]
      BY <2>2 DEF Shown
    <3>2. item = [was EXCEPT !.rev = rev, !.at = time] /\ rev \in 1..MaxRev
      BY <2>1
    <3> HIDE DEF was, rev, item
    <3>3. /\ item \in [id : Ids, rev : 1..MaxRev, at : 1..MaxTime, dead : BOOLEAN]
          /\ item.id = was.id /\ item.at = time /\ item.dead = was.dead
      BY <3>1, <3>2
    <3> QED
      BY <3>3 DEF Shown, was
<1>4. /\ conf.type = "github" => live' = <<item>> \o First(live, k - 1) \o Beyond(live, k)
      /\ conf.type # "github" => live' = [live EXCEPT ![k] = item]
  BY DEF Update
<1> HIDE DEF item
<1>5. CASE conf.type # "github"
  <2>1. live' = [live EXCEPT ![k] = item]
    BY <1>4, <1>5
  <2>2. live' \in Seq(Shown) /\ Len(live') = Len(live)
    BY <1>1, <1>3, <2>1
  <2>3. \A j \in 1..Len(live) : live'[j] = IF j = k THEN item ELSE live[j]
    BY <1>1, <2>1
  <2>4. \A j \in 1..Len(live) :
          /\ live'[j].id = live[j].id /\ live'[j].at \in {live[j].at, time}
          /\ live[j].dead => live'[j].dead
    BY <1>3, <2>3
  <2> QED
    BY <1>1, <1>2, <1>3, <1>5, <2>2, <2>3, <2>4
<1>6. CASE conf.type = "github"
  <2> DEFINE head == <<item>> \o First(live, k - 1)
             tail == Beyond(live, k)
  <2>1. /\ First(live, k - 1) \in Seq(Shown) /\ Len(First(live, k - 1)) = k - 1
        /\ \A j \in 1..(k - 1) : First(live, k - 1)[j] = live[j]
    BY <1>1, FirstProperties
  <2>2. /\ tail \in Seq(Shown) /\ Len(tail) = Len(live) - k
        /\ \A j \in 1..(Len(live) - k) : tail[j] = live[k + j]
    <3>1. k \in 0..Len(live)
      BY <1>1
    <3> QED
      BY <1>1, <3>1, TailProperties, Zenon
  <2>3. /\ head \in Seq(Shown) /\ Len(head) = k /\ head[1] = item
        /\ \A j \in 2..k : head[j] = live[j - 1]
    <3> DEFINE above == First(live, k - 1)
    <3>1. above \in Seq(Shown) /\ Len(above) = k - 1 /\ k \in Nat \ {0}
      BY <1>1, <2>1
    <3>2. \A j \in 2..k : j - 1 \in 1..(k - 1) /\ above[j - 1] = live[j - 1]
      BY <2>1, <3>1
    <3> HIDE DEF above
    <3>3. /\ <<item>> \o above \in Seq(Shown) /\ Len(<<item>> \o above) = k
          /\ (<<item>> \o above)[1] = item
          /\ \A j \in 2..k : (<<item>> \o above)[j] = above[j - 1]
      BY <1>3, <3>1
    <3> QED
      BY <3>2, <3>3 DEF above
  <2>4. live' = head \o tail
    BY <1>4, <1>6
  <2> HIDE DEF head, tail
  <2>5. /\ live' \in Seq(Shown) /\ Len(live') = Len(live)
        /\ \A j \in 1..k : live'[j] = head[j]
    BY <1>1, <2>2, <2>3, <2>4
  <2>6. ASSUME NEW j \in (k + 1)..Len(live)
        PROVE  live'[j] = live[j]
    <3>1. j - k \in 1..(Len(live) - k) /\ k + (j - k) = j
      BY <1>1
    <3>2. ASSUME NEW i \in 1..Len(tail)
          PROVE  (head \o tail)[Len(head) + i] = tail[i]
      BY <2>2, <2>3
    <3>3. live'[k + (j - k)] = tail[j - k]
      BY <2>2, <2>3, <2>4, <3>1, <3>2
    <3> QED
      BY <2>2, <3>1, <3>3
  <2>7. /\ 1 \in 1..k /\ \A j \in 2..k : j \in 1..k
    BY <1>1
  <2>8. live'[1].id = live[k].id /\ live'[1].at = time
    BY <1>3, <2>3, <2>5, <2>7
  <2>9. \A j \in 2..k : live'[j] = live[j - 1]
    BY <2>3, <2>5, <2>7
  <2>10. conf.type = "github" /\ time >= now /\ now' = time
    BY <1>2, <1>6
  <2> QED
    BY <2>5, <2>6, <2>8, <2>9, <2>10
<1> QED
  BY <1>5, <1>6

-----------------------------------------------------------------------------
(* What a change of the source leaves alone, and what it keeps. *)
LEMMA SourceKeepsTypes ==
  ASSUME TypeOK, SourceStep, live' \in Seq(Shown), Apart(live'),
         published' \in 0..MaxItems, now' \in 1..MaxTime, unread' \in SUBSET Ids,
         waived' \subseteq waived
  PROVE  TypeOK'
<1>1. CursorOK'
  <2>1. CursorOK /\ conf' = conf /\ cursor' = cursor
    BY DEF TypeOK, SourceStep
  <2> QED
    BY <2>1, Zenon DEF CursorOK
<1>2. /\ conf' \in Configs /\ poll' \in BOOLEAN /\ more' \in BOOLEAN
      /\ got' \in [Ids -> 0..MaxRev] /\ redated' \in SUBSET Ids /\ waived' \in SUBSET Ids
  BY DEF TypeOK, SourceStep
<1>3. \A j, k \in DOMAIN live' : live'[j].id = live'[k].id => j = k
  BY ShownItems DEF Apart
<1> QED
  BY <1>1, <1>2, <1>3 DEF TypeOK, Shown

(* The two parts of the order of a listing, for its numbers of items. *)
Listed == \A k \in 1..Len(live) : live[k].id <= published /\ live[k].at <= now
ByUpdate == \A j, k \in 1..Len(live) : j < k => live[j].at >= live[k].at

LEMMA ListingOrder ==
  ASSUME TypeOK
  PROVE  ListingSorted <=>
           /\ Listed
           /\ conf.type = "github" => ByUpdate
           /\ conf.type \notin {"github", "rss"} => NewestFirst(live)
<1>1. DOMAIN live = 1..Len(live)
  BY ListingFacts
<1> QED
  BY <1>1 DEF ListingSorted, Listed, ByUpdate, NewestFirst

LEMMA ListingOrderNext ==
  ASSUME TypeOK', conf' = conf, Listed',
         conf.type = "github" => ByUpdate',
         conf.type \notin {"github", "rss"} => NewestFirst(live')
  PROVE  ListingSorted'
<1>1. DOMAIN live' = 1..Len(live')
  BY ShownItems DEF TypeOK, Shown
<1> QED
  BY <1>1 DEF ListingSorted, Listed, ByUpdate, NewestFirst

LEMMA PublishKeepsTypes ==
  ASSUME TypeOK, ListingSorted, NEW time \in 1..MaxTime, Publish(time)
  PROVE  TypeOK' /\ ListingSorted'
<1>1. /\ published' = published + 1 /\ published' \in Ids
      /\ now' = time /\ time >= now
      /\ live' \in Seq(Shown)
      /\ Len(live') \in 1..(Len(live) + 1)
      /\ live'[1] = NewItem(published + 1, time)
      /\ \A k \in 2..Len(live') : k - 1 \in 1..Len(live) /\ live'[k] = live[k - 1]
  BY PublishEffect
<1>2. /\ live'[1].id = published + 1 /\ live'[1].at = time
      /\ published \in Nat /\ now \in Nat /\ time \in Nat
  BY <1>1, Constants DEF NewItem, TypeOK
<1>3. /\ Len(live) \in Nat /\ Len(live') \in Nat
      /\ \A k \in 1..Len(live) : live[k].id \in Nat /\ live[k].at \in Nat
      /\ \A k \in 1..Len(live') : live'[k].id \in Nat /\ live'[k].at \in Nat
  BY <1>1, ListingFacts, ShownItems
<1>4. Listed
  BY ListingOrder
<1>5. \A k \in 2..Len(live') : live'[k].id <= published /\ live'[k].at <= now
  BY <1>1, <1>4 DEF Listed
<1>6. Listed'
  <2> SUFFICES ASSUME NEW k \in 1..Len(live')
               PROVE  live'[k].id <= published' /\ live'[k].at <= now'
    BY DEF Listed
  <2>1. CASE k = 1
    BY <1>1, <1>2, <2>1
  <2>2. CASE k # 1
    <3>1. k \in 2..Len(live')
      BY <1>3, <2>2
    <3> QED
      BY <1>1, <1>2, <1>3, <1>5, <3>1
  <2> QED
    BY <2>1, <2>2
<1>7. Apart(live')
  <2> SUFFICES ASSUME NEW j \in 1..Len(live'), NEW k \in 1..Len(live'), j < k,
                      live'[j].id = live'[k].id
               PROVE  FALSE
    BY <1>3 DEF Apart
  <2>1. k \in 2..Len(live') /\ k - 1 \in 1..Len(live) /\ live'[k] = live[k - 1]
    BY <1>1, <1>3
  <2>2. CASE j = 1
    BY <1>2, <1>3, <1>5, <2>1, <2>2
  <2>3. CASE j # 1
    <3>1. j - 1 \in 1..Len(live) /\ live'[j] = live[j - 1]
      BY <1>1, <1>3, <2>3
    <3>2. j - 1 = k - 1
      BY <2>1, <3>1, ListingFacts DEF Apart
    <3> QED
      BY <1>3, <3>2
  <2> QED
    BY <2>2, <2>3
<1>8. /\ published' \in 0..MaxItems /\ now' \in 1..MaxTime /\ unread' \in SUBSET Ids
      /\ SourceStep /\ conf' = conf /\ waived' \subseteq waived
  BY <1>1, Constants, SMTT(30) DEF Publish, SourceStep, TypeOK, Ids
<1>9. TypeOK'
  BY <1>1, <1>7, <1>8, SourceKeepsTypes
<1>10. ASSUME conf.type = "github"
       PROVE  ByUpdate'
  <2> SUFFICES ASSUME NEW j \in 1..Len(live'), NEW k \in 1..Len(live'), j < k
               PROVE  live'[j].at >= live'[k].at
    BY DEF ByUpdate
  <2>1. k \in 2..Len(live') /\ k - 1 \in 1..Len(live) /\ live'[k] = live[k - 1]
    BY <1>1, <1>3
  <2>2. CASE j = 1
    BY <1>1, <1>2, <1>3, <1>5, <2>1, <2>2
  <2>3. CASE j # 1
    <3>1. j - 1 \in 1..Len(live) /\ live'[j] = live[j - 1] /\ j - 1 < k - 1
      BY <1>1, <1>3, <2>3
    <3> QED
      BY <1>10, <2>1, <3>1, ListingOrder DEF ByUpdate
  <2> QED
    BY <2>2, <2>3
<1>11. ASSUME conf.type \notin {"github", "rss"}
       PROVE  NewestFirst(live')
  <2> SUFFICES ASSUME NEW j \in 1..Len(live'), NEW k \in 1..Len(live'), j < k
               PROVE  live'[j].id > live'[k].id
    BY DEF NewestFirst
  <2>1. k \in 2..Len(live') /\ k - 1 \in 1..Len(live) /\ live'[k] = live[k - 1]
    BY <1>1, <1>3
  <2>2. CASE j = 1
    BY <1>1, <1>2, <1>3, <1>5, <2>1, <2>2
  <2>3. CASE j # 1
    <3>1. j - 1 \in 1..Len(live) /\ live'[j] = live[j - 1] /\ j - 1 < k - 1
      BY <1>1, <1>3, <2>3
    <3> QED
      BY <1>11, <2>1, <3>1, ListingOrder DEF NewestFirst
  <2> QED
    BY <2>2, <2>3
<1> QED
  BY <1>6, <1>8, <1>9, <1>10, <1>11, ListingOrderNext

LEMMA RemoveKeepsTypes ==
  ASSUME TypeOK, ListingSorted, NEW r \in DOMAIN live, Remove(r)
  PROVE  TypeOK' /\ ListingSorted'
<1> DEFINE was(k) == IF k < r THEN k ELSE k + 1
<1>1. /\ live' \in Seq(Shown)
      /\ Len(live') = Len(live) - 1
      /\ \A k \in 1..Len(live') : k < r => live'[k] = live[k]
      /\ \A k \in 1..Len(live') : k >= r => live'[k] = live[k + 1]
  BY RemoveEffect
<1>2. r \in 1..Len(live) /\ Len(live) \in Nat
  BY ListingFacts
<1>3. \A k \in 1..Len(live') : was(k) \in 1..Len(live) /\ live'[k] = live[was(k)]
  BY <1>1, <1>2
<1>4. \A j, k \in 1..Len(live') : j < k => was(j) < was(k)
  BY <1>1, <1>2
<1> HIDE DEF was
<1>5. /\ published' = published /\ now' = now /\ SourceStep /\ conf' = conf
      /\ published' \in 0..MaxItems /\ now' \in 1..MaxTime /\ unread' \in SUBSET Ids
      /\ waived' \subseteq waived
  BY DEF Remove, SourceStep, TypeOK
<1>6. Listed'
  BY <1>3, <1>5, ListingOrder DEF Listed
<1>7. Apart(live')
  <2> SUFFICES ASSUME NEW j \in 1..Len(live'), NEW k \in 1..Len(live'), j < k,
                      live'[j].id = live'[k].id
               PROVE  FALSE
    BY <1>1, <1>2 DEF Apart
  <2>1. was(j) = was(k)
    BY <1>3, ListingFacts DEF Apart
  <2>2. was(j) < was(k) /\ was(j) \in 1..Len(live)
    BY <1>3, <1>4
  <2> QED
    BY <2>1, <2>2
<1>8. TypeOK'
  BY <1>1, <1>5, <1>7, SourceKeepsTypes
<1>9. conf.type = "github" => ByUpdate'
  BY <1>3, <1>4, ListingOrder DEF ByUpdate
<1>10. conf.type \notin {"github", "rss"} => NewestFirst(live')
  BY <1>3, <1>4, ListingOrder DEF NewestFirst
<1> QED
  BY <1>5, <1>6, <1>8, <1>9, <1>10, ListingOrderNext

LEMMA KillKeepsTypes ==
  ASSUME TypeOK, ListingSorted, NEW r \in DOMAIN live, Kill(r)
  PROVE  TypeOK' /\ ListingSorted'
<1>1. /\ live' \in Seq(Shown) /\ Len(live') = Len(live)
      /\ \A j \in 1..Len(live) : live'[j].id = live[j].id /\ live'[j].at = live[j].at
  BY KillEffect
<1>2. /\ published' = published /\ now' = now /\ SourceStep /\ conf' = conf
      /\ published' \in 0..MaxItems /\ now' \in 1..MaxTime /\ unread' \in SUBSET Ids
      /\ conf.type \notin {"github", "rss"} /\ waived' \subseteq waived
  BY DEF Kill, SourceStep, TypeOK
<1>3. Listed' /\ Apart(live')
  BY <1>1, <1>2, ListingOrder, ListingFacts DEF Listed, Apart
<1>4. TypeOK'
  BY <1>1, <1>2, <1>3, SourceKeepsTypes
<1>5. NewestFirst(live')
  BY <1>1, <1>2, ListingOrder DEF NewestFirst
<1> QED
  BY <1>2, <1>3, <1>4, <1>5, ListingOrderNext

LEMMA UpdateKeepsTypes ==
  ASSUME TypeOK, ListingSorted, NEW r \in DOMAIN live, NEW time \in 1..MaxTime,
         Update(r, time)
  PROVE  TypeOK' /\ ListingSorted'
<1>1. /\ now' = time /\ time >= now /\ time \in Nat /\ now \in Nat
      /\ live' \in Seq(Shown) /\ Len(live') = Len(live)
      /\ r \in 1..Len(live) /\ Len(live) \in Nat
      /\ \A k \in 1..Len(live) : live[k].id \in Nat /\ live[k].at \in Nat
      /\ \A k \in 1..Len(live) : live'[k].id \in Nat /\ live'[k].at \in Nat
  <2>1. /\ now' = time /\ time >= now /\ time \in Nat /\ now \in Nat
        /\ live' \in Seq(Shown) /\ Len(live') = Len(live)
    BY UpdateEffect, Constants DEF TypeOK
  <2>2. /\ r \in 1..Len(live) /\ Len(live) \in Nat
        /\ \A k \in 1..Len(live) : live[k].id \in Nat /\ live[k].at \in Nat
    BY ListingFacts
  <2>3. \A k \in 1..Len(live') : live'[k].id \in Nat /\ live'[k].at \in Nat
    BY <2>1, ShownItems
  <2> QED
    BY <2>1, <2>2, <2>3
<1>2. /\ published' = published /\ SourceStep /\ conf' = conf
      /\ published' \in 0..MaxItems /\ now' \in 1..MaxTime /\ unread' \in SUBSET Ids
      /\ waived' \subseteq waived /\ conf.type \in {"rss", "github"}
  <2>1. /\ published' = published /\ unread' = unread /\ SourceStep /\ conf' = conf
        /\ waived' \subseteq waived /\ conf.type \in {"rss", "github"}
    BY DEF Update, SourceStep
  <2>2. now' \in 1..MaxTime
    BY <1>1
  <2> QED
    BY <2>1, <2>2 DEF TypeOK
<1>3. \A k \in 1..Len(live) : live[k].id <= published /\ live[k].at <= now
  BY ListingOrder DEF Listed
<1>4. CASE conf.type # "github"
  <2>1. \A j \in 1..Len(live) :
          live'[j].id = live[j].id /\ live'[j].at \in {live[j].at, time}
    BY <1>4, UpdateEffect
  <2>2. Listed'
    <3> SUFFICES ASSUME NEW k \in 1..Len(live)
                 PROVE  live'[k].id <= published' /\ live'[k].at <= now'
      BY <1>1 DEF Listed
    <3>1. live[k].at <= time
      BY <1>1, <1>3
    <3>2. live'[k].at <= time
      BY <1>1, <2>1, <3>1, SMTT(30)
    <3> QED
      BY <1>1, <1>2, <1>3, <2>1, <3>2
  <2>3. Apart(live')
    BY <1>1, <2>1, ListingFacts DEF Apart
  <2>4. TypeOK'
    BY <1>1, <1>2, <2>3, SourceKeepsTypes
  <2> QED
    BY <1>2, <1>4, <2>2, <2>4, ListingOrderNext
<1>5. CASE conf.type = "github"
  <2> DEFINE was(k) == IF k = 1 THEN r ELSE IF k <= r THEN k - 1 ELSE k
  <2>1. /\ live'[1].id = live[r].id /\ live'[1].at = time
        /\ \A j \in 2..r : live'[j] = live[j - 1]
        /\ \A j \in (r + 1)..Len(live) : live'[j] = live[j]
    BY <1>5, UpdateEffect
  <2>2. \A k \in 1..Len(live) :
          /\ was(k) \in 1..Len(live)
          /\ live'[k].id = live[was(k)].id
          /\ k # 1 => live'[k].at = live[was(k)].at
    BY <1>1, <2>1
  <2>3. /\ \A j, k \in 1..Len(live) : was(j) = was(k) => j = k
        /\ \A j, k \in 2..Len(live) : j < k => was(j) < was(k)
    BY <1>1
  <2> HIDE DEF was
  <2>4. Listed'
    <3> SUFFICES ASSUME NEW k \in 1..Len(live)
                 PROVE  live'[k].id <= published' /\ live'[k].at <= now'
      BY <1>1 DEF Listed
    <3>1. was(k) \in 1..Len(live) /\ live'[k].id = live[was(k)].id
      BY <2>2
    <3>2. live'[k].id <= published'
      BY <1>2, <1>3, <3>1
    <3>3. live'[k].at <= now'
      <4>1. CASE k = 1
        BY <1>1, <2>1, <4>1
      <4>2. CASE k # 1
        <5>1. live'[k].at = live[was(k)].at /\ live[was(k)].at <= now
          BY <1>3, <2>2, <4>2
        <5> QED
          BY <1>1, <3>1, <5>1
      <4> QED
        BY <4>1, <4>2
    <3> QED
      BY <3>2, <3>3
  <2>5. Apart(live')
    <3> SUFFICES ASSUME NEW j \in 1..Len(live), NEW k \in 1..Len(live),
                        live'[j].id = live'[k].id
                 PROVE  j = k
      BY <1>1 DEF Apart
    <3>1. /\ was(j) \in 1..Len(live) /\ was(k) \in 1..Len(live)
          /\ live[was(j)].id = live[was(k)].id
      BY <2>2
    <3>2. was(j) = was(k)
      BY <3>1, ListingFacts DEF Apart
    <3> QED
      BY <2>3, <3>2
  <2>6. TypeOK'
    BY <1>1, <1>2, <2>5, SourceKeepsTypes
  <2>7. ByUpdate'
    <3> SUFFICES ASSUME NEW j \in 1..Len(live), NEW k \in 1..Len(live), j < k
                 PROVE  live'[j].at >= live'[k].at
      BY <1>1 DEF ByUpdate
    <3>1. k \in 2..Len(live) /\ was(k) \in 1..Len(live) /\ live'[k].at = live[was(k)].at
      BY <1>1, <2>2
    <3>2. CASE j = 1
      BY <1>1, <1>3, <2>1, <3>1, <3>2
    <3>3. CASE j # 1
      <4>1. /\ was(j) \in 1..Len(live) /\ live'[j].at = live[was(j)].at /\ was(j) < was(k)
        <5>1. j \in 2..Len(live)
          BY <1>1, <3>3
        <5>2. was(j) \in 1..Len(live) /\ live'[j].at = live[was(j)].at
          BY <2>2, <3>3
        <5> QED
          BY <2>3, <3>1, <5>1, <5>2
      <4> QED
        BY <1>5, <3>1, <4>1, ListingOrder DEF ByUpdate
    <3> QED
      BY <3>2, <3>3
  <2> QED
    BY <1>2, <1>5, <2>4, <2>6, <2>7, ListingOrderNext
<1> QED
  BY <1>4, <1>5

LEMMA CommentKeepsTypes ==
  ASSUME TypeOK, ListingSorted, NEW r \in DOMAIN live, Comment(r)
  PROVE  TypeOK' /\ ListingSorted'
<1>1. /\ live' = live /\ published' = published /\ now' = now /\ conf' = conf
      /\ waived' = waived /\ SourceStep
  BY DEF Comment, SourceStep
<1>2. /\ live \in Seq(Shown) /\ live[r].id \in Ids /\ Apart(live)
  BY ListingFacts
<1>3. unread' \in SUBSET Ids
  BY <1>2 DEF Comment, TypeOK
<1>4. TypeOK'
  BY <1>1, <1>2, <1>3, SourceKeepsTypes DEF TypeOK
<1>5. ListingSorted'
  BY <1>1 DEF ListingSorted
<1> QED
  BY <1>4, <1>5

LEMMA ReorderEffect ==
  ASSUME TypeOK, NEW r \in DOMAIN live, NEW s \in DOMAIN live, Reorder(r, s)
  PROVE  /\ live' \in Seq(Shown) /\ Len(live') = Len(live) /\ r < s
         /\ live'[r] = live[s] /\ live'[s] = live[r]
         /\ \A k \in 1..Len(live) : k \notin {r, s} => live'[k] = live[k]
<1>1. /\ live \in Seq(Shown) /\ r \in 1..Len(live) /\ s \in 1..Len(live)
      /\ live[r] \in Shown /\ live[s] \in Shown /\ Len(live) \in Nat
  BY ListingFacts
<1> DEFINE a == live[r]
           b == live[s]
<1>2. live' = [live EXCEPT ![r] = b, ![s] = a] /\ r < s
  BY DEF Reorder
<1>3. a \in Shown /\ b \in Shown
  BY <1>1
<1> HIDE DEF a, b
<1>4. live' \in Seq(Shown) /\ Len(live') = Len(live)
  BY <1>1, <1>2, <1>3
<1>5. /\ live'[r] = b /\ live'[s] = a
      /\ \A k \in 1..Len(live) : k \notin {r, s} => live'[k] = live[k]
  BY <1>1, <1>2
<1> QED
  BY <1>2, <1>4, <1>5 DEF a, b

LEMMA ReorderKeepsTypes ==
  ASSUME TypeOK, ListingSorted, NEW r \in DOMAIN live, NEW s \in DOMAIN live,
         Reorder(r, s)
  PROVE  TypeOK' /\ ListingSorted'
<1> DEFINE was(k) == IF k = r THEN s ELSE IF k = s THEN r ELSE k
<1>1. /\ live' \in Seq(Shown) /\ Len(live') = Len(live)
      /\ live'[r] = live[s] /\ live'[s] = live[r]
      /\ \A k \in 1..Len(live) : k \notin {r, s} => live'[k] = live[k]
  BY ReorderEffect
<1>2. r \in 1..Len(live) /\ s \in 1..Len(live) /\ Len(live) \in Nat
  BY ListingFacts
<1>3. \A k \in 1..Len(live) : was(k) \in 1..Len(live) /\ live'[k] = live[was(k)]
  BY <1>1, <1>2
<1>4. \A j, k \in 1..Len(live) : was(j) = was(k) => j = k
  BY <1>2
<1> HIDE DEF was
<1>5. /\ published' = published /\ now' = now /\ SourceStep /\ conf' = conf
      /\ published' \in 0..MaxItems /\ now' \in 1..MaxTime /\ unread' \in SUBSET Ids
      /\ waived' \subseteq waived /\ conf.type = "rss"
  BY DEF Reorder, SourceStep, TypeOK
<1>6. Listed'
  BY <1>1, <1>3, <1>5, ListingOrder DEF Listed
<1>7. Apart(live')
  <2> SUFFICES ASSUME NEW j \in 1..Len(live), NEW k \in 1..Len(live),
                      live'[j].id = live'[k].id
               PROVE  j = k
    BY <1>1 DEF Apart
  <2>1. /\ was(j) \in 1..Len(live) /\ was(k) \in 1..Len(live)
        /\ live[was(j)].id = live[was(k)].id
    BY <1>3
  <2>2. was(j) = was(k)
    BY <2>1, ListingFacts DEF Apart
  <2> QED
    BY <1>4, <2>2
<1>8. TypeOK'
  BY <1>1, <1>5, <1>7, SourceKeepsTypes
<1> QED
  BY <1>5, <1>6, <1>8, ListingOrderNext

-----------------------------------------------------------------------------
(* The items of a listing that is no feed may go or move; those of a feed  *)
(* only from the anchor of a walk on.                                      *)
Unordered == Walking /\ conf.type \notin MidWalk => conf.type = "rss"

LEMMA LooseIsUnordered == ASSUME NEW k, Loose(k) PROVE Unordered
BY DEF Loose, Unordered

(* A change of the source, and what it does to a listing that has its      *)
(* newest item first: every item was there before, not below its place     *)
(* unless items may go or move, or it is the one that was published.       *)
SourceChange ==
  \/ \E time \in 1..MaxTime : Publish(time)
  \/ \E k \in DOMAIN live, time \in 1..MaxTime : Update(k, time)
  \/ \E k \in DOMAIN live : Remove(k)
  \/ \E j, k \in DOMAIN live : Reorder(j, k)
  \/ \E k \in DOMAIN live : Kill(k)
  \/ \E k \in DOMAIN live : Comment(k)

Carried(k) ==
  \/ published' = published + 1 /\ live'[k].id = published + 1
  \/ \E j \in 1..Len(live) :
       /\ live'[k].id = live[j].id
       /\ live[j].dead => live'[k].dead
       /\ Unordered \/ j <= k

LEMMA SourceKeepsOrder ==
  ASSUME TypeOK, ListingSorted, SourceChange
  PROVE  TypeOK' /\ ListingSorted'
BY PublishKeepsTypes, UpdateKeepsTypes, RemoveKeepsTypes, ReorderKeepsTypes,
   KillKeepsTypes, CommentKeepsTypes DEF SourceChange

LEMMA SourceLeavesAlone ==
  ASSUME TypeOK, SourceChange
  PROVE  /\ conf' = conf /\ cursor' = cursor /\ more' = more /\ got' = got
         /\ waived' \subseteq waived /\ redated' = redated
         /\ conf.type \notin {"github", "rss"} => waived' = waived
         /\ published \in Nat /\ published' \in {published, published + 1}
<1>1. CASE \E k \in DOMAIN live, time \in 1..MaxTime : Update(k, time)
  <2>1. /\ SourceStep /\ published' = published
        /\ waived' \subseteq waived /\ conf.type \in {"rss", "github"}
    BY <1>1 DEF Update
  <2> QED
    BY <2>1 DEF SourceStep, TypeOK
<1>2. CASE ~\E k \in DOMAIN live, time \in 1..MaxTime : Update(k, time)
  <2>1. /\ SourceStep /\ (published' = published \/ published' = published + 1)
        /\ waived' = waived
    BY <1>2 DEF SourceChange, Publish, Remove, Reorder, Kill, Comment
  <2> QED
    BY <2>1 DEF SourceStep, TypeOK
<1> QED
  BY <1>1, <1>2

LEMMA SourceCarries ==
  ASSUME TypeOK, ListingSorted, SourceChange, conf.type \notin {"github", "rss"}
  PROVE  \A k \in 1..Len(live') : Carried(k)
<1>0. Len(live) \in Nat /\ DOMAIN live = 1..Len(live)
  BY ListingFacts
<1>1. ASSUME NEW time \in 1..MaxTime, Publish(time), NEW k \in 1..Len(live')
      PROVE  Carried(k)
  <2>1. /\ published' = published + 1
        /\ live'[1] = NewItem(published + 1, time)
        /\ Len(live') \in Nat
        /\ \A i \in 2..Len(live') : i - 1 \in 1..Len(live) /\ live'[i] = live[i - 1]
    BY <1>0, <1>1, PublishEffect
  <2>2. CASE k = 1
    BY <2>1, <2>2 DEF Carried, NewItem
  <2>3. CASE k # 1
    <3>1. k - 1 \in 1..Len(live) /\ live'[k] = live[k - 1] /\ k - 1 <= k
      BY <1>1, <2>1, <2>3
    <3> QED
      BY <3>1 DEF Carried
  <2> QED
    BY <2>2, <2>3
<1>2. /\ ~\E r \in DOMAIN live, time \in 1..MaxTime : Update(r, time)
      /\ ~\E r, s \in DOMAIN live : Reorder(r, s)
  <2>1. ASSUME NEW r, NEW time, Update(r, time)
        PROVE  FALSE
    <3>1. conf.type \in {"rss", "github"}
      BY <2>1, Zenon DEF Update
    <3> QED
      BY <3>1
  <2>2. ASSUME NEW r, NEW s, Reorder(r, s)
        PROVE  FALSE
    <3>1. conf.type = "rss"
      BY <2>2, Zenon DEF Reorder
    <3> QED
      BY <3>1
  <2> QED
    BY <2>1, <2>2
<1>3. ASSUME NEW r \in DOMAIN live, Remove(r), NEW k \in 1..Len(live')
      PROVE  Carried(k)
  <2>1. /\ Len(live') = Len(live) - 1
        /\ k < r => live'[k] = live[k]
        /\ k >= r => live'[k] = live[k + 1]
    BY <1>3, RemoveEffect
  <2>2. Unordered
    BY <1>3, LooseIsUnordered DEF Remove
  <2>3. \E j \in 1..Len(live) : live'[k] = live[j]
    <3>1. k \in 1..Len(live) /\ k + 1 \in 1..Len(live)
      BY <1>0, <2>1
    <3>2. k < r \/ k >= r
      BY <1>0
    <3> QED
      BY <2>1, <3>1, <3>2
  <2> QED
    BY <2>2, <2>3 DEF Carried
<1>4. ASSUME NEW r \in DOMAIN live, Kill(r), NEW k \in 1..Len(live')
      PROVE  Carried(k)
  <2>1. k \in 1..Len(live) /\ live'[k].id = live[k].id /\ (live[k].dead => live'[k].dead)
    BY <1>4, KillEffect
  <2> QED
    BY <2>1 DEF Carried
<1>5. ASSUME NEW r \in DOMAIN live, Comment(r), NEW k \in 1..Len(live')
      PROVE  Carried(k)
  BY <1>5 DEF Carried, Comment
<1> QED
  BY <1>1, <1>2, <1>3, <1>4, <1>5 DEF SourceChange

(* What is settled below an id that was published stays settled below it,  *)
(* at places that hold nothing that was at no place before.                *)
LEMMA SourceKeepsSettled ==
  ASSUME TypeOK, ListingSorted, SourceChange, conf.type \notin {"github", "rss"},
         NEW m \in Nat, m <= published
  PROVE  /\ SettledAt(m) => SettledAt(m)'
         /\ \A k \in 1..Len(live') : live'[k].id <= m =>
              \E j \in 1..Len(live) :
                /\ live[j].id = live'[k].id
                /\ Unordered \/ j <= k
                /\ Settled(live[j]) => Settled(live[k])'
<1>1. /\ got' = got /\ waived' = waived /\ published \in Nat
      /\ published' \in {published, published + 1}
  BY SourceLeavesAlone
<1>2. TypeOK'
  BY SourceKeepsOrder
<1>3. DOMAIN live = 1..Len(live) /\ DOMAIN live' = 1..Len(live')
  BY <1>2, ListingFacts, ShownItems DEF TypeOK, Shown
<1>4. ASSUME NEW k \in 1..Len(live'), live'[k].id <= m
      PROVE  \E j \in 1..Len(live) :
               /\ live[j].id = live'[k].id
               /\ Unordered \/ j <= k
               /\ Settled(live[j]) => Settled(live[k])'
  <2>1. live'[k].id # published + 1
    BY <1>1, <1>4
  <2>2. PICK j \in 1..Len(live) : /\ live'[k].id = live[j].id
                                  /\ live[j].dead => live'[k].dead
                                  /\ Unordered \/ j <= k
    BY <2>1, SourceCarries DEF Carried
  <2>3. Settled(live[j]) => Settled(live[k])'
    BY <1>1, <2>2 DEF Settled
  <2> QED
    BY <2>2, <2>3
<1>5. ASSUME SettledAt(m), NEW k \in DOMAIN live', live'[k].id = m
      PROVE  Settled(live[k])'
  <2>1. k \in 1..Len(live') /\ live'[k].id <= m
    BY <1>3, <1>5
  <2>2. PICK j \in 1..Len(live) : /\ live[j].id = live'[k].id
                                  /\ Settled(live[j]) => Settled(live[k])'
    BY <1>4, <2>1
  <2> QED
    BY <1>3, <1>5, <2>2 DEF SettledAt
<1> QED
  BY <1>4, <1>5 DEF SettledAt

-----------------------------------------------------------------------------
(* The events of some items, and what a call does that returns them.       *)
Events(items, created) == [k \in DOMAIN items |-> EventOf(items[k], created)]

(* What a search leaves out is some of the listing of a GitHub search.     *)
LEMMA LeftProperties ==
  ASSUME TypeOK, NEW missing \in Incomplete
  PROVE  /\ Sublist(Left(missing), live) /\ Left(missing) \in Seq(Item)
         /\ conf.type # "github" \/ ~conf.partial => missing = {}
<1>1. live \in Seq(Item) /\ DOMAIN live = 1..Len(live)
  BY ListingFacts
<1> DEFINE places == {k \in DOMAIN live : live[k].id \notin missing}
<1>2. places \in SUBSET (1..Len(live))
  BY <1>1
<1>3. Left(missing) = Kept(live, places)
  BY DEF Left
<1> HIDE DEF places
<1>4. Sublist(Left(missing), live)
  BY <1>1, <1>2, <1>3, KeptIsSublist
<1>5. conf.type # "github" \/ ~conf.partial => missing = {}
  BY DEF Incomplete
<1> QED
  BY <1>4, <1>5 DEF Sublist

(* What a call returns: items of the listing, in its order or from the end *)
(* of what a search shows of it up, the cursor and has_more.               *)
Returns(limit, missing, items, next, on) ==
  /\ Sublist(items, live) \/ Sublist(items, OldestFirst(Left(missing)))
  /\ on \in BOOLEAN
  /\ \E created, threads :
       Page(limit, missing) = Result(Events(items, created), threads, next, on)

LEMMA CallEffect ==
  ASSUME TypeOK, ListingSorted, NEW limit \in Limits,
         NEW missing \in Incomplete, Collect(limit, missing),
         NEW items, NEW next, NEW on, Returns(limit, missing, items, next, on)
  PROVE  /\ cursor' = next /\ more' = on
         /\ conf' = conf /\ live' = live /\ published' = published /\ now' = now
         /\ \A i \in Ids : got[i] # 0 => got'[i] # 0
         /\ \A n \in 1..Len(items) : got'[items[n].id] = items[n].rev
         /\ conf.type = "github" =>
              /\ \A k \in 1..Len(live) : Current(live[k]) => Current(live[k])'
              /\ missing # {} => \A k \in 1..Len(live) : Current(live[k])'
              /\ missing = {} => waived' = waived
         /\ \A k \in 1..Len(live) : Settled(live[k]) => Settled(live[k])'
         /\ \A k \in 1..Len(live) :
              (\E n \in 1..Len(items) : items[n] = live[k]) => Settled(live[k])'
         /\ conf.type = "rest" /\ ~conf.backfill /\ ~cursor.initialized
              => \A k \in 1..Len(live) : Settled(live[k])'
         /\ CursorOK' => TypeOK'
         /\ ListingSorted'
<1>0. PICK created, threads :
         Page(limit, missing) = Result(Events(items, created), threads, next, on)
  BY Zenon DEF Returns
<1> DEFINE page == Page(limit, missing)
           new == IdsIn(page.new)
           rev(i) == page.new[CHOOSE k \in DOMAIN page.new : page.new[k].id = i].rev
<1>1. /\ page.new = Events(items, created) /\ page.cursor = next /\ page.more = on
  BY <1>0 DEF Result
<1>2. /\ poll' = ~poll /\ cursor' = page.cursor /\ more' = page.more
      /\ got' = [i \in Ids |-> IF i \in new THEN rev(i) ELSE got[i]]
      /\ redated' = {event.id : event \in
                       {e \in ToSet(page.new) : Refilled(e) /\ got[e.id] = e.rev}}
      /\ unread' = unread \ page.threads
      /\ waived' = IF conf.type = "rest" /\ ~conf.backfill /\ ~cursor.initialized
                   THEN IdsIn(live) \ new
                   ELSE IF missing # {}
                   THEN waived \cup Outdated(got')
                   ELSE waived
      /\ UNCHANGED <<conf, live, published, now>>
  BY Zenon DEF Collect
<1>3. /\ Len(live) \in Nat /\ DOMAIN live = 1..Len(live) /\ Apart(live)
      /\ \A k \in 1..Len(live) : /\ live[k].id \in Ids /\ live[k].rev \in 1..MaxRev
                                 /\ live[k].rev # 0
  BY ListingFacts
<1>4. /\ on \in BOOLEAN
      /\ items \in Seq(Item) /\ DOMAIN items = 1..Len(items) /\ Len(items) \in Nat
      /\ Apart(items)
      /\ \A n \in 1..Len(items) : \E k \in 1..Len(live) : items[n] = live[k]
  <2> DEFINE part == Left(missing)
  <2>1. on \in BOOLEAN /\ (Sublist(items, live) \/ Sublist(items, OldestFirst(part)))
    BY DEF Returns
  <2>2. items \in Seq(Item)
    BY <2>1 DEF Sublist
  <2>3. part \in Seq(Item) /\ Sublist(part, live) /\ Apart(part)
    BY <1>3, LeftProperties, SublistKeepsApart
  <2> HIDE DEF part
  <2>4. /\ Len(OldestFirst(part)) \in Nat /\ Apart(OldestFirst(part))
        /\ \A k \in 1..Len(OldestFirst(part)) :
             \E j \in 1..Len(part) : OldestFirst(part)[k] = part[j]
    BY <2>3, OldestFirstProperties
  <2>5. /\ Apart(items)
        /\ \A n \in 1..Len(items) : \E k \in 1..Len(live) : items[n] = live[k]
    <3>1. CASE Sublist(items, live)
      BY <1>3, <3>1, SublistKeepsApart DEF Sublist
    <3>2. CASE Sublist(items, OldestFirst(part))
      <4>1. Apart(items)
        BY <2>4, <3>2, SublistKeepsApart
      <4>2. \A n \in 1..Len(items) : \E k \in 1..Len(part) : items[n] = part[k]
        BY <2>4, <3>2 DEF Sublist
      <4> QED
        BY <2>3, <4>1, <4>2 DEF Sublist
    <3> QED
      BY <2>1, <3>1, <3>2
  <2> QED
    BY <2>1, <2>2, <2>5
<1>5. /\ DOMAIN page.new = 1..Len(items)
      /\ \A k \in 1..Len(items) :
           page.new[k].id = items[k].id /\ page.new[k].rev = items[k].rev
  <2>1. Events(items, created) = [k \in 1..Len(items) |-> EventOf(items[k], created)]
    BY <1>4 DEF Events
  <2>2. \A k \in 1..Len(items) :
          /\ EventOf(items[k], created).id = items[k].id
          /\ EventOf(items[k], created).rev = items[k].rev
    BY DEF EventOf
  <2> HIDE DEF page
  <2> QED
    BY <1>1, <2>1, <2>2
<1>6. \A n \in 1..Len(items) : items[n].id \in Ids /\ items[n].rev \in 1..MaxRev
  BY <1>3, <1>4
<1>7. \A i : i \in new <=> \E n \in 1..Len(items) : items[n].id = i
  BY <1>5 DEF IdsIn
<1>8. ASSUME NEW n \in 1..Len(items)
      PROVE  items[n].id \in new /\ rev(items[n].id) = items[n].rev
  <2> DEFINE k == CHOOSE j \in DOMAIN page.new : page.new[j].id = items[n].id
  <2>1. k \in DOMAIN page.new /\ page.new[k].id = items[n].id
    BY <1>5
  <2>2. k \in 1..Len(items) /\ items[k].id = items[n].id
    BY <1>5, <2>1
  <2>3. k = n
    BY <1>4, <2>2 DEF Apart
  <2>4. rev(items[n].id) = page.new[k].rev
    OBVIOUS
  <2> QED
    BY <1>5, <1>7, <2>3, <2>4
<1>9. got \in [Ids -> 0..MaxRev] /\ redated \subseteq Ids /\ unread \subseteq Ids
      /\ waived \subseteq Ids /\ conf \in Configs /\ poll \in BOOLEAN
  BY DEF TypeOK
<1> HIDE DEF new, rev
<1>10. /\ \A n \in 1..Len(items) : got'[items[n].id] = items[n].rev
       /\ \A i \in Ids : i \notin new => got'[i] = got[i]
       /\ got' \in [Ids -> 0..MaxRev]
  <2>1. \A i \in Ids : (IF i \in new THEN rev(i) ELSE got[i]) \in 0..MaxRev
    <3> SUFFICES ASSUME NEW i \in Ids
                 PROVE  (IF i \in new THEN rev(i) ELSE got[i]) \in 0..MaxRev
      OBVIOUS
    <3>1. CASE i \in new
      <4>1. PICK n \in 1..Len(items) : items[n].id = i
        BY <1>7, <3>1
      <4>2. rev(i) = items[n].rev /\ items[n].rev \in 1..MaxRev
        BY <1>6, <1>8, <4>1
      <4> QED
        BY <3>1, <4>2, Constants
    <3>2. CASE i \notin new
      BY <1>9, <3>2
    <3> QED
      BY <3>1, <3>2
  <2>2. got' \in [Ids -> 0..MaxRev]
    BY <1>2, <2>1
  <2>3. \A n \in 1..Len(items) : got'[items[n].id] = items[n].rev
    BY <1>2, <1>6, <1>8
  <2> QED
    BY <1>2, <2>2, <2>3
<1>11. \A i \in Ids : got[i] # 0 => got'[i] # 0
  <2> SUFFICES ASSUME NEW i \in Ids, got[i] # 0
               PROVE  got'[i] # 0
    OBVIOUS
  <2>1. CASE i \in new
    <3>1. PICK n \in 1..Len(items) : items[n].id = i
      BY <1>7, <2>1
    <3> QED
      BY <1>6, <1>10, <3>1
  <2>2. CASE i \notin new
    BY <1>10, <2>2
  <2> QED
    BY <2>1, <2>2
<1>12. ASSUME NEW k \in 1..Len(live), got[live[k].id] = live[k].rev
       PROVE  got'[live[k].id] = live[k].rev
  <2>1. CASE live[k].id \in new
    <3>1. PICK n \in 1..Len(items) : items[n].id = live[k].id
      BY <1>7, <2>1
    <3>2. PICK j \in 1..Len(live) : items[n] = live[j]
      BY <1>4
    <3>3. j = k
      BY <1>3, <3>1, <3>2 DEF Apart
    <3> QED
      BY <1>10, <3>1, <3>2, <3>3
  <2>2. CASE live[k].id \notin new
    BY <1>3, <1>10, <1>12, <2>2
  <2> QED
    BY <2>1, <2>2
<1>13. ASSUME NEW k \in 1..Len(live), live[k].id \in new
       PROVE  Settled(live[k])'
  <2>1. PICK n \in 1..Len(items) : items[n].id = live[k].id
    BY <1>7, <1>13
  <2>2. got'[live[k].id] # 0
    BY <1>6, <1>10, <2>1
  <2> QED
    BY <1>2, <2>2 DEF Settled
<1>14. ASSUME NEW k \in 1..Len(live),
              waived' = IdsIn(live) \ new
       PROVE  Settled(live[k])'
  <2>1. CASE live[k].id \in new
    BY <1>13, <2>1
  <2>2. CASE live[k].id \notin new
    <3>1. live[k].id \in waived'
      BY <1>3, <1>14, <2>2 DEF IdsIn
    <3> QED
      BY <1>2, <3>1 DEF Settled
  <2> QED
    BY <2>1, <2>2
<1>15. ASSUME NEW k \in 1..Len(live), Settled(live[k])
       PROVE  Settled(live[k])'
  <2>1. CASE waived' = IdsIn(live) \ new
    BY <1>14, <2>1
  <2>2. CASE waived \subseteq waived'
    BY <1>2, <1>3, <1>11, <1>15, <2>2 DEF Settled
  <2>3. waived' = IdsIn(live) \ new \/ waived \subseteq waived'
    BY <1>2
  <2> QED
    BY <2>1, <2>2, <2>3
<1>16. redated' \in SUBSET Ids /\ unread' \in SUBSET Ids /\ waived' \in SUBSET Ids
  <2>1. \A e \in ToSet(page.new) : e.id \in Ids
    BY <1>5, <1>6 DEF ToSet
  <2>2. redated' \in SUBSET Ids
    BY <1>2, <2>1
  <2>3. IdsIn(live) \subseteq Ids /\ Outdated(got') \subseteq Ids
    BY <1>3 DEF IdsIn, Outdated
  <2> QED
    BY <1>2, <1>9, <2>2, <2>3
<1>17. CursorOK' => TypeOK'
  <2>1. /\ live' \in Seq([id : Ids, rev : 1..MaxRev, at : 1..MaxTime, dead : BOOLEAN])
        /\ \A j, k \in DOMAIN live' : live'[j].id = live'[k].id => j = k
        /\ published' \in 0..MaxItems
        /\ now' \in 1..MaxTime
    BY <1>2 DEF TypeOK
  <2> QED
    BY <1>1, <1>2, <1>4, <1>9, <1>10, <1>16, <2>1 DEF TypeOK
<1>18. ListingSorted'
  BY <1>2 DEF ListingSorted
<1>19. \A k \in 1..Len(live) :
         (\E n \in 1..Len(items) : items[n] = live[k]) => Settled(live[k])'
  BY <1>7, <1>13
<1>20. conf.type = "rest" /\ ~conf.backfill /\ ~cursor.initialized
         => \A k \in 1..Len(live) : Settled(live[k])'
  BY <1>2, <1>14
<1>21. ASSUME conf.type = "github"
       PROVE  /\ \A k \in 1..Len(live) : Current(live[k]) => Current(live[k])'
              /\ missing # {} => \A k \in 1..Len(live) : Current(live[k])'
              /\ missing = {} => waived' = waived
  <2>1. waived' = IF missing # {} THEN waived \cup Outdated(got') ELSE waived
    BY <1>2, <1>21
  <2>2. \A k \in 1..Len(live) : Current(live[k]) => Current(live[k])'
    BY <1>2, <1>12, <2>1 DEF Current
  <2>3. ASSUME missing # {}, NEW k \in 1..Len(live)
        PROVE  Current(live[k])'
    BY <1>2, <1>3, <2>1, <2>3 DEF Current, Outdated
  <2> QED
    BY <2>1, <2>2, <2>3
<1> QED
  BY <1>1, <1>2, <1>10, <1>11, <1>15, <1>17, <1>18, <1>19, <1>20, <1>21

(* No events at all are those of no items. *)
LEMMA NoEvents ==
  /\ \A created : << >> = Events(<< >>, created)
  /\ Sublist(<< >>, live)
<1>1. \A created : << >> = Events(<< >>, created)
  BY DEF Events
<1>2. << >> \in Seq(Item) /\ Len(<< >>) = 0
  OBVIOUS
<1> QED
  BY <1>1, <1>2 DEF Sublist

(* The source at the start, newest item first. *)
LEMMA InitListing ==
  ASSUME Init
  PROVE  /\ live \in Seq(Shown) /\ Len(live) = published /\ published \in Nat
         /\ published <= MaxItems
         /\ \A k \in 1..Len(live) : live[k].id = published + 1 - k /\ live[k].at = 1
         /\ ListingSorted
<1>1. /\ published \in 0..Backlog /\ now = 1
      /\ live = [k \in 1..published |-> NewItem(published + 1 - k, 1)]
  BY DEF Init
<1>2. published \in Nat /\ published <= MaxItems
  BY <1>1, Constants
<1>3. \A k \in 1..published : NewItem(published + 1 - k, 1) \in Shown
  BY <1>2, Constants DEF NewItem, Shown, Ids
<1>4. live \in Seq(Shown) /\ Len(live) = published /\ DOMAIN live = 1..published
  BY <1>1, <1>2, <1>3
<1>5. \A k \in 1..Len(live) : live[k].id = published + 1 - k /\ live[k].at = 1
  BY <1>1, <1>4 DEF NewItem
<1>6. ListingSorted
  BY <1>1, <1>2, <1>4, <1>5 DEF ListingSorted
<1> QED
  BY <1>2, <1>4, <1>5, <1>6

LEMMA InitTypes ==
  ASSUME Init, CursorOK
  PROVE  TypeOK
<1>1. /\ live \in Seq(Shown) /\ published \in Nat /\ published <= MaxItems
      /\ Len(live) = published
      /\ \A k \in 1..Len(live) : live[k].id = published + 1 - k
  BY InitListing
<1>2. \A j, k \in DOMAIN live : live[j].id = live[k].id => j = k
  BY <1>1
<1>3. got \in [Ids -> 0..MaxRev]
  BY Constants DEF Init
<1>4. /\ conf \in Configs /\ now \in 1..MaxTime /\ poll \in BOOLEAN /\ more \in BOOLEAN
      /\ redated \in SUBSET Ids /\ unread \in SUBSET Ids /\ waived \in SUBSET Ids
  <2>1. poll \in BOOLEAN /\ more \in BOOLEAN
    BY Zenon DEF Init
  <2>2. conf \in Configs /\ now = 1 /\ redated = {} /\ unread = {} /\ waived = {}
    BY DEF Init
  <2>3. 1 \in 1..MaxTime
    BY Constants
  <2> QED
    BY <2>1, <2>2, <2>3
<1>5. published \in 0..MaxItems
  BY <1>1, Constants
<1> QED
  BY <1>1, <1>2, <1>3, <1>4, <1>5 DEF TypeOK, Shown

-----------------------------------------------------------------------------
(* The feed of RSSCollector.                                               *)
LEMMA RSSCase ==
  ASSUME conf.type = "rss"
  PROVE  /\ Walking <=> cursor.offset # 0
         /\ NotModified <=> RSS!NotModified(cursor, live)
         /\ CursorOK <=> RSS!CursorOK(cursor)
         /\ Fresh(conf.type) = [offset |-> 0, anchor |-> None, etag |-> None]
         /\ \A limit, missing : Page(limit, missing) = RSS!Collect(conf, cursor, live, limit)
         /\ Known = << >>
<1>1. Walking <=> cursor.offset # 0
  BY Zenon DEF Walking, RSS!Walking
<1>2. NotModified <=> RSS!NotModified(cursor, live)
  BY Zenon DEF NotModified
<1>3. CursorOK <=> RSS!CursorOK(cursor)
  BY Zenon DEF CursorOK
<1>4. Fresh(conf.type) = [offset |-> 0, anchor |-> None, etag |-> None]
  BY Zenon DEF Fresh, RSS!Fresh
<1>5. \A limit, missing : Page(limit, missing) = RSS!Collect(conf, cursor, live, limit)
  BY Zenon DEF Page
<1>6. Known = << >>
  BY Zenon DEF Known
<1> QED
  BY <1>1, <1>2, <1>3, <1>4, <1>5, <1>6

LEMMA RSSInit ==
  ASSUME Init, conf.type = "rss"
  PROVE  CursorOK /\ FeedRead
<1>1. cursor = [offset |-> 0, anchor |-> None, etag |-> None]
  BY RSSCase DEF Init
<1>2. CursorOK
  <2>1. RSS!CursorOK(cursor)
    BY <1>1 DEF RSS!CursorOK
  <2> QED
    BY <2>1, RSSCase
<1>3. ~Walking
  BY <1>1, RSSCase
<1> QED
  BY <1>1, <1>2, <1>3 DEF FeedRead

LEMMA RSSCollect ==
  ASSUME TypeOK, ListingSorted, conf.type = "rss", NEW limit \in Limits,
         NEW missing \in Incomplete, Collect(limit, missing)
  PROVE  /\ TypeOK' /\ ListingSorted'
         /\ FeedRead => FeedRead'
<1> DEFINE N == Len(live)
           offset == RSS!Resume(cursor, live)
           selected == First(Beyond(live, offset), limit)
           end == offset + Len(selected)
           on == end < N
           made == IF conf.dated THEN "source" ELSE "clock"
           next == [offset |-> IF on THEN end ELSE 0,
                    anchor |-> IF on THEN live[end].id ELSE None,
                    etag |-> live]
<1>1. /\ live \in Seq(Item) /\ N \in Nat /\ DOMAIN live = 1..N /\ Apart(live)
      /\ \A k \in 1..N : live[k].id \in Nat /\ live[k].id \in Ids /\ live[k].rev # 0
      /\ published \in Nat /\ \A k \in 1..N : live[k].id <= published
  <2>1. \A k \in 1..N : live[k].id <= published
    BY ListingOrder DEF Listed
  <2>2. published \in Nat
    BY DEF TypeOK
  <2> QED
    BY <2>1, <2>2, ListingFacts
<1>2. /\ cursor.offset \in Nat /\ (cursor.offset = 0 <=> cursor.anchor = None)
      /\ cursor.etag # None => cursor.etag \in Seq(Item)
  BY RSSCase, RSSListing DEF TypeOK, RSS!CursorOK
<1>3. /\ offset \in 0..N
      /\ offset # 0 => offset = cursor.offset /\ live[offset].id = cursor.anchor
  BY <1>1, <1>2 DEF RSS!Resume
<1>4. limit \in Nat \ {0}
  BY Constants
<1> HIDE DEF offset
<1>5. /\ selected \in Seq(Item) /\ Len(selected) \in Nat /\ Sublist(selected, live)
      /\ offset <= N => end <= N
      /\ end < N => Len(selected) = limit
      /\ \A k \in 1..Len(selected) : selected[k] = live[offset + k]
  <2>1. live \in Seq(Item) /\ offset \in Nat /\ limit \in Nat
    BY <1>1, <1>3, <1>4
  <2> HIDE DEF N
  <2> QED
    BY <2>1, SliceProperties, Zenon DEF N
<1> HIDE DEF selected
<1>6. offset \in Nat /\ offset <= N
  BY <1>1, <1>3
<1>7. /\ end \in Nat /\ end <= N
      /\ on => end # 0
  BY <1>1, <1>4, <1>5, <1>6
<1>8. /\ end \in 0..N
      /\ on => end \in 1..N
  BY <1>1, <1>7
<1>9. CASE RSS!NotModified(cursor, live)
  <2>1. Returns(limit, missing, << >>, cursor, FALSE)
    <3>1. Page(limit, missing) = RSS!Collect(conf, cursor, live, limit)
      BY RSSCase
    <3>2. RSS!Collect(conf, cursor, live, limit) = Result(<< >>, {}, cursor, FALSE)
      BY <1>9, RSSListing, Zenon DEF RSS!Collect
    <3> QED
      BY <3>1, <3>2, NoEvents DEF Returns
  <2>2. /\ cursor' = cursor /\ conf' = conf /\ live' = live /\ published' = published
        /\ \A i \in Ids : got[i] # 0 => got'[i] # 0
        /\ CursorOK' => TypeOK'
        /\ ListingSorted'
    BY <2>1, CallEffect
  <2>3. CursorOK'
    BY <2>2, Zenon DEF TypeOK, CursorOK
  <2>4. Walking' <=> Walking
    BY <2>2, Zenon DEF Walking
  <2>5. ASSUME FeedRead
        PROVE  FeedRead'
    <3>1. ~Walking /\ ~Walking'
      BY <1>9, <2>4, RSSCase DEF RSS!NotModified, RSS!Walking
    <3> QED
      BY <2>2, <2>5, <3>1 DEF FeedRead
  <2> QED
    BY <2>2, <2>3, <2>5
<1>10. CASE ~RSS!NotModified(cursor, live)
  <2>1. Returns(limit, missing, selected, next, on)
    <3>1. Page(limit, missing) = RSS!Collect(conf, cursor, live, limit)
      BY RSSCase
    <3>2. RSS!Collect(conf, cursor, live, limit)
            = Result(Events(selected, made), {}, next, on)
      BY <1>10, RSSListing, Zenon
         DEF RSS!Collect, RSS!Event, Events, selected, offset
    <3>3. on \in BOOLEAN
      OBVIOUS
    <3> HIDE DEF next, on, made
    <3> QED
      BY <1>5, <3>1, <3>2, <3>3 DEF Returns
  <2> HIDE DEF next
  <2>2. /\ cursor' = next /\ conf' = conf /\ live' = live /\ published' = published
        /\ \A i \in Ids : got[i] # 0 => got'[i] # 0
        /\ \A n \in 1..Len(selected) : got'[selected[n].id] = selected[n].rev
        /\ CursorOK' => TypeOK'
        /\ ListingSorted'
    BY <2>1, CallEffect
  <2>3. CursorOK'
    <3>1. on => live[end].id \in Nat /\ live[end].id # None /\ end \in Nat /\ end # 0
      BY <1>1, <1>8, Constants
    <3>2. RSS!CursorOK(next)
      BY <1>1, <3>1, RSSListing DEF RSS!CursorOK, next
    <3>3. conf'.type = "rss" /\ cursor' = next
      BY <2>2
    <3> QED
      BY <3>2, <3>3, Zenon DEF CursorOK
  <2>4. ASSUME FeedRead
        PROVE  FeedRead'
    <3>1. Walking' <=> on
      <4>1. Walking' <=> next.offset # 0
        BY <2>2, Zenon DEF Walking, RSS!Walking
      <4> QED
        BY <1>8, <4>1 DEF next
    <3>2. \A k \in 1..end : got'[live[k].id] # 0
      <4> SUFFICES ASSUME NEW k \in 1..end
                   PROVE  got'[live[k].id] # 0
        OBVIOUS
      <4>1. CASE k > offset
        <5>1. k - offset \in 1..Len(selected) /\ selected[k - offset] = live[k]
          BY <1>5, <1>6, <1>7, <4>1
        <5>2. k \in 1..N
          BY <1>1, <1>7
        <5> QED
          BY <1>1, <1>7, <2>2, <5>1, <5>2
      <4>2. CASE k <= offset
        <5>1. /\ offset # 0 /\ cursor.offset = offset /\ offset \in 1..N
              /\ live[offset].id = cursor.anchor
          BY <1>3, <4>2
        <5>2. got[live[k].id] # 0
          BY <1>1, <1>3, <2>4, <4>2, <5>1, RSSCase DEF FeedRead
        <5> QED
          BY <1>1, <1>3, <2>2, <4>2, <5>2
      <4> QED
        BY <1>3, <1>8, <4>1, <4>2
    <3>3. CASE on
      <4>1. cursor'.anchor = live[end].id /\ cursor'.offset = end
        BY <2>2, <3>3 DEF next
      <4>2. \A k \in 1..N : live[k].id = live[end].id => k = end
        BY <1>1, <1>8, <3>3 DEF Apart
      <4>3. live[end].id \in 0..published
        BY <1>1, <1>8, <3>3
      <4> QED
        BY <1>1, <1>8, <2>2, <3>1, <3>2, <3>3, <4>1, <4>2, <4>3 DEF FeedRead
    <3>4. CASE ~on
      <4>1. end = N /\ cursor'.etag = live
        BY <1>8, <2>2, <3>4 DEF next
      <4> QED
        BY <1>1, <2>2, <3>1, <3>2, <3>4, <4>1 DEF FeedRead
    <3> QED
      BY <3>3, <3>4
  <2> QED
    BY <2>2, <2>3, <2>4
<1> QED
  BY <1>9, <1>10

LEMMA RSSSource ==
  ASSUME TypeOK, ListingSorted, FeedRead, SourceChange, conf.type = "rss",
         conf.type \notin MidWalk
  PROVE  FeedRead'
<1>1. /\ conf' = conf /\ cursor' = cursor /\ got' = got
      /\ published \in Nat /\ published' \in {published, published + 1}
  BY SourceLeavesAlone
<1>2. Walking' <=> Walking
  BY <1>1, Zenon DEF Walking
<1>3. TypeOK'
  BY SourceKeepsOrder
<1>4. /\ Len(live) \in Nat /\ DOMAIN live = 1..Len(live) /\ DOMAIN live' = 1..Len(live')
      /\ Len(live') \in Nat
  BY <1>3, ListingFacts, ShownItems DEF TypeOK, Shown
<1>5. CASE ~Walking
  BY <1>1, <1>2, <1>5 DEF FeedRead
<1>6. CASE Walking
  <2>0. \A r, j : Loose(r) /\ j \in 1..Len(live) /\ live[j].id = cursor.anchor => j <= r
    BY <1>4, <1>6 DEF Loose
  <2>1. /\ cursor.offset \in Nat
        /\ cursor.anchor \in 0..published
        /\ \A k \in 1..Len(live) :
             live[k].id = cursor.anchor =>
               /\ cursor.offset <= k
               /\ cursor.offset = k => \A j \in 1..k : got[live[j].id] # 0
    BY <1>4, <1>6, RSSCase DEF FeedRead, TypeOK, RSS!CursorOK
  <2>2. ASSUME NEW k \in 1..Len(live'), live'[k].id = cursor.anchor
        PROVE  /\ cursor.offset <= k
               /\ cursor.offset = k => \A j \in 1..k : got[live'[j].id] # 0
    <3>1. ASSUME NEW time \in 1..MaxTime, Publish(time)
          PROVE  cursor.offset <= k /\ cursor.offset # k
      <4>1. /\ live'[1].id = published + 1
            /\ \A i \in 2..Len(live') : i - 1 \in 1..Len(live) /\ live'[i] = live[i - 1]
        <5>1. /\ live'[1] = NewItem(published + 1, time)
              /\ \A i \in 2..Len(live') : i - 1 \in 1..Len(live) /\ live'[i] = live[i - 1]
          BY <3>1, PublishEffect
        <5> QED
          BY <5>1 DEF NewItem
      <4>2. k # 1
        BY <1>1, <2>1, <2>2, <4>1
      <4>3. k - 1 \in 1..Len(live) /\ live[k - 1].id = cursor.anchor
        BY <1>4, <2>2, <4>1, <4>2
      <4> QED
        BY <2>1, <4>3
    <3>2. ASSUME NEW r \in DOMAIN live, NEW time \in 1..MaxTime, Update(r, time)
          PROVE  /\ cursor.offset <= k
                 /\ cursor.offset = k => \A j \in 1..k : got[live'[j].id] # 0
      <4>1. Len(live') = Len(live) /\ \A j \in 1..Len(live) : live'[j].id = live[j].id
        BY <3>2, UpdateEffect
      <4> QED
        BY <2>1, <2>2, <4>1
    <3>3. ASSUME NEW r \in DOMAIN live, Remove(r)
          PROVE  /\ cursor.offset <= k
                 /\ cursor.offset = k => \A j \in 1..k : got[live'[j].id] # 0
      <4>1. /\ Len(live') = Len(live) - 1
            /\ \A j \in 1..Len(live') : j < r => live'[j] = live[j]
            /\ \A j \in 1..Len(live') : j >= r => live'[j] = live[j + 1]
        BY <3>3, RemoveEffect
      <4>2. Loose(r) /\ r \in 1..Len(live)
        BY <1>4, <3>3 DEF Remove
      <4>3. k < r
        <5>1. CASE k >= r
          <6>1. k + 1 \in 1..Len(live) /\ live[k + 1].id = cursor.anchor
            BY <1>4, <2>2, <4>1, <5>1
          <6>2. k + 1 <= r
            BY <2>0, <4>2, <6>1
          <6> QED
            BY <1>4, <4>2, <5>1, <6>2
        <5> QED
          BY <1>4, <4>2, <5>1
      <4>4. k \in 1..Len(live) /\ \A j \in 1..k : j \in 1..Len(live') /\ live'[j] = live[j]
        BY <1>4, <4>1, <4>2, <4>3
      <4> QED
        BY <1>4, <2>1, <2>2, <4>4
    <3>4. ASSUME NEW r \in DOMAIN live, NEW s \in DOMAIN live, Reorder(r, s)
          PROVE  /\ cursor.offset <= k
                 /\ cursor.offset = k => \A j \in 1..k : got[live'[j].id] # 0
      <4>1. /\ Len(live') = Len(live) /\ r < s
            /\ live'[r] = live[s] /\ live'[s] = live[r]
            /\ \A j \in 1..Len(live) : j \notin {r, s} => live'[j] = live[j]
        BY <3>4, ReorderEffect
      <4>2. Loose(r) /\ r \in 1..Len(live) /\ s \in 1..Len(live)
        BY <1>4, <3>4 DEF Reorder
      <4>3. k # r
        <5> SUFFICES ASSUME k = r
                     PROVE  FALSE
          OBVIOUS
        <5>1. s <= r
          BY <2>0, <2>2, <4>1, <4>2
        <5> QED
          BY <1>4, <4>1, <4>2, <5>1
      <4>4. CASE k = s
        <5>1. live[r].id = cursor.anchor
          BY <2>2, <4>1, <4>4
        <5>2. cursor.offset <= r
          BY <2>1, <4>2, <5>1
        <5> QED
          BY <1>4, <2>1, <4>1, <4>2, <4>4, <5>2
      <4>5. CASE k # s
        <5>1. k \in 1..Len(live) /\ live'[k] = live[k]
          BY <4>1, <4>3, <4>5
        <5>2. k < r
          <6>1. k <= r
            BY <2>0, <2>2, <4>2, <5>1
          <6> QED
            BY <1>4, <4>2, <4>3, <5>1, <6>1
        <5>3. \A j \in 1..k : live'[j] = live[j]
          BY <1>4, <4>1, <4>2, <5>1, <5>2
        <5> QED
          BY <2>1, <2>2, <5>1, <5>3
      <4> QED
        BY <4>4, <4>5
    <3>5. ASSUME NEW r \in DOMAIN live, Kill(r) \/ Comment(r)
          PROVE  FALSE
      BY <3>5 DEF Kill, Comment
    <3> QED
      BY <3>1, <3>2, <3>3, <3>4, <3>5 DEF SourceChange
  <2>3. cursor.anchor \in 0..published'
    BY <1>1, <2>1
  <2> QED
    BY <1>1, <1>2, <1>4, <1>6, <2>2, <2>3 DEF FeedRead
<1> QED
  BY <1>5, <1>6

-----------------------------------------------------------------------------
(* The front page of HackerNewsCollector.                                  *)
LEMMA InToSet == \A seq, x : x \in ToSet(seq) <=> Among(seq, x)
BY DEF ToSet, Among

LEMMA HackerNewsCase ==
  ASSUME conf.type = "hackernews"
  PROVE  /\ ~Walking /\ ~NotModified
         /\ CursorOK <=> HackerNews!CursorOK(cursor)
         /\ Fresh(conf.type) = [seen |-> << >>, refresh |-> << >>]
         /\ \A limit, missing : Page(limit, missing) = HackerNews!Collect(cursor, live, limit)
         /\ Known = cursor.seen
<1>1. ~Walking
  BY Zenon DEF Walking
<1>2. ~NotModified
  BY Zenon DEF NotModified
<1>3. CursorOK <=> HackerNews!CursorOK(cursor)
  BY Zenon DEF CursorOK
<1>4. Fresh(conf.type) = [seen |-> << >>, refresh |-> << >>]
  BY Zenon DEF Fresh, HackerNews!Fresh
<1>5. \A limit, missing : Page(limit, missing) = HackerNews!Collect(cursor, live, limit)
  BY Zenon DEF Page
<1>6. Known = cursor.seen
  BY Zenon DEF Known
<1> QED
  BY <1>1, <1>2, <1>3, <1>4, <1>5, <1>6

(* A list without ids is one a collector may remember.                     *)
LEMMA NothingRemembered ==
  /\ << >> \in Seq(Nat) /\ Len(<< >>) = 0 /\ Distinct(<< >>) /\ Remembered(<< >>)
  /\ \A x : ~Among(<< >>, x)
<1>1. << >> \in Seq(Nat) /\ Len(<< >>) = 0 /\ Distinct(<< >>) /\ \A x : ~Among(<< >>, x)
  BY DEF Distinct, Among
<1> QED
  BY <1>1, Constants DEF Remembered

LEMMA HackerNewsInit ==
  ASSUME Init, conf.type = "hackernews"
  PROVE  CursorOK /\ StoriesRead
<1>1. cursor = [seen |-> << >>, refresh |-> << >>]
  BY HackerNewsCase DEF Init
<1>2. HackerNews!CursorOK(cursor)
  BY <1>1, NothingRemembered, HackerNewsListing, Constants DEF HackerNews!CursorOK
<1>3. StoriesRead
  BY <1>1, InToSet, NothingRemembered DEF StoriesRead
<1> QED
  BY <1>2, <1>3, HackerNewsCase

LEMMA HackerNewsCollect ==
  ASSUME TypeOK, ListingSorted, conf.type = "hackernews", NEW limit \in Limits,
         NEW missing \in Incomplete, Collect(limit, missing)
  PROVE  /\ TypeOK' /\ ListingSorted'
         /\ StoriesRead => StoriesRead'
<1> DEFINE candidates == Without(live, cursor.seen)
           taken == First(candidates, limit)
           processed == IdSeq(taken)
           on == Len(candidates) > Len(taken)
           readable == {k \in DOMAIN taken : ~taken[k].dead}
           stories == Kept(taken, readable)
           revisited == IF on THEN << >> ELSE HackerNews!Revisit(cursor, processed)
           older == Merged(cursor.refresh, cursor.seen)
           next == [seen |-> Remember(processed, cursor.seen),
                    refresh |-> First(Merged(processed, older), Refresh)]
<1>1. /\ live \in Seq(Item) /\ Len(live) \in Nat /\ DOMAIN live = 1..Len(live)
      /\ Apart(live)
      /\ \A k \in 1..Len(live) : live[k].id \in Nat /\ live[k].id <= published
      /\ published \in Nat
  <2>1. \A k \in 1..Len(live) : live[k].id <= published
    BY ListingOrder DEF Listed
  <2> QED
    BY <2>1, ListingFacts, SMTT(30) DEF TypeOK
<1>2. /\ Remembered(cursor.seen)
      /\ cursor.seen \in Seq(Nat) /\ Distinct(cursor.seen)
      /\ cursor.refresh \in Seq(Nat) /\ Distinct(cursor.refresh)
  <2>1. HackerNews!CursorOK(cursor)
    BY HackerNewsCase DEF TypeOK
  <2> QED
    BY <2>1, HackerNewsListing DEF HackerNews!CursorOK, Remembered
<1>3. limit \in Nat /\ Refresh \in Nat /\ Window \in Nat
  BY Constants
<1>4. Sublist(candidates, live) /\ candidates \in Seq(Item)
  <2>1. Sublist(candidates, live)
    BY <1>1, WithoutProperties, Zenon
  <2> QED
    BY <2>1 DEF Sublist
<1> HIDE DEF candidates
<1>5. Sublist(taken, live) /\ taken \in Seq(Item)
  <2>1. Sublist(taken, candidates)
    BY <1>3, <1>4, PartsAreSublists
  <2> QED
    BY <1>4, <2>1, SublistTransitive, SMTT(30) DEF Sublist
<1> HIDE DEF taken
<1>6. Apart(taken)
  BY <1>1, <1>5, SublistKeepsApart
<1>7. /\ processed \in Seq(Nat) /\ Distinct(processed)
      /\ \A x : Among(processed, x) <=> \E k \in 1..Len(taken) : taken[k].id = x
  BY <1>5, <1>6, IdSeqProperties
<1> HIDE DEF processed
<1>8. readable \in SUBSET (1..Len(taken)) /\ DOMAIN taken = 1..Len(taken)
  BY <1>5
<1>9. /\ Sublist(stories, taken)
      /\ \A k \in readable : \E n \in 1..Len(stories) : stories[n] = taken[k]
  <2> HIDE DEF readable
  <2> QED
    BY <1>5, <1>8, KeptIsSublist
<1> HIDE DEF stories
<1>10. Sublist(stories, live)
  BY <1>5, <1>9, SublistTransitive
<1>11. Returns(limit, missing, stories, next, on)
  <2>1. Page(limit, missing) = HackerNews!Collect(cursor, live, limit)
    BY HackerNewsCase
  <2>2. HackerNews!Collect(cursor, live, limit)
          = Result(Events(stories, "source"),
                   HackerNews!ThreadsRead(stories, revisited, live), next, on)
    BY HackerNewsListing, Zenon
       DEF HackerNews!Collect, HackerNews!Event, HackerNews!Readable, Events,
           candidates, taken, processed, stories
  <2>3. on \in BOOLEAN
    OBVIOUS
  <2> HIDE DEF next, on, revisited
  <2> QED
    BY <1>10, <2>1, <2>2, <2>3 DEF Returns
<1>12. /\ cursor' = next /\ conf' = conf /\ live' = live /\ published' = published
       /\ \A k \in 1..Len(live) : Settled(live[k]) => Settled(live[k])'
       /\ \A k \in 1..Len(live) :
            (\E n \in 1..Len(stories) : stories[n] = live[k]) => Settled(live[k])'
       /\ CursorOK' => TypeOK'
       /\ ListingSorted'
  <2> HIDE DEF next, on
  <2> QED
    BY <1>11, CallEffect
<1>13. /\ Remembered(Remember(processed, cursor.seen))
       /\ \A x : Among(Remember(processed, cursor.seen), x)
                   => Among(processed, x) \/ Among(cursor.seen, x)
  BY <1>2, <1>3, <1>7, RememberProperties
<1>14. older \in Seq(Nat) /\ Distinct(older)
  BY <1>2, MergedProperties
<1> HIDE DEF older
<1>15. Merged(processed, older) \in Seq(Nat) /\ Distinct(Merged(processed, older))
  BY <1>7, <1>14, MergedProperties
<1>16. CursorOK'
  <2>1. HackerNews!CursorOK(next)
    BY <1>3, <1>13, <1>15, FirstOfDistinct, HackerNewsListing DEF HackerNews!CursorOK
  <2> HIDE DEF next
  <2>2. conf'.type = "hackernews" /\ cursor' = next
    BY <1>12
  <2> QED
    BY <2>1, <2>2, Zenon DEF CursorOK
<1>17. ASSUME StoriesRead
       PROVE  StoriesRead'
  <2> SUFFICES ASSUME NEW m, Among(cursor'.seen, m)
               PROVE  m <= published /\ \A k \in 1..Len(live) :
                                          live[k].id = m => Settled(live[k])'
    BY <1>1, <1>12, InToSet DEF StoriesRead, SettledAt
  <2>1. Among(processed, m) \/ Among(cursor.seen, m)
    BY <1>12, <1>13
  <2>2. CASE Among(cursor.seen, m)
    BY <1>1, <1>12, <1>17, <2>2, InToSet DEF StoriesRead, SettledAt
  <2>3. CASE Among(processed, m)
    <3>1. PICK n \in 1..Len(taken) : taken[n].id = m
      BY <1>7, <2>3
    <3>2. PICK i \in 1..Len(live) : taken[n] = live[i]
      BY <1>5 DEF Sublist
    <3>3. Settled(live[i])'
      <4>1. CASE taken[n].dead
        <5>1. Settled(live[i])
          BY <3>2, <4>1 DEF Settled
        <5> QED
          BY <1>12, <5>1
      <4>2. CASE ~taken[n].dead
        <5>1. n \in readable
          BY <1>8, <4>2
        <5> QED
          BY <1>9, <1>12, <3>2, <5>1
      <4> QED
        BY <4>1, <4>2
    <3>4. \A k \in 1..Len(live) : live[k].id = m => k = i
      BY <1>1, <3>1, <3>2 DEF Apart
    <3> QED
      BY <1>1, <3>1, <3>2, <3>3, <3>4
  <2> QED
    BY <2>1, <2>2, <2>3
<1> QED
  BY <1>12, <1>16, <1>17

LEMMA HackerNewsSource ==
  ASSUME TypeOK, ListingSorted, StoriesRead, SourceChange, conf.type = "hackernews"
  PROVE  StoriesRead'
<1>1. /\ cursor' = cursor /\ published \in Nat
      /\ published' \in {published, published + 1}
  BY SourceLeavesAlone
<1>2. cursor.seen \in Seq(Nat)
  <2>1. HackerNews!CursorOK(cursor)
    BY HackerNewsCase DEF TypeOK
  <2> QED
    BY <2>1, HackerNewsListing DEF HackerNews!CursorOK, Remembered
<1>3. ASSUME NEW m \in ToSet(cursor.seen)
      PROVE  m <= published' /\ SettledAt(m)'
  <2>1. m \in Nat
    BY <1>2 DEF ToSet
  <2>2. m <= published /\ SettledAt(m)
    BY DEF StoriesRead
  <2> QED
    BY <1>1, <2>1, <2>2, SourceKeepsSettled
<1> QED
  BY <1>1, <1>3 DEF StoriesRead

-----------------------------------------------------------------------------
(* The newest item of a document that is not empty.                        *)
LEMMA HeadOf ==
  ASSUME NEW items \in Seq(Item), items # << >>
  PROVE  Len(items) \in Nat /\ Len(items) >= 1 /\ items[1] \in Item /\ items[1].id \in Nat
<1>1. Len(items) \in Nat /\ Len(items) # 0
  OBVIOUS
<1>2. 1 \in 1..Len(items)
  BY <1>1
<1> QED
  BY <1>1, <1>2, ItemFields

(* A pass over a listing that has its newest item first: if it settles     *)
(* what it came to behind the place where it began, everything it has      *)
(* passed is settled that is not newer than what it remembers.             *)
SettledNext(after, m) == \A k \in after : live[k].id <= m => Settled(live[k])'

LEMMA PassSettles ==
  ASSUME TypeOK, ListingSorted, conf.type \notin {"github", "rss"},
         \A k \in 1..Len(live) : Settled(live[k]) => Settled(live[k])',
         NEW c \in Nat, NEW before, NEW after, after \subseteq 1..Len(live),
         \A k \in after : k > c => Settled(live[k])',
         \A k \in after : k <= c => k \in before
  PROVE  /\ \A m : SettledUpTo(m, before) => SettledNext(after, m)
         /\ \A p \in 1..Len(live) : p > c => SettledNext(after, live[p].id)
<1>1. Len(live) \in Nat /\ \A k \in 1..Len(live) : live[k].id \in Nat
  BY ListingFacts
<1>2. NewestFirst(live)
  BY ListingOrder
<1>3. ASSUME NEW m, SettledUpTo(m, before), NEW k \in after, live[k].id <= m
      PROVE  Settled(live[k])'
  <2>1. k \in 1..Len(live)
    OBVIOUS
  <2>2. CASE k > c
    BY <2>2
  <2>3. CASE k <= c
    <3>1. Settled(live[k])
      BY <1>3, <2>3 DEF SettledUpTo
    <3> QED
      BY <2>1, <3>1
  <2> QED
    BY <2>1, <2>2, <2>3
<1>4. ASSUME NEW p \in 1..Len(live), p > c, NEW k \in after, live[k].id <= live[p].id
      PROVE  Settled(live[k])'
  <2>1. k \in 1..Len(live)
    OBVIOUS
  <2>2. ~(k < p)
    BY <1>1, <1>2, <1>4, <2>1 DEF NewestFirst
  <2>3. k > c
    BY <1>1, <1>4, <2>1, <2>2
  <2> QED
    BY <2>3
<1> QED
  BY <1>3, <1>4 DEF SettledNext

(* Of an item that was not newer than m, nothing below is.                 *)
LEMMA BelowIsOlder ==
  ASSUME TypeOK, ListingSorted, conf.type \notin {"github", "rss"},
         NEW j \in 1..Len(live), NEW k \in 1..Len(live), j <= k
  PROVE  live[k].id <= live[j].id
<1>1. Len(live) \in Nat /\ \A i \in 1..Len(live) : live[i].id \in Nat
  BY ListingFacts
<1>2. NewestFirst(live)
  BY ListingOrder
<1>3. CASE j = k
  BY <1>1, <1>3
<1>4. CASE j # k
  <2>1. live[j].id > live[k].id
    BY <1>1, <1>2, <1>4 DEF NewestFirst
  <2> QED
    BY <1>1, <2>1
<1> QED
  BY <1>3, <1>4

LEMMA SourceKeepsPassed ==
  ASSUME TypeOK, ListingSorted, SourceChange, conf.type \notin {"github", "rss"},
         NEW m \in Nat, m <= published, NEW before, NEW after,
         after \subseteq 1..Len(live'),
         \A k \in after : \A j \in 1..Len(live) :
           live[j].id = live'[k].id /\ (Unordered \/ j <= k) => j \in before,
         SettledUpTo(m, before)
  PROVE  \A k \in after : live'[k].id <= m => Settled(live[k])'
<1> SUFFICES ASSUME NEW k \in after, live'[k].id <= m
             PROVE  Settled(live[k])'
  OBVIOUS
<1>1. k \in 1..Len(live')
  OBVIOUS
<1>2. PICK j \in 1..Len(live) : /\ live[j].id = live'[k].id
                                /\ Unordered \/ j <= k
                                /\ Settled(live[j]) => Settled(live[k])'
  BY <1>1, SourceKeepsSettled
<1> QED
  BY <1>2 DEF SettledUpTo

-----------------------------------------------------------------------------
(* The pages of JSONFeedCollector.                                         *)
LEMMA JSONFeedCase ==
  ASSUME conf.type = "jsonfeed"
  PROVE  /\ Walking <=> cursor.page # 0
         /\ NotModified <=> JSONFeed!NotModified(cursor, live)
         /\ CursorOK <=> JSONFeed!CursorOK(cursor)
         /\ Fresh(conf.type) = [page |-> 0, offset |-> 0, seen |-> << >>,
                                watermark |-> << >>, etag |-> None]
         /\ \A limit, missing : Page(limit, missing) = JSONFeed!Collect(conf, cursor, live, limit)
         /\ Known = IF Walking THEN cursor.watermark ELSE cursor.seen
         /\ Known = JSONFeed!Watermark(cursor)
<1>1. Walking <=> cursor.page # 0
  BY Zenon DEF Walking, JSONFeed!Walking
<1>2. NotModified <=> JSONFeed!NotModified(cursor, live)
  BY Zenon DEF NotModified
<1>3. CursorOK <=> JSONFeed!CursorOK(cursor)
  BY Zenon DEF CursorOK
<1>4. Fresh(conf.type) = [page |-> 0, offset |-> 0, seen |-> << >>,
                          watermark |-> << >>, etag |-> None]
  BY Zenon DEF Fresh, JSONFeed!Fresh
<1>5. \A limit, missing : Page(limit, missing) = JSONFeed!Collect(conf, cursor, live, limit)
  BY Zenon DEF Page
<1>6. Known = JSONFeed!Watermark(cursor)
  BY Zenon DEF Known
<1>7. Known = IF Walking THEN cursor.watermark ELSE cursor.seen
  BY <1>1, <1>6 DEF JSONFeed!Watermark, JSONFeed!Walking
<1> QED
  BY <1>1, <1>2, <1>3, <1>4, <1>5, <1>6, <1>7

(* The part of the listing that a walk has passed.                         *)
PagesPassed == IF Walking THEN Above((cursor.page - 1) * PageSize + cursor.offset)
                          ELSE DOMAIN live

LEMMA JSONFeedInit ==
  ASSUME Init, conf.type = "jsonfeed"
  PROVE  CursorOK /\ PagesRead
<1>1. cursor = [page |-> 0, offset |-> 0, seen |-> << >>,
                watermark |-> << >>, etag |-> None]
  BY JSONFeedCase DEF Init
<1>2. JSONFeed!CursorOK(cursor)
  BY <1>1, NothingRemembered, JSONFeedListing DEF JSONFeed!CursorOK
<1>3. PagesRead
  BY <1>1, InToSet, NothingRemembered DEF PagesRead
<1> QED
  BY <1>2, <1>3, JSONFeedCase

LEMMA JSONFeedCursor ==
  ASSUME TypeOK, conf.type = "jsonfeed"
  PROVE  /\ cursor.page \in Nat /\ cursor.offset \in Nat
         /\ cursor.page = 0 => cursor.offset = 0 /\ cursor.watermark = << >>
         /\ Remembered(cursor.seen) /\ cursor.seen \in Seq(Nat) /\ Distinct(cursor.seen)
         /\ Remembered(cursor.watermark) /\ cursor.watermark \in Seq(Nat)
         /\ cursor.etag # None => cursor.etag \in Seq(Item)
<1>1. JSONFeed!CursorOK(cursor)
  BY JSONFeedCase DEF TypeOK
<1> QED
  BY <1>1, JSONFeedListing DEF JSONFeed!CursorOK, Remembered

LEMMA JSONFeedSource ==
  ASSUME TypeOK, ListingSorted, PagesRead, SourceChange, conf.type = "jsonfeed",
         conf.type \notin MidWalk
  PROVE  PagesRead'
<1>1. /\ conf' = conf /\ cursor' = cursor /\ published \in Nat
      /\ published' \in {published, published + 1}
  BY SourceLeavesAlone
<1>2. Walking' <=> Walking
  BY <1>1, Zenon DEF Walking
<1>3. TypeOK'
  BY SourceKeepsOrder
<1>4. DOMAIN live = 1..Len(live) /\ DOMAIN live' = 1..Len(live') /\ Len(live') \in Nat
      /\ Len(live) \in Nat
  BY <1>3, ListingFacts, ShownItems DEF TypeOK, Shown
<1> DEFINE bound == (cursor.page - 1) * PageSize + cursor.offset
<1>5. bound \in Int
  BY JSONFeedCursor, Constants
<1>6. PagesPassed' = IF Walking THEN {k \in 1..Len(live') : k <= bound} ELSE 1..Len(live')
  BY <1>1, <1>2, <1>4 DEF PagesPassed, Above
<1>7. PagesPassed = IF Walking THEN {k \in 1..Len(live) : k <= bound} ELSE 1..Len(live)
  BY <1>4 DEF PagesPassed, Above
<1> HIDE DEF bound
<1>8. PagesPassed' \subseteq 1..Len(live')
  BY <1>6
<1>9. ASSUME NEW k \in PagesPassed', NEW j \in 1..Len(live), Unordered \/ j <= k
      PROVE  j \in PagesPassed
  <2>1. CASE Walking
    <3>1. j <= k /\ k <= bound /\ k \in 1..Len(live')
      BY <1>6, <1>9, <2>1 DEF Unordered
    <3> QED
      BY <1>4, <1>5, <1>7, <2>1, <3>1
  <2>2. CASE ~Walking
    BY <1>7, <2>2
  <2> QED
    BY <2>1, <2>2
<1>10. ASSUME NEW m \in Nat, m <= published, SettledUpTo(m, PagesPassed)
       PROVE  SettledUpTo(m, PagesPassed)'
  <2>1. \A k \in PagesPassed' : \A j \in 1..Len(live) :
          live[j].id = live'[k].id /\ (Unordered \/ j <= k) => j \in PagesPassed
    BY <1>9
  <2>2. \A k \in PagesPassed' : live'[k].id <= m => Settled(live[k])'
    BY <1>8, <1>10, <2>1, SourceKeepsPassed
  <2> QED
    BY <2>2 DEF SettledUpTo
<1>11. ASSUME NEW m \in Nat, m <= published, SettledUpTo(m, DOMAIN live)
       PROVE  SettledUpTo(m, DOMAIN live)'
  <2>1. \A k \in 1..Len(live') : live'[k].id <= m => Settled(live[k])'
    BY <1>4, <1>11, SourceKeepsPassed
  <2> QED
    BY <1>4, <2>1 DEF SettledUpTo
<1>12. /\ \A m \in ToSet(cursor.seen) :
            m <= published /\ SettledUpTo(m, PagesPassed) /\ SettledAt(m)
       /\ \A m \in ToSet(cursor.watermark) :
            m <= published /\ SettledUpTo(m, DOMAIN live)
       /\ cursor.etag # None /\ cursor.etag # << >> =>
            cursor.etag[1].id <= published /\ SettledUpTo(cursor.etag[1].id, PagesPassed)
  BY Zenon DEF PagesRead, PagesPassed
<1>13. /\ \A m \in ToSet(cursor.seen) : m \in Nat
       /\ \A m \in ToSet(cursor.watermark) : m \in Nat
       /\ cursor.etag # None /\ cursor.etag # << >> => cursor.etag[1].id \in Nat
  <2>1. cursor.etag # None /\ cursor.etag # << >> => cursor.etag[1].id \in Nat
    BY JSONFeedCursor, HeadOf
  <2> QED
    BY <2>1, JSONFeedCursor DEF ToSet
<1>14. ASSUME NEW m \in ToSet(cursor'.seen)
       PROVE  m <= published' /\ SettledUpTo(m, PagesPassed)' /\ SettledAt(m)'
  BY <1>1, <1>10, <1>12, <1>13, SourceKeepsSettled
<1>15. ASSUME NEW m \in ToSet(cursor'.watermark)
       PROVE  m <= published' /\ SettledUpTo(m, DOMAIN live)'
  BY <1>1, <1>11, <1>12, <1>13
<1>16. ASSUME cursor'.etag # None, cursor'.etag # << >>
       PROVE  cursor'.etag[1].id <= published' /\ SettledUpTo(cursor.etag[1].id, PagesPassed)'
  BY <1>1, <1>10, <1>12, <1>13, <1>16 DEF SettledUpTo
<1> QED
  BY <1>14, <1>15, <1>16, Zenon DEF PagesRead, PagesPassed

(* What a call may do to the cursor of a feed: it settles what it passes,  *)
(* and remembers nothing else than it did before and what it read.         *)
LEMMA JSONFeedStep ==
  ASSUME TypeOK, ListingSorted, conf.type = "jsonfeed", PagesRead,
         conf' = conf, live' = live, published' = published,
         \A k \in 1..Len(live) : Settled(live[k]) => Settled(live[k])',
         NEW c \in Nat,
         Walking => c = (cursor.page - 1) * PageSize + cursor.offset,
         \A k \in PagesPassed' : k > c => Settled(live[k])',
         PagesPassed' \subseteq 1..Len(live),
         \A m : Among(cursor'.seen, m) =>
           \/ Among(cursor.seen, m)
           \/ \E p \in 1..Len(live) : p > c /\ live[p].id = m /\ Settled(live[p])',
         \A m : Among(cursor'.watermark, m) => Among(Known, m),
         \/ cursor'.etag = cursor.etag
         \/ cursor'.etag # << >> =>
              \E p \in 1..Len(live) : p > c /\ live[p].id = cursor'.etag[1].id
  PROVE  PagesRead'
<1>1. /\ Len(live) \in Nat /\ DOMAIN live = 1..Len(live) /\ Apart(live)
      /\ \A k \in 1..Len(live) : live[k].id \in Nat /\ live[k].id <= published
  <2>1. \A k \in 1..Len(live) : live[k].id <= published
    BY ListingOrder DEF Listed
  <2> QED
    BY <2>1, ListingFacts
<1>2. /\ \A m : Among(cursor.seen, m) =>
            m <= published /\ SettledUpTo(m, PagesPassed) /\ SettledAt(m)
      /\ \A m : Among(cursor.watermark, m) =>
            m <= published /\ SettledUpTo(m, DOMAIN live)
      /\ cursor.etag # None /\ cursor.etag # << >> =>
            cursor.etag[1].id <= published /\ SettledUpTo(cursor.etag[1].id, PagesPassed)
  <2>1. /\ \A m \in ToSet(cursor.seen) :
            m <= published /\ SettledUpTo(m, PagesPassed) /\ SettledAt(m)
        /\ \A m \in ToSet(cursor.watermark) :
             m <= published /\ SettledUpTo(m, DOMAIN live)
        /\ cursor.etag # None /\ cursor.etag # << >> =>
             cursor.etag[1].id <= published /\ SettledUpTo(cursor.etag[1].id, PagesPassed)
    BY Zenon DEF PagesRead, PagesPassed
  <2> QED
    BY <2>1, InToSet, Zenon
<1>3. \A k \in PagesPassed' : k <= c => k \in PagesPassed
  BY <1>1 DEF PagesPassed, Above
<1>4. /\ \A m : SettledUpTo(m, PagesPassed) => SettledNext(PagesPassed', m)
      /\ \A p \in 1..Len(live) : p > c => SettledNext(PagesPassed', live[p].id)
  <2> DEFINE before == PagesPassed
             after == PagesPassed'
  <2>1. /\ after \subseteq 1..Len(live)
        /\ \A k \in after : k > c => Settled(live[k])'
        /\ \A k \in after : k <= c => k \in before
    BY <1>3
  <2> HIDE DEF before, after
  <2>2. /\ \A m : SettledUpTo(m, before) => SettledNext(after, m)
        /\ \A p \in 1..Len(live) : p > c => SettledNext(after, live[p].id)
    BY <2>1, PassSettles
  <2> QED
    BY <2>2 DEF before, after
<1>5. \A m : SettledNext(PagesPassed', m) => SettledUpTo(m, PagesPassed)'
  BY DEF SettledNext, SettledUpTo
<1>6. ASSUME NEW m, Among(cursor'.seen, m)
      PROVE  m <= published' /\ SettledUpTo(m, PagesPassed)' /\ SettledAt(m)'
  <2>1. CASE Among(cursor.seen, m)
    <3>1. SettledAt(m)'
      BY <1>1, <1>2, <2>1 DEF SettledAt
    <3> QED
      BY <1>2, <1>4, <1>5, <2>1, <3>1
  <2>2. CASE \E p \in 1..Len(live) : p > c /\ live[p].id = m /\ Settled(live[p])'
    <3>1. PICK p \in 1..Len(live) : p > c /\ live[p].id = m /\ Settled(live[p])'
      BY <2>2
    <3>2. SettledAt(m)'
      BY <1>1, <3>1 DEF SettledAt, Apart
    <3> QED
      BY <1>1, <1>4, <1>5, <3>1, <3>2
  <2> QED
    BY <1>6, <2>1, <2>2
<1>7. ASSUME NEW m, Among(cursor'.watermark, m)
      PROVE  m <= published' /\ SettledUpTo(m, DOMAIN live)'
  <2>1. Among(Known, m)
    BY <1>7
  <2>2. m <= published /\ SettledUpTo(m, DOMAIN live)
    <3>1. CASE Walking
      BY <1>2, <2>1, <3>1, JSONFeedCase
    <3>2. CASE ~Walking
      <4>1. Among(cursor.seen, m) /\ PagesPassed = DOMAIN live
        BY <2>1, <3>2, JSONFeedCase DEF PagesPassed
      <4> QED
        BY <1>2, <4>1
    <3> QED
      BY <3>1, <3>2
  <2> QED
    BY <1>1, <2>2 DEF SettledUpTo
<1>8. ASSUME cursor'.etag # None, cursor'.etag # << >>
      PROVE  cursor'.etag[1].id <= published' /\ SettledUpTo(cursor.etag[1].id, PagesPassed)'
  <2>1. CASE cursor'.etag = cursor.etag
    <3>1. cursor.etag[1].id <= published /\ SettledNext(PagesPassed', cursor.etag[1].id)
      BY <1>2, <1>4, <1>8, <2>1
    <3> QED
      BY <2>1, <3>1 DEF SettledNext, SettledUpTo
  <2>2. CASE \E p \in 1..Len(live) : p > c /\ live[p].id = cursor'.etag[1].id
    <3>1. PICK p \in 1..Len(live) : p > c /\ live[p].id = cursor'.etag[1].id
      BY <2>2
    <3>2. SettledNext(PagesPassed', cursor'.etag[1].id)
      BY <1>4, <3>1
    <3> QED
      BY <1>1, <3>1, <3>2 DEF SettledNext, SettledUpTo
  <2> QED
    BY <1>8, <2>1, <2>2
<1>9. /\ \A m \in ToSet(cursor'.seen) :
            m <= published' /\ SettledUpTo(m, PagesPassed)' /\ SettledAt(m)'
      /\ \A m \in ToSet(cursor'.watermark) :
            m <= published' /\ SettledUpTo(m, DOMAIN live)'
  BY <1>6, <1>7, InToSet, Zenon
<1> QED
  BY <1>8, <1>9, Zenon DEF PagesRead, PagesPassed

LEMMA JSONFeedUnmodified ==
  ASSUME TypeOK, ListingSorted, conf.type = "jsonfeed", NEW limit \in Limits,
         NEW missing \in Incomplete, Collect(limit, missing), JSONFeed!NotModified(cursor, live)
  PROVE  /\ TypeOK' /\ ListingSorted'
         /\ PagesRead => PagesRead'
<1> DEFINE still == [cursor EXCEPT !.page = 0, !.offset = 0, !.watermark = << >>]
<1>1. Returns(limit, missing, << >>, still, FALSE)
  <2>1. Page(limit, missing) = JSONFeed!Collect(conf, cursor, live, limit)
    BY JSONFeedCase
  <2>2. JSONFeed!Collect(conf, cursor, live, limit) = Result(<< >>, {}, still, FALSE)
    BY JSONFeedListing, Zenon DEF JSONFeed!Collect
  <2> HIDE DEF still
  <2> QED
    BY <2>1, <2>2, NoEvents DEF Returns
<1>2. ~Walking
  BY JSONFeedCase DEF JSONFeed!NotModified, JSONFeed!Walking
<1>3. /\ still.page = 0 /\ still.offset = 0 /\ still.watermark = << >>
      /\ still.seen = cursor.seen /\ still.etag = cursor.etag
  OBVIOUS
<1> HIDE DEF still
<1>4. /\ cursor' = still /\ conf' = conf /\ live' = live /\ published' = published
      /\ \A k \in 1..Len(live) : Settled(live[k]) => Settled(live[k])'
      /\ CursorOK' => TypeOK'
      /\ ListingSorted'
  BY <1>1, CallEffect
<1>5. CursorOK'
  <2>1. JSONFeed!CursorOK(cursor)
    BY JSONFeedCase DEF TypeOK
  <2>2. JSONFeed!CursorOK(still)
    BY <1>3, <2>1, NothingRemembered, JSONFeedListing DEF JSONFeed!CursorOK
  <2>3. conf'.type = "jsonfeed"
    BY <1>4
  <2> QED
    BY <1>4, <2>2, <2>3, Zenon DEF CursorOK
<1>6. ~Walking'
  <2>1. conf'.type = "jsonfeed"
    BY <1>4
  <2>2. Walking' <=> cursor'.page # 0
    BY <2>1, Zenon DEF Walking, JSONFeed!Walking
  <2> QED
    BY <1>3, <1>4, <2>2
<1>7. Len(live) \in Nat /\ DOMAIN live = 1..Len(live)
  BY ListingFacts
<1>8. PagesPassed' = 1..Len(live)
  BY <1>4, <1>6, <1>7 DEF PagesPassed
<1>9. ASSUME PagesRead
      PROVE  PagesRead'
  <2>1. \A k \in PagesPassed' : k > Len(live) => Settled(live[k])'
    BY <1>7, <1>8
  <2>2. \A m : ~Among(cursor'.watermark, m)
    BY <1>3, <1>4, NothingRemembered
  <2>3. /\ cursor'.seen = cursor.seen /\ cursor'.etag = cursor.etag
        /\ PagesPassed' \subseteq 1..Len(live)
    BY <1>3, <1>4, <1>8
  <2> QED
    BY <1>2, <1>4, <1>7, <1>9, <2>1, <2>2, <2>3, JSONFeedStep
<1> QED
  BY <1>4, <1>5, <1>9

LEMMA JSONFeedPage ==
  ASSUME TypeOK, ListingSorted, conf.type = "jsonfeed", NEW limit \in Limits,
         NEW missing \in Incomplete, Collect(limit, missing), ~JSONFeed!NotModified(cursor, live)
  PROVE  /\ TypeOK' /\ ListingSorted'
         /\ PagesRead => PagesRead'
<1> DEFINE N == Len(live)
           W == JSONFeed!Watermark(cursor)
           a == JSONFeed!Asked(cursor)
           start == (a - 1) * PageSize
           c == start + cursor.offset
           body == JSONFeed!Body(cursor, live)
           rest == Beyond(body, cursor.offset)
           open == Before(rest, W)
           counted == First(open, limit)
           n == Len(counted)
           reached == Len(open) < Len(rest) /\ Len(open) < limit
           new == Without(counted, cursor.seen)
           ids == IdSeq(new)
           end == cursor.offset + n
           linked == a * PageSize < N
           page == IF reached THEN 0
                   ELSE IF end < Len(body) THEN a
                   ELSE IF linked THEN a + 1
                   ELSE 0
           seen == IF JSONFeed!Walking(cursor)
                   THEN Remember(cursor.seen, ids)
                   ELSE Remember(ids, cursor.seen)
           made == IF conf.dated THEN "source" ELSE "clock"
           next == [page |-> page,
                    offset |-> IF page # 0 /\ end < Len(body) THEN end ELSE 0,
                    seen |-> seen,
                    watermark |-> IF page # 0 THEN W ELSE << >>,
                    etag |-> JSONFeed!Etag(cursor, body)]
           on == page # 0
<1>1. /\ live \in Seq(Item) /\ N \in Nat /\ DOMAIN live = 1..N /\ Apart(live)
      /\ \A k \in 1..N : live[k].id \in Nat /\ live[k].id <= published
      /\ published \in Nat
  <2>1. \A k \in 1..N : live[k].id <= published
    BY ListingOrder DEF Listed
  <2> QED
    BY <2>1, ListingFacts DEF TypeOK
<1>2. /\ cursor.page \in Nat /\ cursor.offset \in Nat
      /\ cursor.page = 0 => cursor.offset = 0 /\ cursor.watermark = << >>
      /\ Remembered(cursor.seen) /\ cursor.seen \in Seq(Nat) /\ Distinct(cursor.seen)
      /\ Remembered(cursor.watermark) /\ cursor.watermark \in Seq(Nat)
      /\ cursor.etag # None => cursor.etag \in Seq(Item)
  BY JSONFeedCursor
<1>3. /\ limit \in Nat \ {0} /\ Window \in Nat /\ PageSize \in Nat \ {0}
  BY Constants
<1>4. /\ JSONFeed!Walking(cursor) <=> Walking
      /\ Walking <=> cursor.page # 0
      /\ a \in Nat \ {0} /\ (Walking => a = cursor.page) /\ (~Walking => a = 1)
      /\ Walking => W = cursor.watermark
      /\ ~Walking => W = cursor.seen
      /\ W = Known
  BY <1>2, JSONFeedCase DEF JSONFeed!Asked, JSONFeed!Watermark, JSONFeed!Walking
<1>5. Remembered(W)
  BY <1>2, <1>4
<1>6. start \in Nat /\ a * PageSize = start + PageSize
  BY <1>3, <1>4
<1>7. body = First(Beyond(live, start), PageSize)
  BY JSONFeedListing, Zenon DEF JSONFeed!Body, ServedPage
<1>8. cursor.offset <= Len(body)
  <2>1. JSONFeed!Serves(cursor, live)
    BY Zenon DEF Collect, Serves
  <2> QED
    BY <2>1 DEF JSONFeed!Serves
<1>9. Sublist(new, live) => Returns(limit, missing, new, next, on)
  <2>1. Page(limit, missing) = JSONFeed!Collect(conf, cursor, live, limit)
    BY JSONFeedCase
  <2>2. JSONFeed!Collect(conf, cursor, live, limit)
          = Result(Events(new, made), {}, next, on)
    BY JSONFeedListing, Zenon
       DEF JSONFeed!Collect, JSONFeed!Event, Events
  <2>3. on \in BOOLEAN
    OBVIOUS
  <2> HIDE DEF new, next, on, made
  <2> QED
    BY <2>1, <2>2, <2>3 DEF Returns
<1> HIDE DEF W, a, start, N, body
<1>10. /\ body \in Seq(Item) /\ Len(body) \in Nat
       /\ start <= N => start + Len(body) <= N
       /\ start > N => Len(body) = 0
       /\ start + Len(body) < N => Len(body) = PageSize
       /\ Len(body) <= PageSize
       /\ \A k \in 1..Len(body) : start + k \in 1..N /\ body[k] = live[start + k]
       /\ Sublist(body, live)
  <2>1. PageSize \in Nat /\ live \in Seq(Item)
    BY <1>1, <1>3
  <2> DEFINE part == First(Beyond(live, start), PageSize)
  <2>2. /\ part \in Seq(Item) /\ Len(part) \in Nat /\ Len(part) <= PageSize
        /\ start <= N => start + Len(part) <= N
        /\ start > N => Len(part) = 0
        /\ start + Len(part) < N => Len(part) = PageSize
        /\ \A k \in 1..Len(part) : start + k \in 1..N /\ part[k] = live[start + k]
        /\ Sublist(part, live)
    BY <1>6, <2>1, SliceProperties, Zenon DEF N
  <2> HIDE DEF part
  <2>3. body = part
    BY <1>7 DEF part
  <2> QED
    BY <2>2, <2>3
<1>11. /\ rest \in Seq(Item) /\ Len(rest) = Len(body) - cursor.offset
       /\ \A k \in 1..(Len(body) - cursor.offset) : rest[k] = body[cursor.offset + k]
       /\ Sublist(rest, live)
  <2>1. cursor.offset \in 0..Len(body)
    BY <1>2, <1>8, <1>10
  <2>2. /\ rest \in Seq(Item) /\ Len(rest) = Len(body) - cursor.offset
        /\ \A k \in 1..(Len(body) - cursor.offset) : rest[k] = body[cursor.offset + k]
    BY <1>10, <2>1, TailProperties, ZenonT(60)
  <2>3. Sublist(rest, body)
    BY <1>2, <1>10, PartsAreSublists
  <2> QED
    BY <1>10, <2>2, <2>3, SublistTransitive
<1>12. \A k \in 1..Len(rest) : c + k \in 1..N /\ rest[k] = live[c + k]
  <2> SUFFICES ASSUME NEW k \in 1..Len(rest)
               PROVE  c + k \in 1..N /\ rest[k] = live[c + k]
    OBVIOUS
  <2>1. /\ k \in 1..(Len(body) - cursor.offset)
        /\ cursor.offset + k \in 1..Len(body)
    BY <1>2, <1>8, <1>10, <1>11
  <2>2. start + (cursor.offset + k) = c + k
    BY <1>2, <1>6
  <2> QED
    BY <1>10, <1>11, <2>1, <2>2
<1> HIDE DEF rest
<1>13. /\ open \in Seq(Item) /\ Len(open) \in Nat /\ Len(open) <= Len(rest)
       /\ \A k \in 1..Len(open) : open[k] = rest[k]
       /\ Len(open) < Len(rest) => Among(W, rest[Len(open) + 1].id)
       /\ Sublist(open, live)
  <2>1. /\ open \in Seq(Item)
        /\ Len(open) <= Len(rest)
        /\ \A k \in 1..Len(open) : open[k] = rest[k]
        /\ Len(open) < Len(rest) => Among(W, rest[Len(open) + 1].id)
    BY <1>11, BeforeProperties, Zenon
  <2>2. Sublist(open, rest)
    BY <1>11, BeforeIsSublist
  <2>3. Len(open) \in Nat
    BY <2>1
  <2> QED
    BY <1>11, <2>1, <2>2, <2>3, SublistTransitive
<1> HIDE DEF open
<1>14. /\ counted \in Seq(Item) /\ n \in Nat /\ n <= Len(open) /\ n <= limit
       /\ n < Len(open) => n = limit
       /\ \A k \in 1..n : counted[k] = open[k]
       /\ Sublist(counted, live)
  <2>0. limit \in Nat
    BY <1>3
  <2>1. /\ counted \in Seq(Item)
        /\ n = (IF limit < Len(open) THEN limit ELSE Len(open))
        /\ \A k \in 1..n : counted[k] = open[k]
    BY <1>13, <2>0, FirstProperties, Zenon
  <2>2. Sublist(counted, open)
    BY <1>13, <2>0, PartsAreSublists
  <2>3. n \in Nat /\ n <= Len(open) /\ n <= limit /\ (n < Len(open) => n = limit)
    <3>1. CASE limit < Len(open)
      BY <1>13, <2>0, <2>1, <3>1
    <3>2. CASE ~(limit < Len(open))
      BY <1>13, <2>0, <2>1, <3>2
    <3> QED
      BY <3>1, <3>2
  <2> QED
    BY <1>13, <2>1, <2>2, <2>3, SublistTransitive
<1> HIDE DEF counted
<1>15. /\ Sublist(new, counted)
       /\ \A k \in 1..n : \/ Among(cursor.seen, counted[k].id)
                          \/ \E i \in 1..Len(new) : new[i] = counted[k]
  BY <1>14, WithoutProperties, Zenon, SMTT(30)
<1>16. /\ Sublist(new, live) /\ new \in Seq(Item) /\ Apart(new)
       /\ \A i \in 1..Len(new) : \E k \in 1..n : new[i] = counted[k]
  <2>1. Sublist(new, live)
    BY <1>14, <1>15, SublistTransitive
  <2>2. Apart(new)
    BY <1>1, <2>1, SublistKeepsApart DEF N
  <2> QED
    BY <1>15, <2>1, <2>2 DEF Sublist
<1> HIDE DEF new
<1>17. /\ ids \in Seq(Nat) /\ Distinct(ids)
       /\ \A x : Among(ids, x) <=> \E i \in 1..Len(new) : new[i].id = x
  BY <1>16, IdSeqProperties
<1> HIDE DEF ids
<1>18. /\ Remembered(seen)
       /\ \A x : Among(seen, x) => Among(ids, x) \/ Among(cursor.seen, x)
  <2>1. CASE JSONFeed!Walking(cursor)
    BY <1>2, <1>3, <1>17, <2>1, RememberProperties
  <2>2. CASE ~JSONFeed!Walking(cursor)
    BY <1>2, <1>3, <1>17, <2>2, RememberProperties
  <2> QED
    BY <2>1, <2>2
<1> HIDE DEF seen
<1>19. n <= Len(rest) /\ \A k \in 1..n : c + k \in 1..N /\ counted[k] = live[c + k]
  <2>1. n <= Len(rest) /\ Len(rest) \in Nat
    BY <1>11, <1>13, <1>14
  <2>2. ASSUME NEW k \in 1..n
        PROVE  c + k \in 1..N /\ counted[k] = live[c + k]
    <3>1. k \in 1..Len(open) /\ k \in 1..Len(rest)
      BY <1>13, <1>14, <2>1
    <3> QED
      BY <1>12, <1>13, <1>14, <3>1
  <2> QED
    BY <2>1, <2>2
<1>24. /\ start \in Nat /\ c \in Nat /\ n \in Nat /\ end \in Nat /\ end = cursor.offset + n
       /\ c + n = start + end
  <2>1. start \in Nat
    BY <1>6
  <2>2. n \in Nat
    BY <1>14
  <2>3. cursor.offset \in Nat
    BY <1>2
  <2> HIDE DEF n
  <2> QED
    BY <2>1, <2>2, <2>3
<1> HIDE DEF c, n, end
<1>20. ASSUME reached
       PROVE  c + n + 1 \in 1..N /\ Among(W, live[c + n + 1].id)
  <2>1. n = Len(open) /\ n + 1 \in 1..Len(rest) /\ Len(open) < Len(rest)
    BY <1>3, <1>11, <1>13, <1>14, <1>20
  <2>2. c + (n + 1) = c + n + 1
    BY <1>24
  <2>3. c + (n + 1) \in 1..N /\ rest[n + 1] = live[c + (n + 1)]
    BY <1>12, <2>1
  <2>4. Among(W, rest[n + 1].id)
    BY <1>13, <2>1
  <2> QED
    BY <2>2, <2>3, <2>4
<1>21. ASSUME ~reached, ~(end < Len(body))
       PROVE  end = Len(body)
  BY <1>2, <1>8, <1>10, <1>11, <1>14, <1>19, <1>21, <1>24, SMTT(30)
<1>22. ASSUME page = 0, ~reached
       PROVE  c + n >= N
  <2>1. end = Len(body) /\ ~linked
    BY <1>4, <1>21, <1>22
  <2>2. ~(start + PageSize < N)
    BY <1>6, <2>1
  <2>3. start + Len(body) >= N
    BY <1>1, <1>3, <1>6, <1>10, <2>2
  <2> QED
    BY <1>1, <1>10, <1>24, <2>1, <2>3
<1>23. ASSUME page # 0
       PROVE  /\ (next.page - 1) * PageSize + next.offset = c + n
              /\ ~reached /\ page \in Nat
  <2>1. CASE end < Len(body)
    <3>1. next.page = a /\ next.offset = end
      BY <1>23, <2>1
    <3> QED
      BY <1>4, <1>23, <1>24, <3>1 DEF start
  <2>2. CASE ~(end < Len(body))
    <3>1. next.page = a + 1 /\ next.offset = 0 /\ linked /\ ~reached
      BY <1>23, <2>2
    <3>2. start + PageSize < N
      BY <1>6, <3>1
    <3>3. Len(body) = PageSize /\ end = Len(body)
      BY <1>1, <1>3, <1>6, <1>10, <1>21, <2>2, <3>1, <3>2
    <3>4. (a + 1 - 1) * PageSize = start + PageSize
      BY <1>3, <1>4, <1>6
    <3>5. c + n = start + PageSize
      BY <1>24, <3>3
    <3>6. page \in Nat
      BY <1>4
    <3> HIDE DEF next, page, reached
    <3>7. (next.page - 1) * PageSize + next.offset = start + PageSize
      <4>1. (next.page - 1) * PageSize = start + PageSize
        <5>1. next.page - 1 = a + 1 - 1
          <6>1. next.page = a + 1 /\ a \in Nat
            BY <1>4, <3>1
          <6> QED
            BY <6>1
        <5> QED
          BY <3>4, <5>1, Zenon
      <4>2. start + PageSize \in Nat
        BY <1>3, <1>24
      <4> QED
        BY <3>1, <4>1, <4>2
    <3> QED
      BY <3>1, <3>5, <3>6, <3>7
  <2> QED
    BY <2>1, <2>2
<1> HIDE DEF next, page, linked, on
<1>25. Returns(limit, missing, new, next, on)
  BY <1>9, <1>16
<1>26. /\ cursor' = next /\ conf' = conf /\ live' = live /\ published' = published
       /\ \A k \in 1..Len(live) : Settled(live[k]) => Settled(live[k])'
       /\ \A k \in 1..Len(live) :
            (\E i \in 1..Len(new) : new[i] = live[k]) => Settled(live[k])'
       /\ CursorOK' => TypeOK'
       /\ ListingSorted'
  BY <1>25, CallEffect
<1>27. /\ next.page = page /\ next.seen = seen
       /\ next.offset = IF page # 0 /\ end < Len(body) THEN end ELSE 0
       /\ next.watermark = IF page # 0 THEN W ELSE << >>
       /\ next.etag = JSONFeed!Etag(cursor, body)
  BY DEF next
<1>28. /\ next.etag = IF Walking THEN cursor.etag ELSE body
       /\ next.etag # None => next.etag \in Seq(Item)
  BY <1>2, <1>4, <1>10, <1>27 DEF JSONFeed!Etag
<1>29. /\ page \in Nat /\ next.offset \in Nat
       /\ page = 0 => next.offset = 0 /\ next.watermark = << >>
       /\ Remembered(next.watermark)
  <2>1. page \in Nat
    BY <1>4 DEF page
  <2> QED
    BY <1>5, <1>24, <1>27, <2>1, NothingRemembered
<1>30. CursorOK'
  <2>1. JSONFeed!CursorOK(next)
    BY <1>18, <1>27, <1>28, <1>29, JSONFeedListing DEF JSONFeed!CursorOK
  <2>2. conf'.type = "jsonfeed"
    BY <1>26
  <2> QED
    BY <1>26, <2>1, <2>2, Zenon DEF CursorOK
<1>31. Walking' <=> page # 0
  <2>1. conf'.type = "jsonfeed"
    BY <1>26
  <2>2. Walking' <=> cursor'.page # 0
    BY <2>1, Zenon DEF Walking, JSONFeed!Walking
  <2> QED
    BY <1>26, <1>27, <2>2
<1>32. PagesPassed' = IF page # 0 THEN {k \in 1..N : k <= c + n} ELSE 1..N
  BY <1>1, <1>23, <1>26, <1>31 DEF PagesPassed, Above, N
<1>33. ASSUME PagesRead
       PROVE  PagesRead'
  <2>1. /\ \A m : Among(cursor.seen, m) => SettledAt(m)
        /\ \A m : Among(W, m) => SettledUpTo(m, DOMAIN live)
    <3>1. /\ \A m \in ToSet(cursor.seen) : SettledUpTo(m, PagesPassed) /\ SettledAt(m)
          /\ \A m \in ToSet(cursor.watermark) : SettledUpTo(m, DOMAIN live)
      BY <1>33, Zenon DEF PagesRead, PagesPassed
    <3>2. ~Walking => PagesPassed = DOMAIN live
      BY DEF PagesPassed
    <3> QED
      BY <1>4, <3>1, <3>2, InToSet
  <2>3. ASSUME NEW k \in 1..N, k > c, k <= c + n
        PROVE  Settled(live[k])'
    <3>1. k - c \in 1..n /\ c + (k - c) = k
      BY <1>1, <1>24, <2>3
    <3>2. counted[k - c] = live[k]
      BY <1>19, <3>1
    <3>3. CASE Among(cursor.seen, live[k].id)
      <4>1. Settled(live[k])
        BY <1>1, <2>1, <3>3 DEF SettledAt
      <4> QED
        BY <1>26, <4>1 DEF N
    <3>4. CASE \E i \in 1..Len(new) : new[i] = live[k]
      BY <1>26, <3>4 DEF N
    <3> QED
      BY <1>15, <3>1, <3>2, <3>3, <3>4
  <2>4. ASSUME NEW k \in 1..N, k > c + n, page = 0
        PROVE  Settled(live[k])'
    <3>1. reached
      BY <1>1, <1>22, <1>24, <2>4
    <3>2. c + n + 1 \in 1..N /\ Among(W, live[c + n + 1].id) /\ c + n + 1 <= k
      BY <1>1, <1>20, <1>24, <2>4, <3>1
    <3>3. live[k].id <= live[c + n + 1].id
      BY <3>2, BelowIsOlder DEF N
    <3>4. Settled(live[k])
      BY <1>1, <2>1, <3>2, <3>3 DEF SettledUpTo
    <3> QED
      BY <1>26, <3>4 DEF N
  <2>5. \A k \in PagesPassed' : k \in 1..N /\ (k > c => Settled(live[k])')
    <3> SUFFICES ASSUME NEW k \in PagesPassed'
                 PROVE  k \in 1..N /\ (k > c => Settled(live[k])')
      OBVIOUS
    <3>1. k \in 1..N /\ (page # 0 => k <= c + n)
      BY <1>32
    <3>2. CASE k <= c + n
      BY <2>3, <3>1, <3>2
    <3>3. CASE ~(k <= c + n)
      BY <1>1, <1>24, <2>4, <3>1, <3>3
    <3> QED
      BY <3>1, <3>2, <3>3
  <2>6. \A m : Among(cursor'.seen, m) =>
           \/ Among(cursor.seen, m)
           \/ \E p \in 1..Len(live) : p > c /\ live[p].id = m /\ Settled(live[p])'
    <3> SUFFICES ASSUME NEW m, Among(ids, m)
                 PROVE  \E p \in 1..Len(live) :
                          p > c /\ live[p].id = m /\ Settled(live[p])'
      BY <1>18, <1>26, <1>27
    <3>1. PICK i \in 1..Len(new) : new[i].id = m
      BY <1>17
    <3>2. PICK k \in 1..n : new[i] = counted[k]
      BY <1>16
    <3>3. PICK p \in 1..N : p = c + k /\ counted[k] = live[p]
      BY <1>19
    <3>4. p > c /\ p <= c + n
      BY <1>24, <3>3
    <3>5. Settled(live[p])' /\ live[p].id = m
      BY <2>3, <3>1, <3>2, <3>3, <3>4
    <3> QED
      BY <3>4, <3>5 DEF N
  <2>7. \A m : Among(cursor'.watermark, m) => Among(Known, m)
    BY <1>4, <1>26, <1>27, NothingRemembered
  <2>8. \/ cursor'.etag = cursor.etag
        \/ cursor'.etag # << >> =>
              \E p \in 1..Len(live) : p > c /\ live[p].id = cursor'.etag[1].id
    <3>1. CASE Walking
      BY <1>26, <1>28, <3>1
    <3>2. CASE ~Walking
      <4>1. start = 0 /\ c = 0
        BY <1>2, <1>3, <1>4, <3>2 DEF start, c
      <4>2. SUFFICES ASSUME body # << >>
                     PROVE  \E p \in 1..Len(live) : p > c /\ live[p].id = body[1].id
        BY <1>26, <1>28, <3>2
      <4>3. 1 \in 1..Len(body)
        BY <1>10, <4>2, HeadOf
      <4>4. start + 1 \in 1..N /\ body[1] = live[start + 1] /\ start + 1 > c
        BY <1>10, <4>1, <4>3
      <4> QED
        BY <4>4 DEF N
    <3> QED
      BY <3>1, <3>2
  <2>9. Walking => c = (cursor.page - 1) * PageSize + cursor.offset
    BY <1>4 DEF c, start
  <2> QED
    BY <1>24, <1>26, <1>33, <2>5, <2>6, <2>7, <2>8, <2>9, JSONFeedStep DEF N
<1> QED
  BY <1>26, <1>30, <1>33

LEMMA JSONFeedCollect ==
  ASSUME TypeOK, ListingSorted, conf.type = "jsonfeed", NEW limit \in Limits,
         NEW missing \in Incomplete, Collect(limit, missing)
  PROVE  /\ TypeOK' /\ ListingSorted'
         /\ PagesRead => PagesRead'
BY JSONFeedUnmodified, JSONFeedPage

-----------------------------------------------------------------------------
(* An anchor of a walk is an item of the listing, or below all of them; a  *)
(* walk stands at a position, and what it has passed are the items above.  *)
StandsAt(c, anchor) ==
  /\ c \in 0..Len(live)
  /\ \/ c \in 1..Len(live) /\ live[c].id = anchor
     \/ c = Len(live) /\ \A k \in 1..Len(live) : live[k].id # anchor

LEMMA AnchorFacts ==
  ASSUME TypeOK, ListingSorted, conf.type \notin {"github", "rss"}, NEW anchor, Anchored(anchor),
         NEW c, StandsAt(c, anchor)
  PROVE  /\ anchor \in Nat /\ anchor <= published
         /\ DownTo(anchor) = {k \in 1..Len(live) : k <= c}
<1>1. /\ Len(live) \in Nat /\ DOMAIN live = 1..Len(live)
      /\ \A k \in 1..Len(live) : live[k].id \in Nat
  BY ListingFacts
<1>2. NewestFirst(live)
  BY ListingOrder
<1>3. anchor \in Nat /\ anchor <= published
  BY DEF Anchored, TypeOK
<1>4. CASE c \in 1..Len(live) /\ live[c].id = anchor
  <2>1. ASSUME NEW k \in 1..Len(live)
        PROVE  live[k].id >= anchor <=> k <= c
    <3>1. CASE k < c
      BY <1>1, <1>2, <1>3, <1>4, <3>1 DEF NewestFirst
    <3>2. CASE c < k
      BY <1>1, <1>2, <1>3, <1>4, <3>2 DEF NewestFirst
    <3>3. CASE c = k
      BY <1>1, <1>3, <1>4, <3>3
    <3> QED
      BY <1>1, <1>4, <3>1, <3>2, <3>3
  <2> QED
    BY <1>1, <1>3, <2>1 DEF DownTo
<1>5. CASE c = Len(live) /\ \A k \in 1..Len(live) : live[k].id # anchor
  <2>1. \A k \in 1..Len(live) : live[k].id > anchor
    BY <1>1, <1>5 DEF Anchored
  <2>2. \A k \in 1..Len(live) : live[k].id >= anchor /\ k <= c
    BY <1>1, <1>3, <1>5, <2>1
  <2> QED
    BY <1>1, <1>3, <2>2 DEF DownTo
<1> QED
  BY <1>3, <1>4, <1>5 DEF StandsAt

(* What follows an anchor, or the whole listing without one.               *)
Ahead(anchor) == IF anchor # None THEN Following(live, anchor) ELSE live

LEMMA AheadProperties ==
  ASSUME TypeOK, NEW anchor, NEW n \in Nat
  PROVE  \E c \in 0..Len(live) :
           LET part == First(Ahead(anchor), n)
           IN /\ IF anchor # None THEN StandsAt(c, anchor) ELSE c = 0
              /\ Len(Ahead(anchor)) = Len(live) - c
              /\ part \in Seq(Item) /\ Len(part) \in Nat
              /\ Len(part) <= n /\ Len(part) <= Len(live) - c
              /\ Len(part) < Len(live) - c => Len(part) = n
              /\ \A k \in 1..Len(part) : c + k \in 1..Len(live) /\ part[k] = live[c + k]
              /\ Sublist(part, live)
<1> DEFINE N == Len(live)
           ahead == Ahead(anchor)
           part == First(ahead, n)
           s == Len(part)
<1>1. live \in Seq(Item) /\ N \in Nat
  BY ListingFacts
<1> HIDE DEF N, ahead
<1>2. PICK c \in 0..N :
        /\ ahead \in Seq(Item) /\ Len(ahead) = N - c
        /\ \A k \in 1..(N - c) : ahead[k] = live[c + k]
        /\ Sublist(ahead, live)
        /\ IF anchor # None THEN StandsAt(c, anchor) ELSE c = 0
  <2>1. CASE anchor # None
    <3>1. PICK c \in 0..N :
             /\ Following(live, anchor) \in Seq(Item)
             /\ Len(Following(live, anchor)) = N - c
             /\ \A k \in 1..(N - c) : Following(live, anchor)[k] = live[c + k]
             /\ Sublist(Following(live, anchor), live)
             /\ \/ c \in 1..N /\ live[c].id = anchor
                \/ c = N /\ \A k \in 1..N : live[k].id # anchor
      BY <1>1, FollowingProperties, Zenon DEF N
    <3>2. StandsAt(c, anchor)
      BY <3>1 DEF StandsAt, N
    <3>3. ahead = Following(live, anchor)
      BY <2>1 DEF ahead, Ahead
    <3> WITNESS c \in 0..N
    <3> QED
      BY <2>1, <3>1, <3>2, <3>3
  <2>2. CASE anchor = None
    <3>1. ahead = live /\ N = N - 0 /\ N = Len(live)
          /\ \A k \in 1..N : live[k] = live[0 + k]
      BY <1>1, <2>2 DEF N, ahead, Ahead
    <3>2. Sublist(live, live)
      BY <1>1, PartsAreSublists
    <3> 0 \in 0..N
      BY <1>1
    <3> WITNESS 0 \in 0..N
    <3> QED
      BY <1>1, <2>2, <3>1, <3>2
  <2> QED
    BY <2>1, <2>2
<1>3. /\ part \in Seq(Item)
      /\ s = (IF n < Len(ahead) THEN n ELSE Len(ahead))
      /\ \A k \in 1..s : part[k] = ahead[k]
  BY <1>2, FirstProperties, Zenon
<1>4. Sublist(part, live)
  <2>1. Sublist(part, ahead)
    BY <1>2, PartsAreSublists
  <2> QED
    BY <1>2, <2>1, SublistTransitive
<1>5. N - c \in Nat /\ Len(ahead) = N - c /\ c \in Nat
  BY <1>1, <1>2
<1>6. s \in Nat /\ s <= N - c /\ s <= n /\ (s < N - c => s = n)
  <2>1. CASE n < N - c
    BY <1>3, <1>5, <2>1
  <2>2. CASE ~(n < N - c)
    BY <1>3, <1>5, <2>2
  <2> QED
    BY <2>1, <2>2
<1>7. ASSUME NEW k \in 1..s
      PROVE  c + k \in 1..N /\ part[k] = live[c + k]
  <2>1. k \in 1..(N - c) /\ c + k \in 1..N
    BY <1>1, <1>5, <1>6
  <2> QED
    BY <1>2, <1>3, <2>1
<1> HIDE DEF part
<1>8. /\ IF anchor # None THEN StandsAt(c, anchor) ELSE c = 0
      /\ Len(ahead) = N - c
      /\ part \in Seq(Item) /\ s \in Nat /\ s <= n /\ s <= N - c
      /\ s < N - c => s = n
      /\ \A k \in 1..s : c + k \in 1..N /\ part[k] = live[c + k]
      /\ Sublist(part, live)
  BY <1>2, <1>3, <1>4, <1>6, <1>7
<1> WITNESS c \in 0..Len(live)
<1> QED
  BY <1>8 DEF N, ahead, part

LEMMA SourceKeepsAnchor ==
  ASSUME TypeOK, ListingSorted, SourceChange, conf.type \in {"reddit", "rest"},
         ~Unordered, NEW anchor, Anchored(anchor)
  PROVE  /\ anchor \in 0..published'
         /\ \/ \E k \in DOMAIN live' : live'[k].id = anchor
            \/ \A k \in DOMAIN live' : live'[k].id > anchor
<1>1. /\ Len(live) \in Nat /\ DOMAIN live = 1..Len(live)
      /\ \A k \in 1..Len(live) : live[k].id \in Nat
  BY ListingFacts
<1>2. TypeOK'
  BY SourceKeepsOrder
<1>3. DOMAIN live' = 1..Len(live') /\ Len(live') \in Nat
  BY <1>2, ShownItems DEF TypeOK, Shown
<1>4. /\ anchor \in 0..published /\ published \in Nat
      /\ published' \in {published, published + 1}
  BY SourceLeavesAlone DEF Anchored
<1>5. anchor \in 0..published'
  BY <1>4
<1>6. CASE live' = live
  BY <1>5, <1>6 DEF Anchored
<1>7. ASSUME NEW time \in 1..MaxTime, Publish(time)
      PROVE  \/ \E k \in DOMAIN live' : live'[k].id = anchor
             \/ \A k \in DOMAIN live' : live'[k].id > anchor
  <2>1. /\ live'[1].id = published + 1
        /\ \A k \in 2..Len(live') : k - 1 \in 1..Len(live) /\ live'[k] = live[k - 1]
    <3>1. /\ live'[1] = NewItem(published + 1, time)
          /\ \A k \in 2..Len(live') : k - 1 \in 1..Len(live) /\ live'[k] = live[k - 1]
      BY <1>7, PublishEffect
    <3> QED
      BY <3>1 DEF NewItem
  <2>2. CASE \A k \in DOMAIN live : live[k].id > anchor
    <3>1. \A k \in 1..Len(live') : live'[k].id > anchor
      <4> SUFFICES ASSUME NEW k \in 1..Len(live')
                   PROVE  live'[k].id > anchor
        OBVIOUS
      <4>1. CASE k = 1
        BY <1>4, <2>1, <4>1
      <4>2. CASE k # 1
        <5>1. k \in 2..Len(live')
          BY <1>3, <4>2
        <5> QED
          BY <1>1, <2>1, <2>2, <5>1
      <4> QED
        BY <4>1, <4>2
    <3> QED
      BY <1>3, <3>1
  <2>3. CASE \E k \in DOMAIN live : live[k].id = anchor
    <3>1. PICK j \in 1..Len(live) : live[j].id = anchor
      BY <1>1, <2>3
    <3>2. CASE j + 1 \in 1..Len(live')
      <4>1. j + 1 \in 2..Len(live') /\ (j + 1) - 1 = j
        BY <1>1, <1>3, <3>2
      <4>2. live'[j + 1] = live[j]
        BY <2>1, <4>1
      <4> QED
        BY <1>3, <3>1, <3>2, <4>2
    <3>3. CASE j + 1 \notin 1..Len(live')
      <4>1. \A k \in 1..Len(live') : live'[k].id > anchor
        <5> SUFFICES ASSUME NEW k \in 1..Len(live')
                     PROVE  live'[k].id > anchor
          OBVIOUS
        <5>1. CASE k = 1
          BY <1>4, <2>1, <5>1
        <5>2. CASE k # 1
          <6>1. k \in 2..Len(live') /\ k - 1 < j
            BY <1>1, <1>3, <3>3, <5>2
          <6>2. k - 1 \in 1..Len(live) /\ live'[k] = live[k - 1]
            BY <2>1, <6>1
          <6>3. NewestFirst(live)
            BY ListingOrder
          <6> QED
            BY <3>1, <6>1, <6>2, <6>3 DEF NewestFirst
        <5> QED
          BY <5>1, <5>2
      <4> QED
        BY <1>3, <4>1
    <3> QED
      BY <3>2, <3>3
  <2> QED
    BY <2>2, <2>3 DEF Anchored
<1>8. ASSUME NEW r \in DOMAIN live, Remove(r)
      PROVE  FALSE
  BY <1>8, LooseIsUnordered DEF Remove
<1>9. ASSUME NEW r, NEW s, NEW time, Update(r, time) \/ Reorder(r, s)
      PROVE  FALSE
  <2>1. conf.type \in {"rss", "github"}
    BY <1>9, Zenon DEF Update, Reorder
  <2> QED
    BY <2>1
<1>10. ASSUME NEW r \in DOMAIN live, Comment(r)
       PROVE  live' = live
  BY <1>10 DEF Comment
<1>11. ASSUME NEW r \in DOMAIN live, Kill(r)
       PROVE  FALSE
  BY <1>11 DEF Kill
<1> QED
  BY <1>5, <1>6, <1>7, <1>8, <1>9, <1>10, <1>11 DEF SourceChange

(* Ids that are remembered of a walk stay settled, and so do all that it   *)
(* has passed and that are not newer.                                      *)
IdsRead(ids, before) ==
  \A m : Among(ids, m) => m <= published /\ SettledUpTo(m, before) /\ SettledAt(m)

LEMMA IdsStayRead ==
  ASSUME TypeOK, ListingSorted, conf.type \notin {"github", "rss"},
         live' = live, published' = published,
         \A k \in 1..Len(live) : Settled(live[k]) => Settled(live[k])',
         NEW c \in Nat, NEW before, NEW after, after \subseteq 1..Len(live),
         \A k \in after : k > c => Settled(live[k])',
         \A k \in after : k <= c => k \in before,
         NEW old, NEW ids, IdsRead(old, before),
         \A m : Among(ids, m) =>
           \/ Among(old, m)
           \/ \E p \in 1..Len(live) : p > c /\ live[p].id = m /\ Settled(live[p])'
  PROVE  \A m : Among(ids, m) =>
                  m <= published' /\ SettledNext(after, m) /\ SettledAt(m)'
<1>1. /\ Len(live) \in Nat /\ DOMAIN live = 1..Len(live) /\ Apart(live)
      /\ \A k \in 1..Len(live) : live[k].id \in Nat /\ live[k].id <= published
  <2>1. \A k \in 1..Len(live) : live[k].id <= published
    BY ListingOrder DEF Listed
  <2> QED
    BY <2>1, ListingFacts
<1>2. /\ \A m : SettledUpTo(m, before) => SettledNext(after, m)
      /\ \A p \in 1..Len(live) : p > c => SettledNext(after, live[p].id)
  BY PassSettles
<1> SUFFICES ASSUME NEW m, Among(ids, m)
             PROVE  m <= published' /\ SettledNext(after, m) /\ SettledAt(m)'
  OBVIOUS
<1>3. CASE Among(old, m)
  <2>1. m <= published /\ SettledUpTo(m, before) /\ SettledAt(m)
    BY <1>3 DEF IdsRead
  <2>2. SettledAt(m)'
    BY <1>1, <2>1 DEF SettledAt
  <2> QED
    BY <1>2, <2>1, <2>2
<1>4. CASE \E p \in 1..Len(live) : p > c /\ live[p].id = m /\ Settled(live[p])'
  <2>1. PICK p \in 1..Len(live) : p > c /\ live[p].id = m /\ Settled(live[p])'
    BY <1>4
  <2>2. SettledAt(m)'
    BY <1>1, <2>1 DEF SettledAt, Apart
  <2> QED
    BY <1>1, <1>2, <2>1, <2>2
<1> QED
  BY <1>3, <1>4

-----------------------------------------------------------------------------
(* The posts of RedditCollector.                                           *)
LEMMA RedditCase ==
  ASSUME conf.type = "reddit"
  PROVE  /\ Walking <=> cursor.after # None
         /\ ~NotModified
         /\ CursorOK <=> Reddit!CursorOK(cursor)
         /\ Fresh(conf.type) = [after |-> None, seen |-> << >>, watermark |-> << >>]
         /\ \A limit, missing : Page(limit, missing) = Reddit!Collect(cursor, live, limit)
         /\ Known = IF Walking THEN cursor.watermark ELSE cursor.seen
         /\ Known = Reddit!Watermark(cursor)
<1>1. Walking <=> cursor.after # None
  BY Zenon DEF Walking, Reddit!Walking
<1>2. ~NotModified
  BY Zenon DEF NotModified
<1>3. CursorOK <=> Reddit!CursorOK(cursor)
  BY Zenon DEF CursorOK
<1>4. Fresh(conf.type) = [after |-> None, seen |-> << >>, watermark |-> << >>]
  BY Zenon DEF Fresh, Reddit!Fresh
<1>5. \A limit, missing : Page(limit, missing) = Reddit!Collect(cursor, live, limit)
  BY Zenon DEF Page
<1>6. Known = Reddit!Watermark(cursor)
  BY Zenon DEF Known
<1>7. Known = IF Walking THEN cursor.watermark ELSE cursor.seen
  BY <1>1, <1>6 DEF Reddit!Watermark, Reddit!Walking
<1> QED
  BY <1>1, <1>2, <1>3, <1>4, <1>5, <1>6, <1>7

PostsPassed == IF Walking THEN DownTo(cursor.after) ELSE DOMAIN live

LEMMA RedditInit ==
  ASSUME Init, conf.type = "reddit"
  PROVE  CursorOK /\ PostsRead
<1>1. cursor = [after |-> None, seen |-> << >>, watermark |-> << >>]
  BY RedditCase DEF Init
<1>2. Reddit!CursorOK(cursor)
  BY <1>1, NothingRemembered, RedditListing DEF Reddit!CursorOK
<1>3. ~Walking
  BY <1>1, RedditCase
<1>4. PostsRead
  BY <1>1, <1>3, InToSet, NothingRemembered DEF PostsRead
<1> QED
  BY <1>2, <1>4, RedditCase

LEMMA RedditCursor ==
  ASSUME TypeOK, conf.type = "reddit"
  PROVE  /\ cursor.after \in Nat \cup {None}
         /\ Walking <=> cursor.after # None
         /\ ~Walking => cursor.watermark = << >>
         /\ Remembered(cursor.seen) /\ cursor.seen \in Seq(Nat) /\ Distinct(cursor.seen)
         /\ Remembered(cursor.watermark) /\ cursor.watermark \in Seq(Nat)
<1>1. Reddit!CursorOK(cursor)
  BY RedditCase DEF TypeOK
<1> QED
  BY <1>1, RedditCase, RedditListing DEF Reddit!CursorOK, Remembered

LEMMA RedditSource ==
  ASSUME TypeOK, ListingSorted, PostsRead, SourceChange, conf.type = "reddit",
         conf.type \notin MidWalk
  PROVE  PostsRead'
<1>1. /\ conf' = conf /\ cursor' = cursor /\ published \in Nat
      /\ published' \in {published, published + 1}
  BY SourceLeavesAlone
<1>2. Walking' <=> Walking
  BY <1>1, Zenon DEF Walking
<1>3. TypeOK'
  BY SourceKeepsOrder
<1>4. DOMAIN live = 1..Len(live) /\ DOMAIN live' = 1..Len(live')
  BY <1>3, ListingFacts, ShownItems DEF TypeOK, Shown
<1>5. PostsPassed' = IF Walking THEN {k \in 1..Len(live') : live'[k].id >= cursor.after}
                     ELSE 1..Len(live')
  BY <1>1, <1>2, <1>4 DEF PostsPassed, DownTo
<1>6. PostsPassed = IF Walking THEN {k \in 1..Len(live) : live[k].id >= cursor.after}
                    ELSE 1..Len(live)
  BY <1>4 DEF PostsPassed, DownTo
<1>7. PostsPassed' \subseteq 1..Len(live')
  BY <1>5
<1>8. ASSUME NEW m \in Nat, m <= published, SettledUpTo(m, PostsPassed)
      PROVE  SettledUpTo(m, PostsPassed)'
  <2>1. \A k \in PostsPassed' : \A j \in 1..Len(live) :
          live[j].id = live'[k].id /\ (Unordered \/ j <= k) => j \in PostsPassed
    BY <1>5, <1>6
  <2>2. \A k \in PostsPassed' : live'[k].id <= m => Settled(live[k])'
    BY <1>7, <1>8, <2>1, SourceKeepsPassed
  <2> QED
    BY <2>2 DEF SettledUpTo
<1>9. ASSUME NEW m \in Nat, m <= published, SettledUpTo(m, DOMAIN live)
      PROVE  SettledUpTo(m, DOMAIN live)'
  <2>1. \A k \in 1..Len(live') : live'[k].id <= m => Settled(live[k])'
    BY <1>4, <1>9, SourceKeepsPassed
  <2> QED
    BY <1>4, <2>1 DEF SettledUpTo
<1>10. /\ Walking => Anchored(cursor.after)
       /\ \A m \in ToSet(cursor.seen) :
            m <= published /\ SettledUpTo(m, PostsPassed) /\ SettledAt(m)
       /\ \A m \in ToSet(cursor.watermark) :
            m <= published /\ SettledUpTo(m, DOMAIN live)
  BY Zenon DEF PostsRead, PostsPassed
<1>11. /\ \A m \in ToSet(cursor.seen) : m \in Nat
       /\ \A m \in ToSet(cursor.watermark) : m \in Nat
  <2>1. cursor.seen \in Seq(Nat) /\ cursor.watermark \in Seq(Nat)
    BY RedditCursor DEF Remembered
  <2>2. ASSUME NEW seq \in Seq(Nat), NEW m \in ToSet(seq)
        PROVE  m \in Nat
    BY <2>2 DEF ToSet
  <2> QED
    BY <2>1, <2>2
<1>12. ASSUME Walking
       PROVE  Anchored(cursor.after)'
  <2>1. ~Unordered
    BY <1>12 DEF Unordered
  <2>2. Anchored(cursor.after)
    BY <1>10, <1>12
  <2> QED
    BY <1>1, <2>1, <2>2, SourceKeepsAnchor DEF Anchored
<1>13. ASSUME NEW m \in ToSet(cursor'.seen)
       PROVE  m <= published' /\ SettledUpTo(m, PostsPassed)' /\ SettledAt(m)'
  BY <1>1, <1>8, <1>10, <1>11, SourceKeepsSettled
<1>14. ASSUME NEW m \in ToSet(cursor'.watermark)
       PROVE  m <= published' /\ SettledUpTo(m, DOMAIN live)'
  BY <1>1, <1>9, <1>10, <1>11
<1> QED
  BY <1>2, <1>12, <1>13, <1>14, Zenon DEF PostsRead, PostsPassed

LEMMA RedditCollect ==
  ASSUME TypeOK, ListingSorted, conf.type = "reddit", NEW limit \in Limits,
         NEW missing \in Incomplete, Collect(limit, missing)
  PROVE  /\ TypeOK' /\ ListingSorted'
         /\ PostsRead => PostsRead'
<1> DEFINE N == Len(live)
           W == Reddit!Watermark(cursor)
           ahead == Reddit!Ahead(cursor, live)
           children == First(ahead, limit)
           s == Len(children)
           open == Before(children, W)
           n == Len(open)
           reached == n < s
           posts == Without(open, cursor.seen)
           ids == IdSeq(posts)
           on == ~reached /\ s < Len(ahead)
           revisited == IF on THEN << >> ELSE Reddit!Revisit(cursor, ids)
           threads == Reddit!ThreadsRead(posts, revisited)
           seen == IF Reddit!Walking(cursor)
                   THEN Remember(cursor.seen, ids)
                   ELSE Remember(ids, cursor.seen)
           next == [after |-> IF on THEN children[s].id ELSE None,
                    seen |-> seen,
                    watermark |-> IF on THEN W ELSE << >>]
<1>1. /\ live \in Seq(Item) /\ N \in Nat /\ DOMAIN live = 1..N /\ Apart(live)
      /\ \A k \in 1..N : live[k].id \in Nat /\ live[k].id <= published
      /\ published \in Nat
  <2>1. \A k \in 1..N : live[k].id <= published
    BY ListingOrder DEF Listed
  <2>2. published \in Nat
    BY DEF TypeOK
  <2> QED
    BY <2>1, <2>2, ListingFacts
<1>2. /\ cursor.after \in Nat \cup {None}
      /\ Walking <=> cursor.after # None
      /\ ~Walking => cursor.watermark = << >>
      /\ Remembered(cursor.seen) /\ cursor.seen \in Seq(Nat) /\ Distinct(cursor.seen)
      /\ Remembered(cursor.watermark) /\ cursor.watermark \in Seq(Nat)
  BY RedditCursor
<1>3. limit \in Nat \ {0} /\ limit \in Nat /\ Window \in Nat
  BY Constants
<1>4. /\ Reddit!Walking(cursor) <=> Walking
      /\ Walking => W = cursor.watermark
      /\ ~Walking => W = cursor.seen
      /\ W = Known
  BY <1>2, RedditCase DEF Reddit!Watermark, Reddit!Walking
<1>5. Remembered(W)
  BY <1>2, <1>4
<1>6. Sublist(posts, live) => Returns(limit, missing, posts, next, on)
  <2>1. Page(limit, missing) = Reddit!Collect(cursor, live, limit)
    BY RedditCase
  <2>2. Reddit!Collect(cursor, live, limit)
          = Result(Events(posts, "source"), threads, next, on)
    BY RedditListing, Zenon DEF Reddit!Collect, Reddit!Event, Events
  <2>3. on \in BOOLEAN
    OBVIOUS
  <2> HIDE DEF posts, next, on, threads
  <2> QED
    BY <2>1, <2>2, <2>3 DEF Returns
<1>7. ahead = Ahead(cursor.after)
  <2>1. ahead = IF Walking THEN Following(live, cursor.after) ELSE live
    BY <1>4, RedditListing, Zenon DEF Reddit!Ahead
  <2> QED
    BY <1>2, <2>1 DEF Ahead
<1>8. PICK c \in 0..N :
        /\ IF cursor.after # None THEN StandsAt(c, cursor.after) ELSE c = 0
        /\ Len(Ahead(cursor.after)) = N - c
        /\ First(Ahead(cursor.after), limit) \in Seq(Item)
        /\ Len(First(Ahead(cursor.after), limit)) \in Nat
        /\ Len(First(Ahead(cursor.after), limit)) <= limit
        /\ Len(First(Ahead(cursor.after), limit)) <= N - c
        /\ Len(First(Ahead(cursor.after), limit)) < N - c
              => Len(First(Ahead(cursor.after), limit)) = limit
        /\ \A k \in 1..Len(First(Ahead(cursor.after), limit)) :
             c + k \in 1..N /\ First(Ahead(cursor.after), limit)[k] = live[c + k]
        /\ Sublist(First(Ahead(cursor.after), limit), live)
  BY <1>3, AheadProperties, Zenon
<1> HIDE DEF N, W, ahead, Ahead
<1>9. /\ children \in Seq(Item) /\ s \in Nat /\ s <= N - c /\ s <= limit
      /\ s < N - c => s = limit
      /\ \A k \in 1..s : c + k \in 1..N /\ children[k] = live[c + k]
      /\ Sublist(children, live)
      /\ Len(ahead) = N - c
      /\ Walking => StandsAt(c, cursor.after)
      /\ ~Walking => c = 0
  BY <1>2, <1>7, <1>8
<1> HIDE DEF children
<1>10. /\ open \in Seq(Item) /\ n \in Nat /\ n <= s
       /\ \A k \in 1..n : open[k] = children[k]
       /\ reached => Among(W, children[n + 1].id)
       /\ Sublist(open, live)
  <2>1. /\ open \in Seq(Item)
        /\ Len(open) <= Len(children)
        /\ \A k \in 1..Len(open) : open[k] = children[k]
        /\ Len(open) < Len(children) => Among(W, children[Len(open) + 1].id)
    BY <1>9, BeforeProperties, Zenon
  <2>2. Sublist(open, children)
    BY <1>9, BeforeIsSublist
  <2>3. Len(open) \in Nat
    BY <2>1
  <2> QED
    BY <1>9, <2>1, <2>2, <2>3, SublistTransitive
<1> HIDE DEF open
<1>11. /\ Sublist(posts, open)
       /\ \A k \in 1..n : \/ Among(cursor.seen, open[k].id)
                          \/ \E i \in 1..Len(posts) : posts[i] = open[k]
  <2>1. open \in Seq(Item)
    BY <1>10
  <2> DEFINE part == Without(open, cursor.seen)
  <2>2. /\ Sublist(part, open)
        /\ \A k \in 1..Len(open) : \/ Among(cursor.seen, open[k].id)
                                   \/ \E i \in 1..Len(part) : part[i] = open[k]
    BY <2>1, WithoutProperties, Zenon, SMTT(30)
  <2> QED
    BY <2>2
<1>12. /\ Sublist(posts, live) /\ posts \in Seq(Item) /\ Apart(posts)
       /\ \A i \in 1..Len(posts) : \E k \in 1..n : posts[i] = open[k]
  <2>1. Sublist(posts, live)
    BY <1>10, <1>11, SublistTransitive
  <2>2. Apart(posts)
    BY <1>1, <2>1, SublistKeepsApart DEF N
  <2> QED
    BY <1>11, <2>1, <2>2 DEF Sublist
<1> HIDE DEF posts
<1>13. /\ ids \in Seq(Nat) /\ Distinct(ids)
       /\ \A x : Among(ids, x) <=> \E i \in 1..Len(posts) : posts[i].id = x
  BY <1>12, IdSeqProperties
<1> HIDE DEF ids
<1>14. /\ Remembered(seen)
       /\ \A x : Among(seen, x) => Among(ids, x) \/ Among(cursor.seen, x)
  <2>1. CASE Reddit!Walking(cursor)
    BY <1>2, <1>3, <1>13, <2>1, RememberProperties
  <2>2. CASE ~Reddit!Walking(cursor)
    BY <1>2, <1>3, <1>13, <2>2, RememberProperties
  <2> QED
    BY <2>1, <2>2
<1> HIDE DEF seen
<1>15. /\ c \in Nat /\ n \in Nat /\ s \in Nat /\ N \in Nat /\ c + n \in Nat /\ c + n <= N
       /\ \A k \in 1..n : c + k \in 1..N /\ open[k] = live[c + k]
  <2>1. c \in Nat /\ n \in Nat /\ s \in Nat /\ N \in Nat /\ n <= s /\ s <= N - c
    BY <1>1, <1>8, <1>9, <1>10
  <2>2. ASSUME NEW k \in 1..n
        PROVE  c + k \in 1..N /\ open[k] = live[c + k]
    <3>1. k \in 1..s
      BY <2>1
    <3> QED
      BY <1>9, <1>10, <3>1
  <2> HIDE DEF n, s
  <2> QED
    BY <2>1, <2>2
<1> HIDE DEF n, s
<1>16. ASSUME reached
       PROVE  c + n + 1 \in 1..N /\ Among(W, live[c + n + 1].id)
  <2>1. n + 1 \in 1..s /\ c + (n + 1) = c + n + 1
    BY <1>15, <1>16
  <2> QED
    BY <1>9, <1>10, <1>16, <2>1
<1>17. ASSUME ~on, ~reached
       PROVE  c + n = N
  <2>1. ~(s < N - c) /\ n = s
    BY <1>9, <1>10, <1>15, <1>17
  <2> QED
    BY <1>9, <1>15, <2>1
<1>18. ASSUME on
       PROVE  /\ n = s /\ c + s \in 1..N /\ c + s = c + n /\ ~reached
              /\ children[s] = live[c + s]
  <2>1. n = s /\ s < N - c /\ ~reached
    BY <1>9, <1>10, <1>15, <1>18
  <2>2. s = limit /\ s \in 1..s
    BY <1>3, <1>9, <1>15, <2>1
  <2> QED
    BY <1>9, <1>15, <2>1, <2>2
<1>19. on \in BOOLEAN
  OBVIOUS
<1>20. /\ next.after = (IF on THEN children[s].id ELSE None)
       /\ next.seen = seen
       /\ next.watermark = IF on THEN W ELSE << >>
  BY DEF next
<1> HIDE DEF next, on, reached
<1>21. Returns(limit, missing, posts, next, on)
  BY <1>6, <1>12
<1>22. /\ cursor' = next /\ conf' = conf /\ live' = live /\ published' = published
       /\ \A k \in 1..Len(live) : Settled(live[k]) => Settled(live[k])'
       /\ \A k \in 1..Len(live) :
            (\E i \in 1..Len(posts) : posts[i] = live[k]) => Settled(live[k])'
       /\ CursorOK' => TypeOK'
       /\ ListingSorted'
  BY <1>21, CallEffect
<1>23. /\ on => next.after \in Nat /\ next.after # None /\ next.after = live[c + s].id
       /\ ~on => next.after = None /\ next.watermark = << >>
       /\ Remembered(next.watermark)
  BY <1>1, <1>5, <1>18, <1>20, NothingRemembered, Constants
<1>24. CursorOK'
  <2>1. Reddit!CursorOK(next)
    BY <1>14, <1>20, <1>23, RedditListing DEF Reddit!CursorOK
  <2>2. conf'.type = "reddit"
    BY <1>22
  <2> QED
    BY <1>22, <2>1, <2>2, Zenon DEF CursorOK
<1>25. Walking' <=> on
  <2>1. conf'.type = "reddit"
    BY <1>22
  <2>2. Walking' <=> cursor'.after # None
    BY <2>1, Zenon DEF Walking, Reddit!Walking
  <2> QED
    BY <1>22, <1>23, <2>2
<1>26. ASSUME on
       PROVE  /\ Anchored(next.after)
              /\ DownTo(next.after) = {k \in 1..N : k <= c + n}
  <2>1. live[c + s].id \in 0..published
    BY <1>1, <1>18, <1>26
  <2>2. Anchored(next.after)
    BY <1>1, <1>18, <1>23, <1>26, <2>1 DEF Anchored
  <2>3. StandsAt(c + s, next.after)
    BY <1>1, <1>18, <1>23, <1>26 DEF StandsAt, N
  <2>4. conf.type \notin {"github", "rss"}
    OBVIOUS
  <2>5. DownTo(next.after) = {k \in 1..Len(live) : k <= c + s}
    BY <2>2, <2>3, <2>4, AnchorFacts
  <2> QED
    BY <1>18, <1>26, <2>2, <2>5 DEF N
<1>27. /\ PostsPassed' = IF on THEN {k \in 1..N : k <= c + n} ELSE 1..N
       /\ on => Anchored(cursor.after)'
  BY <1>1, <1>22, <1>25, <1>26 DEF PostsPassed, DownTo, Anchored
<1>28. ASSUME PostsRead
       PROVE  PostsRead'
  <2>1. /\ Walking => Anchored(cursor.after)
        /\ \A m \in ToSet(cursor.seen) :
             m <= published /\ SettledUpTo(m, PostsPassed) /\ SettledAt(m)
        /\ \A m \in ToSet(cursor.watermark) :
             m <= published /\ SettledUpTo(m, DOMAIN live)
    BY <1>28, Zenon DEF PostsRead, PostsPassed
  <2>2. /\ IdsRead(cursor.seen, PostsPassed)
        /\ \A m : Among(W, m) => m <= published /\ SettledUpTo(m, DOMAIN live)
    <3>1. ~Walking => PostsPassed = DOMAIN live
      BY DEF PostsPassed
    <3> QED
      BY <1>4, <2>1, <3>1, InToSet DEF IdsRead
  <2>3. \A k \in 1..N : k <= c => k \in PostsPassed
    <3>1. CASE Walking
      <4>1. DownTo(cursor.after) = {k \in 1..N : k <= c}
        BY <1>9, <2>1, <3>1, AnchorFacts DEF N
      <4> QED
        BY <3>1, <4>1 DEF PostsPassed
    <3>2. CASE ~Walking
      BY <1>1, <3>2 DEF PostsPassed
    <3> QED
      BY <3>1, <3>2
  <2>4. ASSUME NEW k \in 1..N, k > c, k <= c + n
        PROVE  Settled(live[k])'
    <3>1. k - c \in 1..n /\ c + (k - c) = k
      BY <1>15, <2>4
    <3>2. open[k - c] = live[k]
      BY <1>15, <3>1
    <3>3. CASE Among(cursor.seen, live[k].id)
      <4>1. Settled(live[k])
        BY <1>1, <2>2, <3>3 DEF IdsRead, SettledAt
      <4> QED
        BY <1>22, <4>1 DEF N
    <3>4. CASE \E i \in 1..Len(posts) : posts[i] = live[k]
      BY <1>22, <3>4 DEF N
    <3> QED
      BY <1>11, <3>1, <3>2, <3>3, <3>4
  <2>5. ASSUME NEW k \in 1..N, k > c + n, ~on
        PROVE  Settled(live[k])'
    <3>1. reached
      BY <1>15, <1>17, <2>5
    <3>2. c + n + 1 \in 1..N /\ Among(W, live[c + n + 1].id) /\ c + n + 1 <= k
      BY <1>15, <1>16, <2>5, <3>1
    <3>3. live[k].id <= live[c + n + 1].id
      BY <3>2, BelowIsOlder DEF N
    <3>4. Settled(live[k])
      BY <1>1, <2>2, <3>2, <3>3 DEF SettledUpTo
    <3> QED
      BY <1>22, <3>4 DEF N
  <2>6. /\ PostsPassed' \subseteq 1..N
        /\ \A k \in PostsPassed' : k > c => Settled(live[k])'
    <3> SUFFICES ASSUME NEW k \in PostsPassed'
                 PROVE  k \in 1..N /\ (k > c => Settled(live[k])')
      OBVIOUS
    <3>1. k \in 1..N /\ (on => k <= c + n)
      BY <1>27
    <3>2. CASE k <= c + n
      BY <2>4, <3>1, <3>2
    <3>3. CASE ~(k <= c + n)
      BY <1>15, <2>5, <3>1, <3>3
    <3> QED
      BY <3>1, <3>2, <3>3
  <2>7. \A m : Among(cursor'.seen, m) =>
           \/ Among(cursor.seen, m)
           \/ \E p \in 1..Len(live) : p > c /\ live[p].id = m /\ Settled(live[p])'
    <3> SUFFICES ASSUME NEW m, Among(ids, m)
                 PROVE  \E p \in 1..Len(live) :
                          p > c /\ live[p].id = m /\ Settled(live[p])'
      BY <1>14, <1>20, <1>22
    <3>1. PICK i \in 1..Len(posts) : posts[i].id = m
      BY <1>13
    <3>2. PICK k \in 1..n : posts[i] = open[k]
      BY <1>12
    <3>3. PICK p \in 1..N : p = c + k /\ open[k] = live[p]
      BY <1>15
    <3>4. p > c /\ p <= c + n
      BY <1>15, <3>3
    <3>5. Settled(live[p])' /\ live[p].id = m
      BY <2>4, <3>1, <3>2, <3>3, <3>4
    <3> QED
      BY <3>4, <3>5 DEF N
  <2>8. \A m : Among(cursor'.seen, m) =>
           m <= published' /\ SettledNext(PostsPassed', m) /\ SettledAt(m)'
    <3>1. PostsPassed' \subseteq 1..Len(live)
      BY <2>6 DEF N
    <3>2. \A k \in PostsPassed' : k <= c => k \in PostsPassed
      BY <2>3, <2>6
    <3>3. /\ conf.type \notin {"github", "rss"} /\ live' = live
          /\ published' = published /\ c \in Nat
          /\ \A k \in 1..Len(live) : Settled(live[k]) => Settled(live[k])'
      BY <1>15, <1>22
    <3> QED
      BY <2>2, <2>6, <2>7, <3>1, <3>2, <3>3, IdsStayRead, ZenonT(60)
  <2>9. \A m : Among(cursor'.watermark, m) =>
           m <= published' /\ SettledNext(DOMAIN live, m)
    <3> SUFFICES ASSUME NEW m, Among(W, m)
                 PROVE  m <= published' /\ SettledNext(DOMAIN live, m)
      BY <1>20, <1>22, NothingRemembered
    <3> QED
      BY <1>1, <1>22, <2>2 DEF SettledUpTo, SettledNext, N
  <2>10. ASSUME NEW m \in ToSet(cursor'.seen)
         PROVE  m <= published' /\ SettledUpTo(m, PostsPassed)' /\ SettledAt(m)'
    BY <1>22, <2>8, InToSet DEF SettledNext, SettledUpTo
  <2>11. ASSUME NEW m \in ToSet(cursor'.watermark)
         PROVE  m <= published' /\ SettledUpTo(m, DOMAIN live)'
    BY <1>22, <2>9, InToSet DEF SettledNext, SettledUpTo
  <2> QED
    BY <1>25, <1>27, <2>10, <2>11, Zenon DEF PostsRead, PostsPassed
<1> QED
  BY <1>22, <1>24, <1>28

-----------------------------------------------------------------------------
(* The endpoint of GenericRESTCollector.                                   *)
LEMMA RESTCase ==
  ASSUME conf.type = "rest"
  PROVE  /\ Walking <=> cursor.cycle # << >> \/ cursor.page # 1 \/ cursor.after # None
         /\ NotModified <=>
              \E limit \in Limits :
                REST!NotModified(conf, cursor, live, REST!Size(conf, limit))
         /\ CursorOK <=> REST!CursorOK(cursor)
         /\ Fresh(conf.type) = REST!Fresh
         /\ \A limit, missing : Page(limit, missing) = REST!Collect(conf, cursor, live, limit)
         /\ Known = cursor.seen
<1>1. Walking <=> cursor.cycle # << >> \/ cursor.page # 1 \/ cursor.after # None
  BY Zenon DEF Walking, REST!Walking
<1>2. NotModified <=>
        \E limit \in Limits :
          REST!NotModified(conf, cursor, live, REST!Size(conf, limit))
  BY Zenon DEF NotModified
<1>3. CursorOK <=> REST!CursorOK(cursor)
  BY Zenon DEF CursorOK
<1>4. Fresh(conf.type) = REST!Fresh
  BY Zenon DEF Fresh
<1>5. \A limit, missing : Page(limit, missing) = REST!Collect(conf, cursor, live, limit)
  BY Zenon DEF Page
<1>6. Known = cursor.seen
  BY Zenon DEF Known
<1> QED
  BY <1>1, <1>2, <1>3, <1>4, <1>5, <1>6

EndpointPassed == IF conf.pagination = "page" THEN Above((cursor.page - 1) * PageSize)
                  ELSE IF cursor.after # None THEN DownTo(cursor.after)
                  ELSE {}

ValidatorsRead ==
  /\ HeadSettled(cursor.etag, DOMAIN live)
  /\ HeadSettled(cursor.modified, DOMAIN live)
  /\ HeadSettled(cursor.pendingEtag, EndpointPassed)
  /\ HeadSettled(cursor.pendingModified, EndpointPassed)

LEMMA RESTInit ==
  ASSUME Init, conf.type = "rest"
  PROVE  CursorOK /\ EndpointRead
<1>1. cursor = REST!Fresh
  BY RESTCase DEF Init
<1>2. /\ cursor.seen = << >> /\ cursor.cycle = << >> /\ cursor.page = 1
      /\ cursor.after = None /\ cursor.etag = None /\ cursor.modified = None
      /\ cursor.pendingEtag = None /\ cursor.pendingModified = None
  BY <1>1 DEF REST!Fresh
<1>3. REST!CursorOK(cursor)
  <2>1. REST!Fresh \in [initialized : BOOLEAN, seen : Seq(Nat), cycle : Seq(Nat),
                        page : Nat \ {0}, after : Nat \cup {None},
                        etag : REST!Validators, modified : REST!Validators,
                        pendingEtag : REST!Validators,
                        pendingModified : REST!Validators]
    BY DEF REST!Fresh, REST!Validators
  <2> QED
    BY <1>1, <1>2, <2>1, NothingRemembered, RESTListing DEF REST!CursorOK
<1>4. EndpointRead
  BY <1>2, InToSet, NothingRemembered DEF EndpointRead, HeadSettled
<1> QED
  BY <1>3, <1>4, RESTCase

(* What a validator stands for, or no validator.                           *)
Document == Seq(Item) \cup {None}

LEMMA RESTCursor ==
  ASSUME TypeOK, conf.type = "rest"
  PROVE  /\ cursor.initialized \in BOOLEAN
         /\ cursor.after \in Nat \cup {None}
         /\ cursor.page \in Nat \ {0}
         /\ Remembered(cursor.seen) /\ cursor.seen \in Seq(Nat) /\ Distinct(cursor.seen)
         /\ cursor.cycle \in Seq(Nat) /\ Distinct(cursor.cycle)
         /\ cursor.etag \in Document /\ cursor.modified \in Document
         /\ cursor.pendingEtag \in Document /\ cursor.pendingModified \in Document
         /\ conf.pagination \in {"none", "page", "cursor"} /\ conf.backfill \in BOOLEAN
<1>1. REST!CursorOK(cursor)
  BY RESTCase DEF TypeOK
<1>2. conf.pagination \in {"none", "page", "cursor"} /\ conf.backfill \in BOOLEAN
  BY CollectorsAssumption DEF TypeOK
<1>3. cursor.initialized \in BOOLEAN
  BY <1>1, Zenon DEF REST!CursorOK
<1>4. REST!Validators = Document
  BY RESTListing DEF REST!Validators, Document
<1> QED
  BY <1>1, <1>2, <1>3, <1>4, RESTListing DEF REST!CursorOK, Remembered

(* The size of the pages a call asks for; it is the endpoint's own where   *)
(* pages are counted.                                                      *)
LEMMA RESTSize ==
  ASSUME NEW limit \in Limits
  PROVE  /\ REST!Size(conf, limit) \in Nat \ {0}
         /\ REST!Steady(conf) /\ conf.pagination # "cursor" =>
              REST!Size(conf, limit) = PageSize /\ ~conf.sized
BY Constants DEF REST!Size, REST!Steady

LEMMA RESTSource ==
  ASSUME TypeOK, ListingSorted, EndpointRead, SourceChange, conf.type = "rest",
         conf.type \notin MidWalk
  PROVE  EndpointRead'
<1>1. /\ conf' = conf /\ cursor' = cursor /\ published \in Nat
      /\ published' \in {published, published + 1}
  BY SourceLeavesAlone
<1>2. TypeOK'
  BY SourceKeepsOrder
<1>3. DOMAIN live = 1..Len(live) /\ DOMAIN live' = 1..Len(live') /\ Len(live') \in Nat
      /\ Len(live) \in Nat
  BY <1>2, ListingFacts, ShownItems DEF TypeOK, Shown
<1> DEFINE bound == (cursor.page - 1) * PageSize
<1>4. bound \in Int
  BY RESTCursor, Constants
<1>5. EndpointPassed' = IF conf.pagination = "page" THEN {k \in 1..Len(live') : k <= bound}
                        ELSE IF cursor.after # None
                        THEN {k \in 1..Len(live') : live'[k].id >= cursor.after}
                        ELSE {}
  BY <1>1, <1>3 DEF EndpointPassed, Above, DownTo
<1>6. EndpointPassed = IF conf.pagination = "page" THEN {k \in 1..Len(live) : k <= bound}
                       ELSE IF cursor.after # None
                       THEN {k \in 1..Len(live) : live[k].id >= cursor.after}
                       ELSE {}
  BY <1>3 DEF EndpointPassed, Above, DownTo
<1> HIDE DEF bound
<1>7. EndpointPassed' \subseteq 1..Len(live')
  BY <1>5
<1>8. ASSUME NEW k \in EndpointPassed', NEW j \in 1..Len(live), j <= k,
             live[j].id = live'[k].id
      PROVE  j \in EndpointPassed
  <2>1. CASE conf.pagination = "page"
    <3>1. k <= bound /\ k \in 1..Len(live')
      BY <1>5, <2>1
    <3>2. j <= bound
      BY <1>3, <1>4, <1>8, <3>1
    <3> QED
      BY <1>6, <2>1, <3>2
  <2>2. CASE conf.pagination # "page"
    BY <1>5, <1>6, <1>8, <2>2
  <2> QED
    BY <2>1, <2>2
<1>9. ASSUME NEW m \in Nat, m <= published, SettledUpTo(m, EndpointPassed)
      PROVE  SettledUpTo(m, EndpointPassed)'
  <2>1. CASE Walking
    <3>1. \A k \in EndpointPassed' : \A j \in 1..Len(live) :
            live[j].id = live'[k].id /\ (Unordered \/ j <= k) => j \in EndpointPassed
      BY <1>8, <2>1 DEF Unordered
    <3>2. \A k \in EndpointPassed' : live'[k].id <= m => Settled(live[k])'
      BY <1>7, <1>9, <3>1, SourceKeepsPassed
    <3> QED
      BY <3>2 DEF SettledUpTo
  <2>2. CASE ~Walking
    <3>1. cursor.page = 1 /\ cursor.after = None
      BY <2>2, RESTCase
    <3>2. bound = 0
      BY <3>1, Constants DEF bound
    <3>3. EndpointPassed' = {}
      BY <1>3, <1>5, <3>1, <3>2
    <3> QED
      BY <3>3 DEF SettledUpTo
  <2> QED
    BY <2>1, <2>2
<1>10. ASSUME NEW m \in Nat, m <= published, SettledUpTo(m, DOMAIN live)
       PROVE  SettledUpTo(m, DOMAIN live)'
  <2>1. \A k \in 1..Len(live') : live'[k].id <= m => Settled(live[k])'
    BY <1>3, <1>10, SourceKeepsPassed
  <2> QED
    BY <1>3, <2>1 DEF SettledUpTo
<1>11. /\ conf.pagination # "page" => cursor.page = 1
       /\ conf.pagination # "cursor" => cursor.after = None
       /\ cursor.after # None => Anchored(cursor.after)
       /\ \A m \in ToSet(cursor.seen) : m <= published /\ SettledUpTo(m, DOMAIN live)
       /\ \A m \in ToSet(cursor.cycle) :
            m <= published /\ SettledUpTo(m, EndpointPassed) /\ SettledAt(m)
       /\ REST!Distinctive(conf) => ValidatorsRead
  BY Zenon DEF EndpointRead, EndpointPassed, ValidatorsRead
<1>12. /\ \A m \in ToSet(cursor.seen) : m \in Nat
       /\ \A m \in ToSet(cursor.cycle) : m \in Nat
  BY RESTCursor DEF ToSet
<1>13. ASSUME cursor.after # None
       PROVE  Anchored(cursor.after)'
  <2>1. ~Unordered
    BY <1>13, RESTCase DEF Unordered
  <2>2. Anchored(cursor.after)
    BY <1>11, <1>13
  <2> QED
    BY <1>1, <2>1, <2>2, SourceKeepsAnchor DEF Anchored
<1>14. ASSUME NEW m \in ToSet(cursor'.seen)
       PROVE  m <= published' /\ SettledUpTo(m, DOMAIN live)'
  BY <1>1, <1>10, <1>11, <1>12
<1>15. ASSUME NEW m \in ToSet(cursor'.cycle)
       PROVE  m <= published' /\ SettledUpTo(m, EndpointPassed)' /\ SettledAt(m)'
  BY <1>1, <1>9, <1>11, <1>12, SourceKeepsSettled
<1>16. ASSUME ValidatorsRead
       PROVE  ValidatorsRead'
  <2>1. ASSUME NEW document \in Document, HeadSettled(document, DOMAIN live),
               document # None, document # << >>
        PROVE  document[1].id <= published' /\ SettledUpTo(document[1].id, DOMAIN live)'
    <3>1. document[1].id \in Nat
      BY <2>1, HeadOf DEF Document
    <3> QED
      BY <1>1, <1>10, <2>1, <3>1 DEF HeadSettled
  <2>2. ASSUME NEW document \in Document, HeadSettled(document, EndpointPassed),
               document # None, document # << >>
        PROVE  /\ document[1].id <= published'
               /\ SettledUpTo(document[1].id, EndpointPassed)'
    <3>1. document[1].id \in Nat
      BY <2>2, HeadOf DEF Document
    <3> QED
      BY <1>1, <1>9, <2>2, <3>1 DEF HeadSettled
  <2>3. HeadSettled(cursor.etag, DOMAIN live)' /\ HeadSettled(cursor.modified, DOMAIN live)'
    BY <1>1, <1>16, <2>1, RESTCursor DEF ValidatorsRead, HeadSettled, SettledUpTo
  <2>4. /\ HeadSettled(cursor.pendingEtag, EndpointPassed)'
        /\ HeadSettled(cursor.pendingModified, EndpointPassed)'
    BY <1>1, <1>16, <2>2, RESTCursor DEF ValidatorsRead, HeadSettled, SettledUpTo
  <2> QED
    BY <2>3, <2>4 DEF ValidatorsRead
<1>17. /\ conf'.pagination # "page" => cursor'.page = 1
       /\ conf'.pagination # "cursor" => cursor'.after = None
       /\ cursor'.after # None => Anchored(cursor.after)'
  BY <1>1, <1>11, <1>13
<1>18. REST!Distinctive(conf)' => ValidatorsRead'
  BY <1>1, <1>11, <1>16 DEF REST!Distinctive
<1> QED
  BY <1>14, <1>15, <1>17, <1>18, Zenon DEF EndpointRead, EndpointPassed, ValidatorsRead

(* The page that is asked for next, and where it begins.                   *)
LEMMA RESTBody ==
  ASSUME TypeOK, conf.type = "rest", NEW size \in Nat \ {0}
  PROVE  \E c \in Nat :
           LET body == REST!Body(conf, cursor, live, size)
               exhausted == REST!Exhausted(conf, cursor, live, size)
           IN /\ body \in Seq(Item) /\ Len(body) \in Nat
              /\ \A k \in 1..Len(body) : c + k \in 1..Len(live) /\ body[k] = live[c + k]
              /\ Sublist(body, live)
              /\ conf.pagination = "none" => c = 0
              /\ conf.pagination = "page" =>
                   /\ c = (cursor.page - 1) * size
                   /\ c + Len(body) < Len(live) => Len(body) = size
              /\ conf.pagination = "cursor" =>
                   IF cursor.after # None THEN StandsAt(c, cursor.after) ELSE c = 0
              /\ exhausted /\ REST!Steady(conf) => c + Len(body) >= Len(live)
              /\ ~exhausted => conf.pagination # "none" /\ Len(body) >= 1
<1> DEFINE N == Len(live)
           body == REST!Body(conf, cursor, live, size)
           exhausted == REST!Exhausted(conf, cursor, live, size)
<1>1. live \in Seq(Item) /\ N \in Nat
  BY ListingFacts
<1>2. /\ cursor.page \in Nat \ {0} /\ size \in Nat
      /\ conf.pagination \in {"none", "page", "cursor"}
  BY RESTCursor, Constants
<1> HIDE DEF N
<1>3. CASE conf.pagination = "none"
  <2>1. /\ body = IF conf.sized THEN First(live, size) ELSE live
        /\ exhausted
    <3>1. REST!Ahead(conf, cursor, live, size) = live /\ exhausted
      BY <1>3, Zenon DEF REST!Ahead, REST!Exhausted
    <3> QED
      BY <1>3, <3>1, RESTListing, Zenon DEF REST!Body
  <2>2. Sublist(live, live) /\ Sublist(First(live, size), live)
    BY <1>1, <1>2, PartsAreSublists
  <2>3. /\ First(live, size) \in Seq(Item) /\ Len(First(live, size)) \in Nat
        /\ Len(First(live, size)) <= N
        /\ \A k \in 1..Len(First(live, size)) : First(live, size)[k] = live[k]
    BY <1>1, <1>2, FirstProperties DEF N
  <2> HIDE DEF body, exhausted
  <2>4. /\ body \in Seq(Item) /\ Len(body) \in Nat
        /\ \A k \in 1..Len(body) : 0 + k \in 1..N /\ body[k] = live[0 + k]
        /\ Sublist(body, live)
        /\ REST!Steady(conf) => 0 + Len(body) >= N
    <3>1. CASE conf.sized
      <4>1. ~REST!Steady(conf) /\ body = First(live, size)
        BY <1>3, <2>1, <3>1 DEF REST!Steady
      <4> QED
        BY <1>1, <2>2, <2>3, <4>1
    <3>2. CASE ~conf.sized
      BY <1>1, <2>1, <2>2, <3>2 DEF N
    <3> QED
      BY <3>1, <3>2
  <2> WITNESS 0 \in Nat
  <2> QED
    BY <1>3, <2>1, <2>4 DEF N, body, exhausted
<1>4. CASE conf.pagination = "page"
  <2> DEFINE c == (cursor.page - 1) * size
             part == First(Beyond(live, c), size)
  <2>1. body = part /\ (exhausted <=> body = << >>)
    <3>1. REST!Ahead(conf, cursor, live, size) = Beyond(live, c)
      BY <1>4, RESTListing, Zenon DEF REST!Ahead
    <3>2. body = First(REST!Ahead(conf, cursor, live, size), size)
      BY <1>4, RESTListing, Zenon DEF REST!Body
    <3>3. exhausted <=> body = << >>
      BY <1>4, Zenon DEF REST!Exhausted
    <3> QED
      BY <3>1, <3>2, <3>3
  <2>2. c \in Nat
    BY <1>2
  <2> HIDE DEF body, exhausted, c
  <2>3. /\ part \in Seq(Item) /\ Len(part) \in Nat /\ Len(part) <= size
        /\ c <= N => c + Len(part) <= N
        /\ c > N => Len(part) = 0
        /\ c + Len(part) < N => Len(part) = size
        /\ \A k \in 1..Len(part) : c + k \in 1..N /\ part[k] = live[c + k]
        /\ Sublist(part, live)
    BY <1>1, <1>2, <2>2, SliceProperties, Zenon DEF N
  <2> HIDE DEF part
  <2>4. Len(part) = 0 <=> part = << >>
    BY <2>3
  <2>5. /\ exhausted => c + Len(part) >= N
        /\ ~exhausted => Len(part) >= 1
    BY <1>1, <1>2, <2>1, <2>2, <2>3, <2>4
  <2>6. c = (cursor.page - 1) * size
    BY DEF c
  <2> WITNESS c \in Nat
  <2> QED
    BY <1>4, <2>1, <2>3, <2>5, <2>6 DEF N, body, exhausted
<1>5. CASE conf.pagination = "cursor"
  <2> DEFINE part == First(Ahead(cursor.after), size)
  <2>1. body = part /\ (exhausted <=> Len(Ahead(cursor.after)) <= size)
    <3>1. REST!Ahead(conf, cursor, live, size)
            = IF cursor.after = None THEN live ELSE Following(live, cursor.after)
      BY <1>5, RESTListing, Zenon DEF REST!Ahead
    <3>2. REST!Ahead(conf, cursor, live, size) = Ahead(cursor.after)
      BY <3>1 DEF Ahead
    <3>3. body = First(REST!Ahead(conf, cursor, live, size), size)
      BY <1>5, RESTListing, Zenon DEF REST!Body
    <3>4. exhausted <=> Len(REST!Ahead(conf, cursor, live, size)) <= size
      BY <1>5, Zenon DEF REST!Exhausted
    <3> QED
      BY <3>2, <3>3, <3>4
  <2> HIDE DEF body, exhausted
  <2>2. PICK c \in 0..N :
          /\ IF cursor.after # None THEN StandsAt(c, cursor.after) ELSE c = 0
          /\ Len(Ahead(cursor.after)) = N - c
          /\ part \in Seq(Item) /\ Len(part) \in Nat
          /\ Len(part) <= size /\ Len(part) <= N - c
          /\ Len(part) < N - c => Len(part) = size
          /\ \A k \in 1..Len(part) : c + k \in 1..N /\ part[k] = live[c + k]
          /\ Sublist(part, live)
    BY <1>2, AheadProperties, Zenon DEF N
  <2> HIDE DEF part, Ahead
  <2>3. /\ exhausted => c + Len(part) >= N
        /\ ~exhausted => Len(part) >= 1
    BY <1>1, <1>2, <2>1, <2>2
  <2> c \in Nat
    BY <1>1, <2>2
  <2> WITNESS c \in Nat
  <2> QED
    BY <1>5, <2>1, <2>2, <2>3 DEF N, body, exhausted
<1> QED
  BY <1>2, <1>3, <1>4, <1>5

LEMMA RESTUnmodified ==
  ASSUME TypeOK, ListingSorted, conf.type = "rest", NEW limit \in Limits,
         NEW missing \in Incomplete, Collect(limit, missing),
         REST!NotModified(conf, cursor, live, REST!Size(conf, limit))
  PROVE  /\ TypeOK' /\ ListingSorted'
         /\ EndpointRead => EndpointRead'
<1>1. Returns(limit, missing, << >>, cursor, FALSE)
  <2>1. Page(limit, missing) = REST!Collect(conf, cursor, live, limit)
    BY RESTCase
  <2>2. REST!Collect(conf, cursor, live, limit) = Result(<< >>, {}, cursor, FALSE)
    BY RESTListing, Zenon DEF REST!Collect
  <2> QED
    BY <2>1, <2>2, NoEvents DEF Returns
<1>2. /\ cursor' = cursor /\ conf' = conf /\ live' = live /\ published' = published
      /\ \A k \in 1..Len(live) : Settled(live[k]) => Settled(live[k])'
      /\ CursorOK' => TypeOK'
      /\ ListingSorted'
  BY <1>1, CallEffect
<1>3. CursorOK'
  BY <1>2, Zenon DEF TypeOK, CursorOK
<1>4. /\ DOMAIN live = 1..Len(live)
      /\ EndpointPassed \subseteq 1..Len(live)
      /\ EndpointPassed' = EndpointPassed
  BY <1>2, ListingFacts DEF EndpointPassed, Above, DownTo
<1>5. ASSUME EndpointRead
      PROVE  EndpointRead'
  <2>1. /\ conf.pagination # "page" => cursor.page = 1
        /\ conf.pagination # "cursor" => cursor.after = None
        /\ cursor.after # None => Anchored(cursor.after)
        /\ \A m \in ToSet(cursor.seen) : m <= published /\ SettledUpTo(m, DOMAIN live)
        /\ \A m \in ToSet(cursor.cycle) :
             m <= published /\ SettledUpTo(m, EndpointPassed) /\ SettledAt(m)
        /\ REST!Distinctive(conf) => ValidatorsRead
    BY <1>5, Zenon DEF EndpointRead, EndpointPassed, ValidatorsRead
  <2>2. /\ \A m : SettledUpTo(m, DOMAIN live) => SettledUpTo(m, DOMAIN live)'
        /\ \A m : SettledUpTo(m, EndpointPassed) => SettledUpTo(m, EndpointPassed)'
        /\ \A m : SettledAt(m) => SettledAt(m)'
    BY <1>2, <1>4 DEF SettledUpTo, SettledAt
  <2>3. cursor'.after # None => Anchored(cursor.after)'
    BY <1>2, <2>1 DEF Anchored
  <2>4. REST!Distinctive(conf)' => ValidatorsRead'
    <3>1. REST!Distinctive(conf)' <=> REST!Distinctive(conf)
      BY <1>2 DEF REST!Distinctive
    <3> QED
      BY <1>2, <1>4, <2>1, <3>1 DEF ValidatorsRead, HeadSettled, SettledUpTo
  <2>5. /\ \A m \in ToSet(cursor'.seen) : m <= published' /\ SettledUpTo(m, DOMAIN live)'
        /\ \A m \in ToSet(cursor'.cycle) :
             m <= published' /\ SettledUpTo(m, EndpointPassed)' /\ SettledAt(m)'
        /\ conf'.pagination # "page" => cursor'.page = 1
        /\ conf'.pagination # "cursor" => cursor'.after = None
    BY <1>2, <2>1, <2>2
  <2> QED
    BY <2>3, <2>4, <2>5, Zenon DEF EndpointRead, EndpointPassed, ValidatorsRead
<1> QED
  BY <1>2, <1>3, <1>5

(* The end of a walk, field by field.                                      *)
Ended(no, yes, seen, tag, time) ==
  [[initialized |-> no, seen |-> << >>, cycle |-> << >>, page |-> 1,
    after |-> None, etag |-> None, modified |-> None,
    pendingEtag |-> None, pendingModified |-> None]
     EXCEPT !.initialized = yes, !.seen = seen, !.etag = tag, !.modified = time]

LEMMA CycleEnds ==
  ASSUME NEW no, NEW yes, NEW seen, NEW tag, NEW time
  PROVE  LET ended == Ended(no, yes, seen, tag, time)
         IN /\ ended.initialized = yes /\ ended.seen = seen
            /\ ended.cycle = << >> /\ ended.page = 1 /\ ended.after = None
            /\ ended.etag = tag /\ ended.modified = time
            /\ ended.pendingEtag = None /\ ended.pendingModified = None
            /\ ended = [initialized |-> ended.initialized, seen |-> ended.seen,
                        cycle |-> ended.cycle, page |-> ended.page,
                        after |-> ended.after, etag |-> ended.etag,
                        modified |-> ended.modified,
                        pendingEtag |-> ended.pendingEtag,
                        pendingModified |-> ended.pendingModified]
<1> DEFINE zero == [initialized |-> no, seen |-> << >>, cycle |-> << >>, page |-> 1,
                    after |-> None, etag |-> None, modified |-> None,
                    pendingEtag |-> None, pendingModified |-> None]
           one == [zero EXCEPT !.initialized = yes]
           two == [one EXCEPT !.seen = seen]
           three == [two EXCEPT !.etag = tag]
           four == [three EXCEPT !.modified = time]
<1>1. one = [initialized |-> yes, seen |-> << >>, cycle |-> << >>, page |-> 1,
             after |-> None, etag |-> None, modified |-> None,
             pendingEtag |-> None, pendingModified |-> None]
  OBVIOUS
<1> HIDE DEF one
<1>2. two = [initialized |-> yes, seen |-> seen, cycle |-> << >>, page |-> 1,
             after |-> None, etag |-> None, modified |-> None,
             pendingEtag |-> None, pendingModified |-> None]
  BY <1>1
<1> HIDE DEF two
<1>3. three = [initialized |-> yes, seen |-> seen, cycle |-> << >>, page |-> 1,
               after |-> None, etag |-> tag, modified |-> None,
               pendingEtag |-> None, pendingModified |-> None]
  BY <1>2
<1> HIDE DEF three
<1>4. four = [initialized |-> yes, seen |-> seen, cycle |-> << >>, page |-> 1,
              after |-> None, etag |-> tag, modified |-> time,
              pendingEtag |-> None, pendingModified |-> None]
  BY <1>3
<1> HIDE DEF four
<1>5. Ended(no, yes, seen, tag, time) = four
  BY Zenon DEF Ended, one, two, three, four
<1> QED
  BY <1>4, <1>5

(* A step of a walk, field by field.                                       *)
Noted(walk, cycle, tag, time) ==
  [walk EXCEPT !.cycle = cycle, !.pendingEtag = tag, !.pendingModified = time]
Moved(walk, page, after) == [walk EXCEPT !.page = page, !.after = after]

LEMMA CursorUpdates ==
  ASSUME NEW walk, REST!CursorOK(walk),
         NEW cycle, NEW tag, NEW time, NEW page, NEW after
  PROVE  /\ Noted(walk, cycle, tag, time).page = walk.page
         /\ Noted(walk, cycle, tag, time).after = walk.after
         /\ Moved(Noted(walk, cycle, tag, time), page, after)
              = [initialized |-> walk.initialized, seen |-> walk.seen,
                 cycle |-> cycle, page |-> page, after |-> after,
                 etag |-> walk.etag, modified |-> walk.modified,
                 pendingEtag |-> tag, pendingModified |-> time]
<1> DEFINE one == [walk EXCEPT !.cycle = cycle]
           two == [one EXCEPT !.pendingEtag = tag]
           kept == [two EXCEPT !.pendingModified = time]
           four == [kept EXCEPT !.page = page]
           five == [four EXCEPT !.after = after]
           Fields(r) == r = [initialized |-> r.initialized, seen |-> r.seen,
                             cycle |-> r.cycle, page |-> r.page, after |-> r.after,
                             etag |-> r.etag, modified |-> r.modified,
                             pendingEtag |-> r.pendingEtag,
                             pendingModified |-> r.pendingModified]
<1>1. Fields(walk)
  BY RESTListing DEF REST!CursorOK
<1>2. one = [initialized |-> walk.initialized, seen |-> walk.seen,
             cycle |-> cycle, page |-> walk.page, after |-> walk.after,
             etag |-> walk.etag, modified |-> walk.modified,
             pendingEtag |-> walk.pendingEtag,
             pendingModified |-> walk.pendingModified]
  BY <1>1
<1> HIDE DEF one
<1>3. two = [initialized |-> walk.initialized, seen |-> walk.seen,
             cycle |-> cycle, page |-> walk.page, after |-> walk.after,
             etag |-> walk.etag, modified |-> walk.modified,
             pendingEtag |-> tag, pendingModified |-> walk.pendingModified]
  BY <1>2
<1> HIDE DEF two
<1>4. kept = [initialized |-> walk.initialized, seen |-> walk.seen,
              cycle |-> cycle, page |-> walk.page, after |-> walk.after,
              etag |-> walk.etag, modified |-> walk.modified,
              pendingEtag |-> tag, pendingModified |-> time]
  BY <1>3
<1> HIDE DEF kept
<1>5. four = [initialized |-> walk.initialized, seen |-> walk.seen,
              cycle |-> cycle, page |-> page, after |-> walk.after,
              etag |-> walk.etag, modified |-> walk.modified,
              pendingEtag |-> tag, pendingModified |-> time]
  BY <1>4
<1> HIDE DEF four
<1>6. five = [initialized |-> walk.initialized, seen |-> walk.seen,
              cycle |-> cycle, page |-> page, after |-> after,
              etag |-> walk.etag, modified |-> walk.modified,
              pendingEtag |-> tag, pendingModified |-> time]
  BY <1>5
<1>7. kept.page = walk.page /\ kept.after = walk.after
  BY <1>4
<1> HIDE DEF five
<1> QED
  BY <1>6, <1>7, Zenon DEF one, two, kept, four, five, Noted, Moved

LEMMA RESTPage ==
  ASSUME TypeOK, ListingSorted, conf.type = "rest", NEW limit \in Limits,
         NEW missing \in Incomplete, Collect(limit, missing),
         ~REST!NotModified(conf, cursor, live, REST!Size(conf, limit))
  PROVE  /\ TypeOK' /\ ListingSorted'
         /\ EndpointRead /\ REST!Steady(conf) => EndpointRead'
<1> DEFINE N == Len(live)
           size == REST!Size(conf, limit)
           body == REST!Body(conf, cursor, live, size)
           exhausted == REST!Exhausted(conf, cursor, live, size)
           known == IF cursor.initialized THEN cursor.seen ELSE << >>
           pending == Without(body, cursor.cycle)
           open == Before(pending, known)
           n == Len(open)
           new == First(open, limit)
           reached == n < Len(pending) /\ n <= limit
           scanned == n <= limit
           ids == IdSeq(new)
           cycle == cursor.cycle \o ids
           complete == \/ ~cursor.initialized /\ ~conf.backfill
                       \/ reached
                       \/ scanned /\ exhausted
           made == IF conf.dated THEN "source" ELSE "epoch"
           head == REST!Etag(conf, cursor, live, size)
           stamp == REST!Modified(conf, live)
           etag == REST!OrPending(head, cursor.pendingEtag)
           modified == REST!OrPending(stamp, cursor.pendingModified)
           ended == [REST!Fresh EXCEPT !.initialized = TRUE,
                                       !.seen = Remember(cycle, cursor.seen),
                                       !.etag = etag, !.modified = modified]
           kept == [cursor EXCEPT !.cycle = cycle, !.pendingEtag = etag,
                                  !.pendingModified = modified]
           going == REST!WalkOn(conf, kept, body, scanned)
           next == IF complete THEN ended ELSE going
           on == ~complete
<1>1. /\ live \in Seq(Item) /\ N \in Nat /\ DOMAIN live = 1..N /\ Apart(live)
      /\ \A k \in 1..N : live[k].id \in Nat /\ live[k].id <= published
      /\ published \in Nat /\ NewestFirst(live)
  <2>1. NewestFirst(live) /\ \A k \in 1..N : live[k].id <= published
    BY ListingOrder DEF Listed
  <2> QED
    BY <2>1, ListingFacts, SMTT(30) DEF TypeOK
<1>2. /\ cursor.after \in Nat \cup {None} /\ cursor.page \in Nat \ {0}
      /\ Remembered(cursor.seen) /\ cursor.seen \in Seq(Nat) /\ Distinct(cursor.seen)
      /\ cursor.cycle \in Seq(Nat) /\ Distinct(cursor.cycle)
      /\ cursor.etag \in Document /\ cursor.modified \in Document
      /\ cursor.pendingEtag \in Document /\ cursor.pendingModified \in Document
      /\ conf.pagination \in {"none", "page", "cursor"}
  BY RESTCursor
<1>3. /\ limit \in Nat \ {0} /\ limit \in Nat /\ Window \in Nat /\ size \in Nat \ {0}
      /\ REST!Steady(conf) /\ conf.pagination # "cursor" => size = PageSize
  BY Constants, RESTSize
<1>4. Sublist(new, live) => Returns(limit, missing, new, next, on)
  <2>1. Page(limit, missing) = REST!Collect(conf, cursor, live, limit)
    BY RESTCase
  <2>2. REST!Collect(conf, cursor, live, limit)
          = Result(Events(new, made), {}, next, on)
    BY RESTListing, Zenon DEF REST!Collect, REST!Event, Events
  <2>3. on \in BOOLEAN
    OBVIOUS
  <2> HIDE DEF new, next, on, made
  <2> QED
    BY <2>1, <2>2, <2>3 DEF Returns
<1> DEFINE no == FALSE
           yes == TRUE
<1> HIDE DEF no, yes
<1>26. ended = Ended(no, yes, Remember(cycle, cursor.seen), etag, modified)
  <2> DEFINE seen == Remember(cycle, cursor.seen)
  <2> HIDE DEF seen, etag, modified
  <2>1. ended = Ended(no, yes, seen, etag, modified)
    BY Zenon DEF Ended, REST!Fresh, seen, no, yes
  <2> HIDE DEF ended
  <2> QED
    BY <2>1 DEF seen
<1>28. going = [initialized |-> cursor.initialized, seen |-> cursor.seen,
                cycle |-> cycle,
                page |-> IF scanned /\ conf.pagination = "page"
                         THEN cursor.page + 1 ELSE cursor.page,
                after |-> IF scanned /\ conf.pagination = "cursor"
                          THEN body[Len(body)].id ELSE cursor.after,
                etag |-> cursor.etag, modified |-> cursor.modified,
                pendingEtag |-> etag, pendingModified |-> modified]
  <2> DEFINE page == IF scanned /\ conf.pagination = "page"
                     THEN cursor.page + 1 ELSE cursor.page
             after == IF scanned /\ conf.pagination = "cursor"
                      THEN body[Len(body)].id ELSE cursor.after
  <2>1. REST!CursorOK(cursor)
    BY RESTCase DEF TypeOK
  <2>2. kept = Noted(cursor, cycle, etag, modified)
    BY Zenon DEF Noted
  <2> HIDE DEF cycle, etag, modified, kept
  <2>3. going = Moved(kept, page, after)
    <3>1. kept.page = cursor.page /\ kept.after = cursor.after
      BY <2>1, <2>2, CursorUpdates
    <3> HIDE DEF scanned, body
    <3> QED
      BY <3>1, Zenon DEF REST!WalkOn, Moved
  <2> HIDE DEF page, after
  <2>4. Moved(kept, page, after)
          = [initialized |-> cursor.initialized, seen |-> cursor.seen,
             cycle |-> cycle, page |-> page, after |-> after,
             etag |-> cursor.etag, modified |-> cursor.modified,
             pendingEtag |-> etag, pendingModified |-> modified]
    BY <2>1, <2>2, CursorUpdates
  <2> HIDE DEF going
  <2> QED
    BY <2>3, <2>4 DEF page, after
<1> HIDE DEF N, body, exhausted, ended, going, etag, modified
<1>5. /\ ended.initialized = TRUE /\ ended.seen = Remember(cycle, cursor.seen)
      /\ ended.cycle = << >> /\ ended.page = 1 /\ ended.after = None
      /\ ended.etag = etag /\ ended.modified = modified
      /\ ended.pendingEtag = None /\ ended.pendingModified = None
  <2> HIDE DEF cycle
  <2>1. ended.initialized = yes
    BY <1>26, CycleEnds
  <2>2. ended.initialized = TRUE
    BY <2>1, Zenon DEF yes
  <2> QED
    BY <1>26, <2>2, CycleEnds
<1>6. /\ going.initialized = cursor.initialized /\ going.seen = cursor.seen
      /\ going.cycle = cycle
      /\ going.etag = cursor.etag /\ going.modified = cursor.modified
      /\ going.pendingEtag = etag /\ going.pendingModified = modified
      /\ going.page = IF scanned /\ conf.pagination = "page"
                      THEN cursor.page + 1 ELSE cursor.page
      /\ going.after = IF scanned /\ conf.pagination = "cursor"
                       THEN body[Len(body)].id ELSE cursor.after
  <2> HIDE DEF cycle, scanned
  <2> QED
    BY <1>28
<1>7. PICK c \in Nat :
        /\ body \in Seq(Item) /\ Len(body) \in Nat
        /\ \A k \in 1..Len(body) : c + k \in 1..N /\ body[k] = live[c + k]
        /\ Sublist(body, live)
        /\ conf.pagination = "none" => c = 0
        /\ conf.pagination = "page" =>
             /\ c = (cursor.page - 1) * size
             /\ c + Len(body) < N => Len(body) = size
        /\ conf.pagination = "cursor" =>
             IF cursor.after # None THEN StandsAt(c, cursor.after) ELSE c = 0
        /\ exhausted /\ REST!Steady(conf) => c + Len(body) >= N
        /\ ~exhausted => conf.pagination # "none" /\ Len(body) >= 1
  BY <1>3, RESTBody, Zenon DEF body, exhausted, N
<1>25. /\ head \in Document /\ stamp \in Document
       /\ etag \in {head, cursor.pendingEtag}
       /\ modified \in {stamp, cursor.pendingModified}
       /\ head # None => head = body
       /\ stamp # None => stamp = live /\ conf.validator = "listing"
  <2>1. head = body \/ head = None
    BY Zenon DEF REST!Etag, body
  <2>2. stamp = IF conf.validator = "listing" THEN live ELSE None
    BY Zenon DEF REST!Modified
  <2>3. /\ etag \in {head, cursor.pendingEtag}
        /\ modified \in {stamp, cursor.pendingModified}
    BY DEF REST!OrPending, etag, modified
  <2> QED
    BY <1>1, <1>7, <2>1, <2>2, <2>3 DEF Document
<1> HIDE DEF size, head, stamp
<1>8. /\ Sublist(pending, body)
      /\ \A i \in 1..Len(pending) : ~Among(cursor.cycle, pending[i].id)
      /\ \A k \in 1..Len(body) : \/ Among(cursor.cycle, body[k].id)
                                 \/ \E i \in 1..Len(pending) : pending[i] = body[k]
  <2>1. body \in Seq(Item)
    BY <1>7
  <2> QED
    BY <2>1, WithoutProperties, Zenon, SMTT(30)
<1>9. /\ pending \in Seq(Item) /\ Len(pending) \in Nat
      /\ Sublist(pending, live) /\ NewestFirst(pending)
      /\ \A i \in 1..Len(pending) : \E k \in 1..Len(body) : pending[i] = body[k]
      /\ \A i \in 1..Len(pending) : pending[i].id \in Nat
  <2>1. Sublist(pending, live)
    BY <1>7, <1>8, SublistTransitive
  <2>2. NewestFirst(pending)
    BY <1>1, <2>1, SublistKeepsOrder
  <2>3. pending \in Seq(Item)
    BY <1>8 DEF Sublist
  <2>4. \A i \in 1..Len(pending) : pending[i].id \in Nat
    BY <2>3, ItemFields
  <2> HIDE DEF pending
  <2>5. Len(pending) \in Nat
    BY <2>3
  <2>6. \A i \in 1..Len(pending) : \E k \in 1..Len(body) : pending[i] = body[k]
    BY <1>8 DEF Sublist
  <2> QED
    BY <2>1, <2>2, <2>3, <2>4, <2>5, <2>6
<1> HIDE DEF pending
<1>10. /\ open \in Seq(Item) /\ n \in Nat /\ n <= Len(pending)
       /\ \A k \in 1..n : open[k] = pending[k]
       /\ n < Len(pending) => Among(known, pending[n + 1].id)
       /\ Sublist(open, live)
  <2>1. /\ open \in Seq(Item)
        /\ Len(open) <= Len(pending)
        /\ \A k \in 1..Len(open) : open[k] = pending[k]
        /\ Len(open) < Len(pending) => Among(known, pending[Len(open) + 1].id)
    BY <1>9, BeforeProperties, Zenon
  <2>2. Sublist(open, pending)
    BY <1>9, BeforeIsSublist
  <2>3. Len(open) \in Nat
    BY <2>1
  <2> QED
    BY <1>9, <2>1, <2>2, <2>3, SublistTransitive
<1> HIDE DEF open
<1>11. /\ new \in Seq(Item) /\ Len(new) \in Nat /\ Len(new) <= n
       /\ scanned => Len(new) = n
       /\ \A k \in 1..Len(new) : new[k] = pending[k]
       /\ Sublist(new, live) /\ Apart(new)
  <2>1. /\ new \in Seq(Item)
        /\ Len(new) = (IF limit < Len(open) THEN limit ELSE Len(open))
        /\ \A k \in 1..Len(new) : new[k] = open[k]
    BY <1>3, <1>10, FirstProperties, Zenon
  <2>2. Sublist(new, open)
    BY <1>3, <1>10, PartsAreSublists
  <2>3. Sublist(new, live)
    BY <1>10, <2>2, SublistTransitive
  <2>4. Apart(new)
    BY <1>1, <2>3, SublistKeepsApart DEF N
  <2>5. Len(new) \in Nat /\ Len(new) <= n /\ (scanned => Len(new) = n)
    <3>1. CASE limit < n
      BY <1>3, <1>10, <2>1, <3>1
    <3>2. CASE ~(limit < n)
      BY <1>3, <1>10, <2>1, <3>2
    <3> QED
      BY <3>1, <3>2
  <2>6. \A k \in 1..Len(new) : new[k] = pending[k]
    BY <1>10, <2>1, <2>5
  <2> QED
    BY <2>1, <2>3, <2>4, <2>5, <2>6
<1> HIDE DEF new
<1>12. /\ ids \in Seq(Nat) /\ Distinct(ids)
       /\ \A x : Among(ids, x) <=> \E i \in 1..Len(new) : new[i].id = x
  BY <1>11, IdSeqProperties
<1> HIDE DEF ids
<1>13. /\ cycle \in Seq(Nat) /\ Distinct(cycle)
       /\ \A x : Among(cycle, x) <=> Among(cursor.cycle, x) \/ Among(ids, x)
  <2>1. \A x : Among(ids, x) => ~Among(cursor.cycle, x)
    <3> SUFFICES ASSUME NEW x, Among(ids, x)
                 PROVE  ~Among(cursor.cycle, x)
      OBVIOUS
    <3>1. PICK i \in 1..Len(new) : new[i].id = x
      BY <1>12
    <3>2. i \in 1..Len(pending) /\ new[i] = pending[i]
      BY <1>9, <1>10, <1>11
    <3> QED
      BY <1>8, <3>1, <3>2
  <2> QED
    BY <1>2, <1>12, <2>1, JoinedProperties
<1> HIDE DEF cycle
<1>14. /\ Remembered(ended.seen)
       /\ \A x : Among(ended.seen, x) => Among(cycle, x) \/ Among(cursor.seen, x)
  BY <1>2, <1>3, <1>5, <1>13, RememberProperties
<1>15. Returns(limit, missing, new, next, on)
  BY <1>4, <1>11
<1>16. /\ c \in Nat /\ n \in Nat /\ N \in Nat /\ Len(body) \in Nat /\ Len(pending) \in Nat
  BY <1>1, <1>7, <1>9, <1>10
<1> HIDE DEF n, known
<1>17. /\ cursor' = next /\ conf' = conf /\ live' = live /\ published' = published
       /\ \A k \in 1..N : Settled(live[k]) => Settled(live[k])'
       /\ \A k \in 1..N :
            (\E i \in 1..Len(new) : new[i] = live[k]) => Settled(live[k])'
       /\ ~conf.backfill /\ ~cursor.initialized
            => \A k \in 1..N : Settled(live[k])'
       /\ CursorOK' => TypeOK'
       /\ ListingSorted'
  BY <1>15, CallEffect DEF N
<1>18. /\ reached => scanned /\ complete
       /\ ~complete /\ scanned => ~exhausted
       /\ ~complete => ~reached
       /\ scanned /\ ~reached => n = Len(pending)
  BY <1>3, <1>10, <1>16
<1>19. /\ complete => next = ended
       /\ ~complete => next = going
  OBVIOUS
<1>20. ASSUME NEW i \in 1..Len(pending)
       PROVE  \E p \in 1..N : p > c /\ p <= c + Len(body) /\ pending[i] = live[p]
  <2>1. PICK k \in 1..Len(body) : pending[i] = body[k]
    BY <1>9
  <2>2. c + k \in 1..N /\ body[k] = live[c + k] /\ c + k > c /\ c + k <= c + Len(body)
    BY <1>7, <1>16
  <2> c + k \in 1..N
    BY <2>2
  <2> WITNESS c + k \in 1..N
  <2> QED
    BY <2>1, <2>2
<1>21. ASSUME reached
       PROVE  \E q \in 1..N : /\ q > c /\ q <= c + Len(body)
                              /\ pending[n + 1] = live[q] /\ Among(known, live[q].id)
  <2>1. n + 1 \in 1..Len(pending) /\ Among(known, pending[n + 1].id)
    BY <1>10, <1>16, <1>21
  <2>2. PICK q \in 1..N : q > c /\ q <= c + Len(body) /\ pending[n + 1] = live[q]
    BY <1>20, <2>1
  <2> WITNESS q \in 1..N
  <2> QED
    BY <2>1, <2>2
<1>22. ASSUME scanned, ~complete
       PROVE  /\ Len(body) \in 1..Len(body) /\ c + Len(body) \in 1..N
              /\ body[Len(body)] = live[c + Len(body)]
              /\ conf.pagination # "none"
  <2>1. ~exhausted
    BY <1>18, <1>22
  <2>2. Len(body) \in 1..Len(body) /\ conf.pagination # "none"
    BY <1>7, <1>16, <2>1
  <2> QED
    BY <1>7, <2>2
<1> HIDE DEF next, on, complete, reached, scanned
<1>27. /\ etag \in Document /\ modified \in Document
       /\ Document = REST!Validators /\ None \in Document
  BY <1>2, <1>25, RESTListing DEF REST!Validators, Document
<1>23. CursorOK'
  <2>1. CASE complete
    <3>1. ended.initialized \in BOOLEAN
      BY <1>5, Zenon
    <3>2. REST!CursorOK(ended)
      <4>1. ended = [initialized |-> ended.initialized, seen |-> ended.seen,
                     cycle |-> ended.cycle, page |-> ended.page,
                     after |-> ended.after, etag |-> ended.etag,
                     modified |-> ended.modified,
                     pendingEtag |-> ended.pendingEtag,
                     pendingModified |-> ended.pendingModified]
        BY <1>26, CycleEnds
      <4>2. /\ ended.seen \in Seq(Nat) /\ ended.cycle \in Seq(Nat)
            /\ ended.page \in Nat \ {0} /\ ended.after \in Nat \cup {None}
            /\ {ended.etag, ended.modified, ended.pendingEtag,
                ended.pendingModified} \subseteq REST!Validators
            /\ Remembered(ended.seen) /\ Distinct(ended.cycle)
        BY <1>5, <1>14, <1>27, NothingRemembered DEF Remembered
      <4> HIDE DEF ended
      <4> QED
        BY <3>1, <4>1, <4>2, RESTListing DEF REST!CursorOK
    <3> QED
      BY <1>17, <1>19, <2>1, <3>2, Zenon DEF CursorOK
  <2>2. CASE ~complete
    <3>1. going.initialized \in BOOLEAN
      BY <1>6, RESTCursor, Zenon
    <3>2. going.page \in Nat \ {0}
      BY <1>2, <1>6
    <3>3. going.after \in Nat \cup {None}
      <4>1. CASE scanned
        <5>1. body[Len(body)].id \in Nat
          BY <1>1, <1>22, <2>2, <4>1
        <5> QED
          BY <1>2, <1>6, <5>1
      <4>2. CASE ~scanned
        BY <1>2, <1>6, <4>2
      <4> QED
        BY <4>1, <4>2
    <3>4. REST!CursorOK(going)
      <4>1. going = [initialized |-> going.initialized, seen |-> cursor.seen,
                     cycle |-> cycle, page |-> going.page, after |-> going.after,
                     etag |-> cursor.etag, modified |-> cursor.modified,
                     pendingEtag |-> etag, pendingModified |-> modified]
        BY <1>6, <1>28
      <4> QED
        BY <1>2, <1>6, <1>13, <1>27, <3>1, <3>2, <3>3, <4>1, RESTListing
        DEF REST!CursorOK
    <3> QED
      BY <1>17, <1>19, <2>2, <3>4, Zenon DEF CursorOK
  <2> QED
    BY <2>1, <2>2
<1>24. ASSUME EndpointRead, REST!Steady(conf)
       PROVE  EndpointRead'
  <2>1. /\ conf.pagination # "page" => cursor.page = 1
        /\ conf.pagination # "cursor" => cursor.after = None
        /\ cursor.after # None => Anchored(cursor.after)
        /\ \A m \in ToSet(cursor.seen) : m <= published /\ SettledUpTo(m, DOMAIN live)
        /\ \A m \in ToSet(cursor.cycle) :
             m <= published /\ SettledUpTo(m, EndpointPassed) /\ SettledAt(m)
        /\ REST!Distinctive(conf) => ValidatorsRead
    BY <1>24, Zenon DEF EndpointRead, EndpointPassed, ValidatorsRead
  <2>2. /\ \A m : Among(cursor.seen, m) => m <= published /\ SettledUpTo(m, DOMAIN live)
        /\ IdsRead(cursor.cycle, EndpointPassed)
    BY <2>1, InToSet DEF IdsRead
  <2>3. EndpointPassed = {k \in 1..N : k <= c}
    <3>1. CASE conf.pagination = "page"
      <4>1. c = (cursor.page - 1) * PageSize
        BY <1>3, <1>7, <1>24, <3>1
      <4> QED
        BY <1>1, <3>1, <4>1 DEF EndpointPassed, Above
    <3>2. CASE conf.pagination = "cursor" /\ cursor.after # None
      <4>1. DownTo(cursor.after) = {k \in 1..N : k <= c}
        <5>1. /\ StandsAt(c, cursor.after) /\ Anchored(cursor.after)
              /\ conf.type \notin {"github", "rss"}
          BY <1>7, <2>1, <3>2
        <5> QED
          BY <5>1, AnchorFacts DEF N
      <4> QED
        BY <3>2, <4>1 DEF EndpointPassed
    <3>3. CASE conf.pagination # "page" /\ cursor.after = None
      <4>1. c = 0 /\ EndpointPassed = {}
        BY <1>2, <1>7, <3>3 DEF EndpointPassed
      <4> QED
        BY <4>1
    <3> QED
      BY <1>2, <2>1, <3>1, <3>2, <3>3
  <2>4. ASSUME NEW k \in 1..N, k > c, k <= c + Len(body), scanned,
               reached => k < (CHOOSE q \in 1..N : pending[n + 1] = live[q])
        PROVE  Settled(live[k])'
    <3>1. k - c \in 1..Len(body) /\ c + (k - c) = k
      BY <1>16, <2>4
    <3>2. body[k - c] = live[k]
      BY <1>7, <3>1
    <3>3. CASE Among(cursor.cycle, live[k].id)
      <4>1. Settled(live[k])
        BY <1>1, <2>2, <3>3 DEF IdsRead, SettledAt
      <4> QED
        BY <1>17, <4>1
    <3>4. CASE \E i \in 1..Len(pending) : pending[i] = live[k]
      <4>1. PICK i \in 1..Len(pending) : pending[i] = live[k]
        BY <3>4
      <4>2. i <= n
        <5>1. CASE ~reached
          BY <1>16, <1>18, <2>4, <5>1
        <5>2. CASE reached
          <6> DEFINE q == CHOOSE p \in 1..N : pending[n + 1] = live[p]
          <6>1. \E p \in 1..N : pending[n + 1] = live[p]
            BY <1>21, <5>2
          <6>2. q \in 1..N /\ pending[n + 1] = live[q]
            BY <6>1
          <6>3. k < q
            BY <2>4, <5>2
          <6> HIDE DEF q
          <6>4. n + 1 \in 1..Len(pending)
            BY <1>10, <1>16, <5>2 DEF reached
          <6>5. live[q].id < live[k].id
            <7>1. NewestFirst(live) /\ N \in Nat
              BY <1>1
            <7>2. live[k].id > live[q].id
              BY <6>2, <6>3, <7>1 DEF NewestFirst, N
            <7>3. live[k].id \in Nat /\ live[q].id \in Nat
              BY <1>1, <6>2
            <7> QED
              BY <7>2, <7>3
          <6>6. ~(i >= n + 1)
            <7>1. CASE i = n + 1
              BY <1>1, <4>1, <6>2, <6>5, <7>1
            <7>2. CASE i > n + 1
              <8>1. pending[n + 1].id > pending[i].id
                BY <1>9, <6>4, <7>2 DEF NewestFirst
              <8> QED
                BY <1>1, <4>1, <6>2, <6>5, <8>1
            <7> QED
              BY <1>16, <7>1, <7>2
          <6> QED
            BY <1>16, <6>6
        <5> QED
          BY <5>1, <5>2
      <4>3. i \in 1..Len(new) /\ new[i] = live[k]
        BY <1>11, <1>16, <2>4, <4>1, <4>2
      <4> QED
        BY <1>17, <4>3
    <3> QED
      BY <1>8, <3>1, <3>2, <3>3, <3>4
  <2>5. ASSUME NEW k \in 1..N, k > c, complete
        PROVE  Settled(live[k])'
    <3>1. CASE ~cursor.initialized /\ ~conf.backfill
      BY <1>17, <3>1
    <3>2. CASE reached
      <4> DEFINE q == CHOOSE p \in 1..N : pending[n + 1] = live[p]
      <4>1. PICK p \in 1..N : /\ p > c /\ p <= c + Len(body)
                              /\ pending[n + 1] = live[p] /\ Among(known, live[p].id)
        BY <1>21, <3>2
      <4>2. q \in 1..N /\ pending[n + 1] = live[q]
        BY <4>1
      <4> HIDE DEF q
      <4>3. q = p
        BY <1>1, <4>1, <4>2 DEF Apart, N
      <4>4. CASE k < q
        <5>1. k <= c + Len(body)
          BY <1>16, <4>1, <4>3, <4>4
        <5> QED
          BY <1>18, <2>4, <2>5, <3>2, <4>4, <5>1 DEF q
      <4>5. CASE q <= k
        <5>1. live[k].id <= live[q].id
          BY <4>2, <4>5, BelowIsOlder DEF N
        <5>2. SettledUpTo(live[q].id, DOMAIN live)
          BY <2>2, <4>1, <4>3, NothingRemembered DEF known
        <5>3. Settled(live[k])
          BY <1>1, <5>1, <5>2 DEF SettledUpTo
        <5> QED
          BY <1>17, <5>3
      <4> QED
        BY <1>16, <4>2, <4>4, <4>5
    <3>3. CASE scanned /\ exhausted /\ ~reached
      <4>1. k <= c + Len(body)
        BY <1>7, <1>16, <1>24, <3>3
      <4> QED
        BY <2>4, <2>5, <3>3, <4>1
    <3> QED
      BY <2>5, <3>1, <3>2, <3>3 DEF complete
  <2>6. ASSUME NEW k \in 1..N, k > c, k <= c + Len(body), scanned, ~complete
        PROVE  Settled(live[k])'
    BY <1>18, <2>4, <2>6
  <2>7. /\ complete => cursor' = ended
        /\ ~complete => cursor' = going
    BY <1>17, <1>19
  <2>8. ASSUME ~complete, scanned, conf.pagination = "cursor"
        PROVE  /\ Anchored(going.after)
               /\ DownTo(going.after) = {k \in 1..N : k <= c + Len(body)}
    <3>1. /\ c + Len(body) \in 1..N
          /\ going.after = live[c + Len(body)].id
      BY <1>6, <1>22, <2>8
    <3>2. live[c + Len(body)].id \in 0..published
      BY <1>1, <3>1
    <3>3. Anchored(going.after)
      BY <1>1, <3>1, <3>2 DEF Anchored
    <3>4. StandsAt(c + Len(body), going.after)
      <4>1. \A p \in 1..N : StandsAt(p, live[p].id)
        BY <1>16 DEF StandsAt, N
      <4> QED
        BY <3>1, <4>1
    <3>5. DownTo(going.after) = {k \in 1..N : k <= c + Len(body)}
      BY <3>3, <3>4, AnchorFacts DEF N
    <3> QED
      BY <3>3, <3>5
  <2>9. /\ conf'.pagination # "page" => cursor'.page = 1
        /\ conf'.pagination # "cursor" => cursor'.after = None
    <3>1. CASE complete
      BY <1>5, <2>7, <3>1
    <3>2. CASE ~complete
      BY <1>6, <1>17, <2>1, <2>7, <3>2
    <3> QED
      BY <3>1, <3>2
  <2>10. ASSUME cursor'.after # None
         PROVE  Anchored(cursor.after)'
    <3>1. ~complete /\ cursor'.after = going.after
      BY <1>5, <2>7, <2>10
    <3>2. Anchored(going.after)
      <4>1. CASE scanned /\ conf.pagination = "cursor"
        BY <2>8, <3>1, <4>1
      <4>2. CASE ~(scanned /\ conf.pagination = "cursor")
        BY <1>6, <2>1, <2>10, <3>1, <4>2
      <4> QED
        BY <4>1, <4>2
    <3> QED
      BY <1>17, <3>1, <3>2 DEF Anchored
  <2>11. /\ EndpointPassed' \subseteq 1..N
         /\ \A k \in EndpointPassed' : k > c => Settled(live[k])'
    <3>1. CASE complete
      <4>1. cursor'.page = 1 /\ cursor'.after = None
        BY <1>5, <2>7, <3>1
      <4>2. EndpointPassed' = IF conf.pagination = "page" THEN {k \in 1..N : k <= 0} ELSE {}
        <5>1. (cursor'.page - 1) * PageSize = 0
          BY <4>1, Constants
        <5>2. conf.pagination = "page" =>
                EndpointPassed' = {k \in DOMAIN live : k <= (cursor'.page - 1) * PageSize}
          BY <1>17 DEF EndpointPassed, Above
        <5>3. conf.pagination # "page" => EndpointPassed' = {}
          BY <1>17, <4>1 DEF EndpointPassed
        <5> QED
          BY <1>1, <5>1, <5>2, <5>3, Zenon
      <4>3. EndpointPassed' = {}
        BY <1>16, <4>2
      <4> QED
        BY <4>3
    <3>2. CASE ~complete /\ ~scanned
      <4>1. cursor'.page = cursor.page /\ cursor'.after = cursor.after
        BY <1>6, <2>7, <3>2
      <4>2. EndpointPassed' = EndpointPassed
        BY <1>17, <4>1 DEF EndpointPassed, Above, DownTo
      <4> QED
        BY <1>16, <2>3, <4>2
    <3>3. CASE ~complete /\ scanned
      <4>1. EndpointPassed' \subseteq {k \in 1..N : k <= c + Len(body)}
        <5>1. CASE conf.pagination = "page"
          <6>7. size = PageSize /\ PageSize \in Nat
            BY <1>3, <1>24, <5>1
          <6>1. cursor'.page = cursor.page + 1
            BY <1>6, <2>7, <3>3, <5>1
          <6>2. (cursor.page + 1 - 1) * PageSize = c + PageSize
            <7>1. cursor.page + 1 - 1 = (cursor.page - 1) + 1 /\ cursor.page - 1 \in Nat
              BY <1>2
            <7>2. ((cursor.page - 1) + 1) * PageSize
                    = (cursor.page - 1) * PageSize + PageSize
              BY <6>7, <7>1
            <7> QED
              BY <1>7, <5>1, <6>7, <7>1, <7>2
          <6>3. EndpointPassed' = {k \in 1..N : k <= c + PageSize}
            <7>1. EndpointPassed' = {k \in DOMAIN live : k <= (cursor'.page - 1) * PageSize}
              BY <1>17, <5>1 DEF EndpointPassed, Above
            <7>2. (cursor'.page - 1) * PageSize = c + PageSize
              <8>1. cursor'.page - 1 = cursor.page + 1 - 1
                BY <1>2, <6>1
              <8> QED
                BY <6>2, <8>1, Zenon
            <7> QED
              BY <1>1, <7>1, <7>2, Zenon
          <6>4. c + Len(body) >= N \/ Len(body) = PageSize
            BY <1>7, <1>16, <5>1, <6>7
          <6>5. \A k \in 1..N : k <= c + PageSize => k <= c + Len(body)
            BY <1>16, <6>4, <6>7
          <6> QED
            BY <6>3, <6>5
        <5>2. CASE conf.pagination = "cursor"
          <6>1. going.after # None
            BY <1>1, <1>6, <1>22, <3>3, <5>2, Constants
          <6>2. EndpointPassed' = DownTo(going.after)
            BY <1>17, <2>7, <3>3, <5>2, <6>1 DEF EndpointPassed, DownTo
          <6> QED
            BY <2>8, <3>3, <5>2, <6>2
        <5> QED
          BY <1>2, <1>22, <3>3, <5>1, <5>2
      <4> QED
        BY <2>6, <3>3, <4>1
    <3> QED
      BY <3>1, <3>2, <3>3
  <2>12. \A m : Among(cycle, m) =>
           \/ Among(cursor.cycle, m)
           \/ \E p \in 1..Len(live) : p > c /\ live[p].id = m /\ Settled(live[p])'
    <3> SUFFICES ASSUME NEW m, Among(ids, m)
                 PROVE  \E p \in 1..Len(live) :
                          p > c /\ live[p].id = m /\ Settled(live[p])'
      BY <1>13
    <3>1. PICK i \in 1..Len(new) : new[i].id = m
      BY <1>12
    <3>2. i \in 1..Len(pending) /\ new[i] = pending[i]
      BY <1>10, <1>11, <1>16
    <3>3. PICK p \in 1..N : p > c /\ pending[i] = live[p]
      BY <1>20, <3>2
    <3>4. Settled(live[p])' /\ live[p].id = m
      BY <1>17, <3>1, <3>2, <3>3
    <3> QED
      BY <3>3, <3>4 DEF N
  <2>13. /\ conf.type \notin {"github", "rss"}
         /\ \A k \in 1..Len(live) : Settled(live[k]) => Settled(live[k])'
         /\ \A k \in EndpointPassed' : k <= c => k \in EndpointPassed
         /\ \A k \in 1..Len(live) : k <= c => k \in EndpointPassed
         /\ EndpointPassed' \subseteq 1..Len(live)
    BY <1>17, <2>3, <2>11 DEF N
  <2>14. ASSUME complete
         PROVE  /\ \A m : Among(cycle, m) => m <= published' /\ SettledNext(1..Len(live), m)
                /\ \A p \in 1..Len(live) : p > c => SettledNext(1..Len(live), live[p].id)
                /\ \A m : SettledUpTo(m, EndpointPassed) => SettledNext(1..Len(live), m)
    <3>1. 1..Len(live) \subseteq 1..Len(live)
      OBVIOUS
    <3>2. \A k \in 1..Len(live) : k > c => Settled(live[k])'
      BY <2>5, <2>14 DEF N
    <3>3. \A m : Among(cycle, m) =>
            m <= published' /\ SettledNext(1..Len(live), m) /\ SettledAt(m)'
      BY <1>16, <1>17, <2>2, <2>12, <2>13, <3>1, <3>2, IdsStayRead
    <3>4. /\ \A p \in 1..Len(live) : p > c => SettledNext(1..Len(live), live[p].id)
          /\ \A m : SettledUpTo(m, EndpointPassed) => SettledNext(1..Len(live), m)
      BY <1>16, <2>13, <3>1, <3>2, PassSettles
    <3> QED
      BY <3>3, <3>4
  <2>15. \A m : SettledUpTo(m, DOMAIN live) => SettledNext(1..Len(live), m)
    BY <1>1, <2>13 DEF SettledUpTo, SettledNext, N
  <2>16. \A m : Among(cursor'.seen, m) => m <= published' /\ SettledNext(1..Len(live), m)
    <3>1. CASE complete
      <4>1. cursor'.seen = ended.seen
        BY <2>7, <3>1
      <4> SUFFICES ASSUME NEW m, Among(cycle, m) \/ Among(cursor.seen, m)
                   PROVE  m <= published' /\ SettledNext(1..Len(live), m)
        BY <1>14, <4>1
      <4> QED
        BY <1>17, <2>2, <2>14, <2>15, <3>1
    <3>2. CASE ~complete
      BY <1>6, <1>17, <2>2, <2>7, <2>15, <3>2
    <3> QED
      BY <3>1, <3>2
  <2>17. \A m : Among(cursor'.cycle, m) =>
            m <= published' /\ SettledNext(EndpointPassed', m) /\ SettledAt(m)'
    <3>1. CASE complete
      BY <1>5, <2>7, <3>1, NothingRemembered
    <3>2. CASE ~complete
      <4>1. cursor'.cycle = cycle
        BY <1>6, <2>7, <3>2
      <4>2. \A m : Among(cycle, m) =>
              m <= published' /\ SettledNext(EndpointPassed', m) /\ SettledAt(m)'
        BY <1>16, <1>17, <2>2, <2>11, <2>12, <2>13, IdsStayRead
      <4> QED
        BY <4>1, <4>2
    <3> QED
      BY <3>1, <3>2
  <2>18. ASSUME NEW document, document # None, document # << >>,
                REST!Distinctive(conf), document \in {head, stamp}
         PROVE  \E p \in 1..Len(live) : p > c /\ document[1] = live[p]
    <3>1. CASE document = head
      <4>1. document = body
        BY <1>25, <2>18, <3>1
      <4>2. 1 \in 1..Len(body) /\ c + 1 > c
        BY <1>7, <1>16, <2>18, <4>1, HeadOf
      <4>3. c + 1 \in 1..Len(live) /\ body[1] = live[c + 1]
        BY <1>7, <4>2 DEF N
      <4> QED
        BY <4>1, <4>2, <4>3
    <3>2. CASE document = stamp
      <4>1. document = live /\ c = 0
        BY <1>7, <1>25, <2>18, <3>2 DEF REST!Distinctive
      <4>2. 1 \in 1..Len(live)
        BY <1>1, <2>18, <4>1, HeadOf
      <4> QED
        BY <4>1, <4>2
    <3> QED
      BY <2>18, <3>1, <3>2
  <2>22. ASSUME NEW document, document # None, document # << >>,
                REST!Distinctive(conf), document \in {etag, modified}
         PROVE  \/ \E p \in 1..Len(live) : p > c /\ document[1] = live[p]
                \/ /\ document[1].id <= published
                   /\ SettledUpTo(document[1].id, EndpointPassed)
    <3>1. CASE document \in {head, stamp}
      BY <2>18, <2>22, <3>1
    <3>2. CASE document \in {cursor.pendingEtag, cursor.pendingModified}
      BY <2>1, <2>22, <3>2 DEF ValidatorsRead, HeadSettled
    <3> QED
      BY <1>25, <2>22, <3>1, <3>2
  <2>23. ASSUME NEW document, document # None, document # << >>,
                REST!Distinctive(conf), document \in {etag, modified}
         PROVE  /\ document[1].id <= published'
                /\ complete => SettledNext(1..Len(live), document[1].id)
                /\ SettledNext(EndpointPassed', document[1].id)
    <3>1. document[1].id <= published'
      BY <1>1, <1>17, <2>22, <2>23 DEF N
    <3>2. complete => SettledNext(1..Len(live), document[1].id)
      BY <2>14, <2>22, <2>23
    <3>3. /\ \A p \in 1..Len(live) : p > c => SettledNext(EndpointPassed', live[p].id)
          /\ \A m : SettledUpTo(m, EndpointPassed) => SettledNext(EndpointPassed', m)
      BY <1>16, <2>11, <2>13, PassSettles
    <3>4. SettledNext(EndpointPassed', document[1].id)
      BY <2>22, <2>23, <3>3
    <3> QED
      BY <3>1, <3>2, <3>4
  <2>24. ASSUME NEW document, document # None, document # << >>,
                REST!Distinctive(conf), document \in {cursor'.etag, cursor'.modified}
         PROVE  /\ document[1].id <= published'
                /\ SettledNext(1..Len(live), document[1].id)
    <3>1. CASE complete
      BY <1>5, <2>7, <2>23, <2>24, <3>1
    <3>2. CASE ~complete
      <4>1. document \in {cursor.etag, cursor.modified}
        BY <1>6, <2>7, <2>24, <3>2
      <4>2. /\ document[1].id <= published
            /\ SettledUpTo(document[1].id, DOMAIN live)
        BY <2>1, <2>24, <4>1 DEF ValidatorsRead, HeadSettled
      <4> QED
        BY <1>17, <2>15, <4>2
    <3> QED
      BY <3>1, <3>2
  <2>25. ASSUME NEW document, document # None, document # << >>,
                REST!Distinctive(conf),
                document \in {cursor'.pendingEtag, cursor'.pendingModified}
         PROVE  /\ document[1].id <= published'
                /\ SettledNext(EndpointPassed', document[1].id)
    <3>1. ~complete
      BY <1>5, <2>7, <2>25
    <3> QED
      BY <1>6, <2>7, <2>23, <2>25, <3>1
  <2>19. ASSUME NEW m \in ToSet(cursor'.seen)
         PROVE  m <= published' /\ SettledUpTo(m, DOMAIN live)'
    BY <1>1, <1>17, <2>16, InToSet DEF SettledNext, SettledUpTo, N
  <2>20. ASSUME NEW m \in ToSet(cursor'.cycle)
         PROVE  m <= published' /\ SettledUpTo(m, EndpointPassed)' /\ SettledAt(m)'
    BY <1>17, <2>17, InToSet DEF SettledNext, SettledUpTo
  <2>21. ASSUME REST!Distinctive(conf)'
         PROVE  ValidatorsRead'
    <3>1. REST!Distinctive(conf)
      BY <1>17, <2>21 DEF REST!Distinctive
    <3>2. HeadSettled(cursor.etag, DOMAIN live)' /\ HeadSettled(cursor.modified, DOMAIN live)'
      BY <1>1, <1>17, <2>24, <3>1 DEF HeadSettled, SettledNext, SettledUpTo, N
    <3>3. /\ HeadSettled(cursor.pendingEtag, EndpointPassed)'
          /\ HeadSettled(cursor.pendingModified, EndpointPassed)'
      BY <1>17, <2>25, <3>1 DEF HeadSettled, SettledNext, SettledUpTo
    <3> QED
      BY <3>2, <3>3 DEF ValidatorsRead
  <2> QED
    BY <2>9, <2>10, <2>19, <2>20, <2>21, Zenon DEF EndpointRead, EndpointPassed, ValidatorsRead
<1> QED
  BY <1>17, <1>23, <1>24

LEMMA RESTCollect ==
  ASSUME TypeOK, ListingSorted, conf.type = "rest", NEW limit \in Limits,
         NEW missing \in Incomplete, Collect(limit, missing)
  PROVE  /\ TypeOK' /\ ListingSorted'
         /\ EndpointRead /\ REST!Steady(conf) => EndpointRead'
BY RESTUnmodified, RESTPage

-----------------------------------------------------------------------------
(* The search of GitHubCollector.                                          *)
LEMMA GitHubCase ==
  ASSUME conf.type = "github"
  PROVE  /\ Walking <=> cursor.page # 1 \/ cursor.offset # 0
         /\ ~NotModified
         /\ CursorOK <=> GitHub!CursorOK(cursor)
         /\ Fresh(conf.type) = [page |-> 1, offset |-> 0, perPage |-> 0, watermark |-> 0]
         /\ \A limit, missing : Page(limit, missing) = GitHub!Collect(cursor, Left(missing), limit)
         /\ Known = << >>
<1>1. Walking <=> cursor.page # 1 \/ cursor.offset # 0
  BY Zenon DEF Walking, GitHub!Walking
<1>2. ~NotModified
  BY Zenon DEF NotModified
<1>3. CursorOK <=> GitHub!CursorOK(cursor)
  BY Zenon DEF CursorOK
<1>4. Fresh(conf.type) = [page |-> 1, offset |-> 0, perPage |-> 0, watermark |-> 0]
  BY Zenon DEF Fresh, GitHub!Fresh
<1>5. \A limit, missing : Page(limit, missing) = GitHub!Collect(cursor, Left(missing), limit)
  BY Zenon DEF Page
<1>6. Known = << >>
  BY Zenon DEF Known
<1> QED
  BY <1>1, <1>2, <1>3, <1>4, <1>5, <1>6

LEMMA GitHubCursor ==
  ASSUME TypeOK, conf.type = "github"
  PROVE  /\ cursor.page \in Nat \ {0} /\ cursor.offset \in Nat
         /\ cursor.perPage \in Nat /\ cursor.watermark \in Nat
         /\ cursor.perPage <= MaxPerPage
         /\ cursor.offset # 0 => cursor.offset < cursor.perPage
BY GitHubCase, Constants DEF TypeOK, GitHub!CursorOK

(* A search finds the c items that were updated last, from the last up.    *)
Finds(found, items, time, c) ==
  /\ c \in 0..Len(items)
  /\ found \in Seq(Item) /\ Len(found) = c
  /\ Sublist(found, OldestFirst(items))
  /\ \A k \in 1..Len(items) : items[k].at >= time <=> k <= c
  /\ \A n \in 1..c : c + 1 - n \in 1..c /\ found[n] = items[c + 1 - n]

LEMMA IssueSearch ==
  ASSUME NEW items \in Seq(Item), NEW position, position.watermark \in Nat,
         \A j, k \in 1..Len(items) : j < k => items[j].at >= items[k].at
  PROVE  \E c : Finds(GitHub!Matches(position, items), items, position.watermark, c)
<1> DEFINE old == OldestFirst(items)
           time == position.watermark
           found == Kept(old, {k \in DOMAIN old : old[k].at >= time})
<1>1. GitHub!Matches(position, items) = found
  BY GitHubListing, Zenon DEF GitHub!Matches, OldestFirst
<1>2. PICK c \in 0..Len(items) :
        /\ found \in Seq(Item) /\ Len(found) = c
        /\ Sublist(found, old)
        /\ \A k \in 1..Len(items) : items[k].at >= time <=> k <= c
        /\ \A n \in 1..c : c + 1 - n \in 1..c /\ found[n] = items[c + 1 - n]
  <2> HIDE DEF time
  <2>1. time \in Nat
    BY DEF time
  <2> QED
    BY <2>1, SearchProperties
<1> HIDE DEF found, time
<1>3. Finds(found, items, time, c)
  BY <1>2 DEF Finds
<1> QED
  BY <1>1, <1>3 DEF time

LEMMA GitHubInit ==
  ASSUME Init, conf.type = "github"
  PROVE  CursorOK /\ IssuesRead
<1>1. /\ cursor = [page |-> 1, offset |-> 0, perPage |-> 0, watermark |-> 0]
      /\ now = 1 /\ waived = {}
  BY GitHubCase DEF Init
<1>2. CursorOK
  BY <1>1, GitHubCase, Constants DEF GitHub!CursorOK
<1>3. TypeOK /\ ListingSorted
  BY <1>2, InitTypes, InitListing
<1>4. live \in Seq(Item) /\ \A j, k \in 1..Len(live) : j < k => live[j].at >= live[k].at
  BY <1>3, ListingFacts, ListingOrder DEF ByUpdate
<1>5. PICK c : Finds(GitHub!Matches(cursor, live), live, cursor.watermark, c)
  BY <1>1, <1>4, IssueSearch
<1>6. \A k \in DOMAIN live : ~(live[k].at < cursor.watermark)
  BY <1>1, <1>3, ListingFacts
<1>7. ~Walking /\ (cursor.page - 1) * cursor.perPage + cursor.offset = 0
  BY <1>1, GitHubCase
<1>8. Len(GitHub!Matches(cursor, live)) \in Nat
  BY <1>5 DEF Finds
<1> QED
  BY <1>1, <1>2, <1>6, <1>7, <1>8 DEF IssuesRead

(* What a search has not passed may move; what it has passed stays there.  *)
LEMMA GitHubSource ==
  ASSUME TypeOK, ListingSorted, IssuesRead, SourceChange, conf.type = "github",
         conf.type \notin MidWalk
  PROVE  IssuesRead'
<1> DEFINE w == cursor.watermark
           passed == (cursor.page - 1) * cursor.perPage + cursor.offset
           found == GitHub!Matches(cursor, live)
           later == GitHub!Matches(cursor', live')
           Same(k) == \E j \in 1..Len(live) :
                        /\ live'[k] = live[j]
                        /\ live[j].id \in waived => live[j].id \in waived'
<1>1. conf' = conf /\ cursor' = cursor /\ got' = got /\ waived' \subseteq waived
  BY SourceLeavesAlone
<1>2. TypeOK' /\ ListingSorted'
  BY SourceKeepsOrder
<1>3. /\ live \in Seq(Item) /\ Len(live) \in Nat /\ DOMAIN live = 1..Len(live)
      /\ \A k \in 1..Len(live) : live[k].at \in Nat /\ live[k].at <= now
      /\ \A j, k \in 1..Len(live) : j < k => live[j].at >= live[k].at
  BY ListingFacts, ListingOrder DEF ByUpdate, Listed
<1>4. /\ live' \in Seq(Item) /\ Len(live') \in Nat /\ DOMAIN live' = 1..Len(live')
      /\ \A k \in 1..Len(live') : live'[k].at \in Nat
      /\ \A j, k \in 1..Len(live') : j < k => live'[j].at >= live'[k].at
  <2>1. /\ live' \in Seq(Item) /\ Len(live') \in Nat /\ DOMAIN live' = 1..Len(live')
        /\ \A k \in 1..Len(live') : live'[k].at \in Nat
    BY <1>2, ShownItems DEF TypeOK, Shown
  <2>2. conf'.type = "github"
    BY <1>1
  <2> QED
    BY <1>2, <2>1, <2>2 DEF ListingSorted
<1>5. /\ cursor.page \in Nat \ {0} /\ cursor.offset \in Nat
      /\ cursor.perPage \in Nat /\ w \in Nat /\ now \in Nat
  BY GitHubCursor, Constants DEF TypeOK
<1>6. PICK c : Finds(found, live, w, c)
  BY <1>3, <1>5, IssueSearch
<1>7. PICK d : Finds(later, live', w, d)
  <2>1. cursor'.watermark = w /\ cursor'.watermark \in Nat
    BY <1>1, <1>5
  <2>2. \E d : Finds(GitHub!Matches(cursor', live'), live', cursor'.watermark, d)
    BY <1>4, <2>1, IssueSearch
  <2> QED
    BY <2>1, <2>2
<1>8. /\ w <= now
      /\ Walking => cursor.perPage > 0
      /\ passed <= Len(found)
      /\ \A k \in 1..passed : Current(found[k])
      /\ \A k \in DOMAIN live : live[k].at < w => Current(live[k])
      /\ ~conf.partial => waived = {}
  BY DEF IssuesRead
<1>9. passed \in Nat /\ (~Walking => passed = 0)
  <2>1. cursor.page - 1 \in Nat
    BY <1>5
  <2>2. (cursor.page - 1) * cursor.perPage \in Nat
    BY <1>5, <2>1
  <2>3. passed \in Nat
    BY <1>5, <2>2
  <2>4. ASSUME ~Walking
        PROVE  passed = 0
    <3>1. cursor.page - 1 = 0 /\ cursor.offset = 0
      BY <2>4, GitHubCase
    <3> QED
      BY <1>5, <3>1
  <2> QED
    BY <2>3, <2>4
<1> HIDE DEF w, passed, found, later
<1>10. /\ c \in 0..Len(live) /\ Len(found) = c
       /\ \A k \in 1..Len(live) : live[k].at >= w <=> k <= c
       /\ \A n \in 1..c : c + 1 - n \in 1..c /\ found[n] = live[c + 1 - n]
  BY <1>6 DEF Finds
<1>11. /\ d \in 0..Len(live') /\ Len(later) = d
       /\ \A k \in 1..Len(live') : live'[k].at >= w <=> k <= d
       /\ \A n \in 1..d : d + 1 - n \in 1..d /\ later[n] = live'[d + 1 - n]
  BY <1>7 DEF Finds
<1>12. ASSUME NEW time \in 1..MaxTime, Publish(time)
       PROVE  /\ now' >= w
              /\ \A k \in 1..Len(live') : live'[k].at >= w \/ Same(k)
              /\ passed <= d
              /\ \A k \in 1..passed : later[k] = found[k]
              /\ waived' = waived
  <2>1. /\ now' = time /\ time >= now /\ Len(live') = Len(live) + 1
        /\ live'[1] = NewItem(published + 1, time)
        /\ \A k \in 2..Len(live') : k - 1 \in 1..Len(live) /\ live'[k] = live[k - 1]
    BY <1>12, PublishEffect
  <2>7. waived' = waived
    BY <1>12, Zenon DEF Publish
  <2>2. live'[1].at = time /\ time >= w /\ time \in Nat
    BY <1>5, <1>8, <2>1 DEF NewItem
  <2>3. d = c + 1
    <3>1. d >= 1
      BY <1>3, <1>11, <2>1, <2>2
    <3>2. c >= 1 => c + 1 <= d
      <4> SUFFICES ASSUME c >= 1
                   PROVE  c + 1 <= d
        OBVIOUS
      <4>1. c \in 1..Len(live) /\ live[c].at >= w
        BY <1>3, <1>10
      <4>2. c + 1 \in 2..Len(live') /\ (c + 1) - 1 = c
        BY <1>3, <2>1, <4>1
      <4>3. live'[c + 1] = live[c]
        BY <2>1, <4>2
      <4> QED
        BY <1>11, <4>1, <4>2, <4>3
    <3>3. d >= 2 => d - 1 <= c
      <4> SUFFICES ASSUME d >= 2
                   PROVE  d - 1 <= c
        OBVIOUS
      <4>1. d \in 2..Len(live') /\ live'[d].at >= w
        BY <1>4, <1>11
      <4> QED
        BY <1>10, <2>1, <4>1
    <3> QED
      BY <1>3, <1>4, <1>10, <1>11, <3>1, <3>2, <3>3
  <2>4. ASSUME NEW k \in 1..passed
        PROVE  later[k] = found[k]
    <3>1. k \in 1..c /\ k \in 1..d /\ d + 1 - k = (c + 1 - k) + 1 /\ c \in Nat
      BY <1>3, <1>8, <1>9, <1>10, <2>3
    <3> DEFINE n == c + 1 - k
    <3>2. n \in 1..c /\ found[k] = live[n] /\ later[k] = live'[n + 1]
      BY <1>10, <1>11, <3>1
    <3>3. n + 1 \in 2..Len(live') /\ (n + 1) - 1 = n
      BY <1>3, <1>10, <2>1, <3>1, <3>2
    <3> HIDE DEF n
    <3> QED
      BY <2>1, <3>2, <3>3
  <2>5. ASSUME NEW k \in 1..Len(live')
        PROVE  live'[k].at >= w \/ Same(k)
    <3>1. k = 1 \/ k \in 2..Len(live')
      BY <1>4
    <3> QED
      BY <2>1, <2>2, <2>7, <3>1
  <2>6. passed <= d
    BY <1>3, <1>8, <1>9, <1>10, <2>3
  <2> QED
    BY <2>1, <2>2, <2>4, <2>5, <2>6, <2>7
<1>13. ASSUME NEW r \in DOMAIN live, NEW time \in 1..MaxTime, Update(r, time)
       PROVE  /\ now' >= w
              /\ \A k \in 1..Len(live') : live'[k].at >= w \/ Same(k)
              /\ ~Walking
  <2>1. /\ now' = time /\ time >= now
        /\ live'[1].at = time /\ Len(live') = Len(live)
        /\ \A j \in 2..r : live'[j] = live[j - 1]
        /\ \A j \in (r + 1)..Len(live) : live'[j] = live[j]
    BY <1>13, UpdateEffect
  <2>2. time >= w /\ r \in 1..Len(live)
    BY <1>3, <1>5, <1>8, <2>1
  <2>5. \A j \in 1..Len(live) :
          j # r /\ live[j].id \in waived => live[j].id \in waived'
    <3>1. waived' = waived \ {live[r].id}
      BY <1>13, Zenon DEF Update
    <3> QED
      BY <2>2, <3>1, ListingFacts DEF Apart
  <2>3. ASSUME NEW k \in 1..Len(live')
        PROVE  live'[k].at >= w \/ Same(k)
    <3>1. CASE k = 1
      BY <2>1, <2>2, <3>1
    <3>2. CASE k \in 2..r
      <4>1. k - 1 \in 1..Len(live) /\ k - 1 # r
        BY <1>3, <2>2, <3>2
      <4> QED
        BY <2>1, <2>5, <3>2, <4>1
    <3>3. CASE k \in (r + 1)..Len(live)
      <4>1. k \in 1..Len(live) /\ k # r
        BY <1>3, <2>2, <3>3
      <4> QED
        BY <2>1, <2>5, <3>3, <4>1
    <3> QED
      BY <1>3, <2>1, <2>2, <3>1, <3>2, <3>3
  <2>4. ~Walking
    <3>1. Loose(r)
      BY <1>13, Zenon DEF Update
    <3> QED
      BY <3>1 DEF Loose
  <2> QED
    BY <2>1, <2>2, <2>3, <2>4
<1>14. ASSUME NEW r \in DOMAIN live, Remove(r)
       PROVE  /\ now' >= w
              /\ \A k \in 1..Len(live') : live'[k].at >= w \/ Same(k)
              /\ ~Walking
  <2>1. /\ Len(live') = Len(live) - 1
        /\ \A j \in 1..Len(live') : j < r => live'[j] = live[j]
        /\ \A j \in 1..Len(live') : j >= r => live'[j] = live[j + 1]
    BY <1>14, RemoveEffect
  <2>3. ~Walking /\ now' = now /\ waived' = waived
    <3>1. Loose(r) /\ now' = now /\ waived' = waived
      BY <1>14, Zenon DEF Remove
    <3> QED
      BY <3>1 DEF Loose
  <2>2. ASSUME NEW k \in 1..Len(live')
        PROVE  Same(k)
    <3>1. k \in 1..Len(live) /\ k + 1 \in 1..Len(live) /\ (k < r \/ k >= r)
      BY <1>3, <2>1
    <3> QED
      BY <2>1, <2>3, <3>1
  <2> QED
    BY <1>5, <1>8, <2>2, <2>3
<1>15. /\ now' >= w
       /\ \A k \in 1..Len(live') : live'[k].at >= w \/ Same(k)
       /\ passed <= d
       /\ \A k \in 1..passed : \/ got[later[k].id] = later[k].rev
                               \/ later[k].id \in waived'
  <2>1. CASE \E time \in 1..MaxTime : Publish(time)
    BY <1>8, <1>12, <2>1 DEF Current
  <2>2. CASE \/ \E k \in DOMAIN live, time \in 1..MaxTime : Update(k, time)
             \/ \E k \in DOMAIN live : Remove(k)
    <3>1. ~Walking /\ now' >= w /\ \A k \in 1..Len(live') : live'[k].at >= w \/ Same(k)
      BY <1>13, <1>14, <2>2
    <3>2. passed = 0 /\ d \in Nat
      BY <1>4, <1>9, <1>11, <3>1
    <3> QED
      BY <3>1, <3>2
  <2> QED
    <3>1. ~\E j, k \in DOMAIN live : Reorder(j, k)
      BY Zenon DEF Reorder
    <3>2. ~\E k \in DOMAIN live : Kill(k) \/ Comment(k)
      BY Zenon DEF Kill, Comment
    <3> QED
      BY <2>1, <2>2, <3>1, <3>2 DEF SourceChange
<1>16. \A k \in DOMAIN live' : live'[k].at < cursor'.watermark => Current(live[k])'
  <2> SUFFICES ASSUME NEW k \in 1..Len(live'), live'[k].at < w
               PROVE  got[live'[k].id] = live'[k].rev \/ live'[k].id \in waived'
    BY <1>1, <1>4 DEF w, Current
  <2>1. PICK j \in 1..Len(live) : /\ live'[k] = live[j]
                                  /\ live[j].id \in waived => live[j].id \in waived'
    BY <1>4, <1>5, <1>15
  <2> QED
    BY <1>3, <1>8, <2>1 DEF Current
<1>17. Walking' => cursor'.perPage > 0
  BY <1>1, <1>8, Zenon DEF Walking
<1>18. /\ cursor'.watermark <= now'
       /\ (cursor'.page - 1) * cursor'.perPage + cursor'.offset = passed
  <2>1. now' \in Nat
    BY <1>2, Constants DEF TypeOK
  <2> QED
    BY <1>1, <1>5, <1>15, <2>1 DEF w, passed
<1>19. /\ passed <= Len(later)
       /\ \A k \in 1..passed : \/ got'[later[k].id] = later[k].rev
                               \/ later[k].id \in waived'
       /\ ~conf'.partial => waived' = {}
  BY <1>1, <1>8, <1>11, <1>15
<1> QED
  BY <1>16, <1>17, <1>18, <1>19 DEF IssuesRead, Current, later

(* The watermark of a search that came to its end.                         *)
LEMMA LatestProperties ==
  ASSUME NEW items \in Seq(Item), NEW w \in Nat, NEW bound \in Nat,
         \A k \in 1..Len(items) : items[k].at <= bound
  PROVE  /\ GitHub!Latest(items, w) \in Nat
         /\ \/ GitHub!Latest(items, w) = w
            \/ \E k \in 1..Len(items) : GitHub!Latest(items, w) = items[k].at
<1> DEFINE times == {items[k].at : k \in DOMAIN items} \cup {w}
           latest == CHOOSE t \in times : \A u \in times : u <= t
<1>1. DOMAIN items = 1..Len(items) /\ \A k \in 1..Len(items) : items[k].at \in Nat
  BY ItemFields
<1>2. times \in SUBSET Nat /\ times # {} /\ bound + w \in Nat
  BY <1>1
<1>3. \A t \in times : t <= bound + w
  BY <1>1
<1>4. GitHub!Latest(items, w) = latest
  BY Zenon DEF GitHub!Latest
<1>5. \A t \in times : t = w \/ \E k \in 1..Len(items) : t = items[k].at
  BY <1>1
<1> HIDE DEF times
<1>6. \E t \in times : \A u \in times : u <= t
  BY <1>2, <1>3, Greatest
<1>7. latest \in times
  BY <1>6, Zenon
<1> HIDE DEF latest
<1> QED
  BY <1>2, <1>4, <1>5, <1>7

(* What an incomplete answer shows has the order of the listing.           *)
LEMMA LeftOrder ==
  ASSUME TypeOK, ListingSorted, conf.type = "github", NEW missing \in Incomplete
  PROVE  LET part == Left(missing)
         IN /\ part \in Seq(Item) /\ Len(part) \in Nat
            /\ \A j, k \in 1..Len(part) : j < k => part[j].at >= part[k].at
            /\ \A n \in 1..Len(part) :
                 \E k \in 1..Len(live) : n <= k /\ part[n] = live[k]
            /\ missing = {} => part = live
<1> DEFINE part == Left(missing)
           places == {k \in DOMAIN live : live[k].id \notin missing}
           C == Cardinality(places)
<1>1. live \in Seq(Item) /\ DOMAIN live = 1..Len(live) /\ Len(live) \in Nat
  BY ListingFacts
<1>2. places \in SUBSET (1..Len(live)) /\ part = Kept(live, places)
  BY <1>1 DEF Left
<1>3. missing = {} => places = 1..Len(live)
  BY <1>1
<1>4. /\ part \in Seq(Item) /\ Len(part) \in Nat /\ Sublist(part, live)
  BY LeftProperties
<1> HIDE DEF part, places, C
<1>5. PICK place :
        /\ Enumerates(place, places)
        /\ Len(part) = C
        /\ \A n \in 1..C : part[n] = live[place[n]]
  BY <1>1, <1>2, KeptPlaces DEF C
<1>6. /\ \A n \in 1..C : place[n] \in places
      /\ \A m, n \in 1..C : m < n => place[m] < place[n]
  BY <1>5 DEF Enumerates, C
<1>7. \A n \in 1..C : n <= place[n]
  <2> DEFINE low == {n \in 1..C : place[n] < n}
  <2> SUFFICES ASSUME low # {}
               PROVE  FALSE
    <3>1. \A n \in 1..C : place[n] \in 1..Len(live)
      BY <1>2, <1>6
    <3> QED
      BY <1>1, <1>4, <1>5, <3>1
  <2>1. low \in SUBSET Nat
    OBVIOUS
  <2>2. PICK n \in low : \A m \in low : n <= m
    BY <2>1, Least
  <2>3. n \in 1..C /\ place[n] < n /\ \A m \in 1..C : m < n => ~(place[m] < m)
    BY <2>2
  <2> HIDE DEF low
  <2>4. place[n] \in 1..Len(live)
    BY <1>2, <1>6, <2>3
  <2>5. n - 1 \in 1..C /\ n - 1 < n
    BY <1>1, <1>4, <1>5, <2>3, <2>4
  <2>6. place[n - 1] < place[n] /\ place[n - 1] \in 1..Len(live)
    BY <1>2, <1>6, <2>3, <2>5
  <2> QED
    BY <1>1, <2>3, <2>4, <2>5, <2>6
<1>8. \A n \in 1..Len(part) : \E k \in 1..Len(live) : n <= k /\ part[n] = live[k]
  BY <1>2, <1>5, <1>6, <1>7
<1>9. \A j, k \in 1..Len(part) : j < k => part[j].at >= part[k].at
  <2>1. \A j, k \in 1..Len(live) : j < k => live[j].at >= live[k].at
    BY ListingOrder DEF ByUpdate
  <2> QED
    BY <1>4, <2>1 DEF Sublist
<1>10. ASSUME missing = {}
       PROVE  part = live
  <2> PICK zero \in Nat : zero = 0
    OBVIOUS
  <2>1. places = (zero + 1)..(zero + Len(live))
    BY <1>1, <1>3, <1>10
  <2>2. /\ Len(part) = Len(live)
        /\ \A n \in 1..Len(live) : part[n] = live[zero + n]
    <3> DEFINE kept == Kept(live, (zero + 1)..(zero + Len(live)))
    <3>1. /\ Len(kept) = Len(live)
          /\ \A n \in 1..Len(live) : kept[n] = live[zero + n]
      <4>1. zero + Len(live) = Len(live)
        BY <1>1
      <4> QED
        BY <1>1, <4>1, IntervalKept, Zenon
    <3>2. part = kept
      BY <1>2, <2>1
    <3> QED
      BY <3>1, <3>2
  <2> QED
    BY <1>1, <1>4, <2>2
<1> QED
  BY <1>4, <1>8, <1>9, <1>10 DEF part

LEMMA GitHubCollect ==
  ASSUME TypeOK, ListingSorted, conf.type = "github", NEW limit \in Limits,
         NEW missing \in Incomplete, Collect(limit, missing)
  PROVE  /\ TypeOK' /\ ListingSorted'
         /\ IssuesRead => IssuesRead'
<1> DEFINE w == cursor.watermark
           pp == GitHub!Lesser(MaxPerPage,
                               IF cursor.perPage = 0 THEN limit ELSE cursor.perPage)
           part == Left(missing)
           found == GitHub!Matches(cursor, part)
           listed == First(found, SearchCap)
           start == (cursor.page - 1) * pp
           items == First(Beyond(listed, start), pp)
           selected == First(Beyond(items, cursor.offset), limit)
           end == cursor.offset + Len(selected)
           rest == end < Len(items)
           another == /\ items # << >>
                      /\ Len(items) = pp
                      /\ cursor.page * pp < GitHub!Lesser(Len(found), SearchCap)
           latest == GitHub!Latest(selected, w)
           Held(item) == got'[item.id] = item.rev \/ item.id \in waived'
           on == rest \/ another
           next == IF rest
                   THEN [page |-> cursor.page, offset |-> end, perPage |-> pp,
                         watermark |-> w]
                   ELSE IF another
                   THEN [page |-> cursor.page + 1, offset |-> 0, perPage |-> pp,
                         watermark |-> w]
                   ELSE [page |-> 1, offset |-> 0, perPage |-> pp, watermark |-> latest]
<1>1. /\ live \in Seq(Item) /\ Len(live) \in Nat /\ DOMAIN live = 1..Len(live)
      /\ \A k \in 1..Len(live) : live[k].at \in Nat /\ live[k].at <= now
      /\ \A j, k \in 1..Len(live) : j < k => live[j].at >= live[k].at
      /\ now \in Nat
  <2>1. now \in Nat
    BY Constants DEF TypeOK
  <2> QED
    BY <2>1, ListingFacts, ListingOrder DEF ByUpdate, Listed
<1>2. /\ cursor.page \in Nat \ {0} /\ cursor.offset \in Nat
      /\ cursor.perPage \in Nat /\ w \in Nat
      /\ cursor.perPage <= MaxPerPage
      /\ cursor.offset # 0 => cursor.offset < cursor.perPage
  BY GitHubCursor
<1>3. limit \in Nat \ {0} /\ SearchCap \in Nat /\ MaxPerPage \in Nat \ {0}
  BY Constants
<1>4. /\ pp \in Nat \ {0} /\ pp <= MaxPerPage
      /\ cursor.perPage # 0 => pp = cursor.perPage
      /\ cursor.page - 1 \in Nat
  BY <1>2, <1>3 DEF GitHub!Lesser
<1>5. start \in Nat /\ start + pp = cursor.page * pp
  <2> HIDE DEF pp
  <2> QED
    BY <1>2, <1>4
<1>20. /\ part \in Seq(Item) /\ Len(part) \in Nat
       /\ \A j, k \in 1..Len(part) : j < k => part[j].at >= part[k].at
       /\ \A n \in 1..Len(part) :
            \E k \in 1..Len(live) : n <= k /\ part[n] = live[k]
       /\ missing = {} => part = live
  BY LeftOrder
<1> HIDE DEF part
<1>6. PICK c : Finds(found, part, w, c)
  BY <1>2, <1>20, IssueSearch
<1> HIDE DEF w, pp, start, found
<1>7. /\ c \in 0..Len(part) /\ found \in Seq(Item) /\ Len(found) = c
      /\ Sublist(found, OldestFirst(part))
      /\ \A k \in 1..Len(part) : part[k].at >= w <=> k <= c
      /\ \A n \in 1..c : c + 1 - n \in 1..c /\ found[n] = part[c + 1 - n]
  BY <1>6 DEF Finds
<1>8. /\ listed \in Seq(Item) /\ Len(listed) <= Len(found)
      /\ \A k \in 1..Len(listed) : listed[k] = found[k]
      /\ Sublist(listed, found)
  BY <1>3, <1>7, FirstProperties, PartsAreSublists
<1> HIDE DEF listed
<1>9. /\ items \in Seq(Item) /\ Len(items) \in Nat /\ Len(items) <= pp
      /\ \A k \in 1..Len(items) : start + k \in 1..Len(listed) /\ items[k] = listed[start + k]
      /\ Sublist(items, listed)
  <2>1. listed \in Seq(Item) /\ start \in Nat /\ pp \in Nat
    BY <1>4, <1>5, <1>8
  <2> QED
    BY <2>1, SliceProperties, Zenon
<1> HIDE DEF items
<1>10. /\ selected \in Seq(Item) /\ Len(selected) \in Nat
       /\ \A k \in 1..Len(selected) :
            cursor.offset + k \in 1..Len(items) /\ selected[k] = items[cursor.offset + k]
       /\ Sublist(selected, items)
  <2>1. items \in Seq(Item) /\ cursor.offset \in Nat /\ limit \in Nat
    BY <1>2, <1>3, <1>9
  <2> QED
    BY <2>1, SliceProperties, Zenon
<1> HIDE DEF selected
<1>11. Sublist(selected, OldestFirst(part))
  <2>1. Sublist(selected, listed)
    BY <1>9, <1>10, SublistTransitive
  <2>2. Sublist(selected, found)
    BY <1>8, <2>1, SublistTransitive
  <2> QED
    BY <1>7, <2>2, SublistTransitive
<1>12. \A k \in 1..Len(selected) :
         /\ start + cursor.offset + k \in 1..c
         /\ selected[k] = found[start + cursor.offset + k]
  <2> SUFFICES ASSUME NEW k \in 1..Len(selected)
               PROVE  /\ start + cursor.offset + k \in 1..c
                      /\ selected[k] = found[start + cursor.offset + k]
    OBVIOUS
  <2> DEFINE n == cursor.offset + k
             i == start + n
  <2>1. n \in 1..Len(items) /\ selected[k] = items[n]
    BY <1>10
  <2>2. i = start + cursor.offset + k
    BY <1>2, <1>5, <1>10
  <2> HIDE DEF n
  <2>3. i \in 1..Len(listed) /\ items[n] = listed[i]
    BY <1>9, <2>1
  <2>4. listed[i] = found[i] /\ i \in 1..c
    BY <1>7, <1>8, <2>3
  <2> QED
    BY <2>1, <2>2, <2>3, <2>4
<1>13. \A k \in 1..Len(selected) : \E j \in 1..Len(live) : selected[k] = live[j]
  <2> SUFFICES ASSUME NEW k \in 1..Len(selected)
               PROVE  \E j \in 1..Len(live) : selected[k] = live[j]
    OBVIOUS
  <2> DEFINE n == start + cursor.offset + k
  <2>1. n \in 1..c /\ selected[k] = found[n]
    BY <1>12
  <2> HIDE DEF n
  <2>2. c + 1 - n \in 1..c /\ found[n] = part[c + 1 - n]
    BY <1>7, <2>1
  <2>3. c + 1 - n \in 1..Len(part)
    BY <1>7, <1>20, <2>2
  <2>4. PICK k2 \in 1..Len(live) : part[c + 1 - n] = live[k2]
    BY <1>20, <2>3
  <2> QED
    BY <2>1, <2>2, <2>4
<1>14. /\ latest \in Nat
       /\ latest = w \/ \E k \in 1..Len(selected) : latest = selected[k].at
  <2>1. \A k \in 1..Len(selected) : selected[k].at <= now
    BY <1>1, <1>13
  <2>2. w \in Nat
    BY <1>2
  <2> QED
    BY <1>1, <1>10, <2>1, <2>2, LatestProperties
<1> HIDE DEF latest
<1>15. end \in Nat /\ (end # 0 /\ rest => end < pp)
  BY <1>2, <1>4, <1>9, <1>10
<1>16. Returns(limit, missing, selected, next, on)
  <2>1. Page(limit, missing) = GitHub!Collect(cursor, part, limit)
    BY GitHubCase DEF part
  <2>2. GitHub!Collect(cursor, part, limit)
          = Result(Events(selected, "source"), {}, next, on)
    BY GitHubListing, Zenon
       DEF GitHub!Collect, GitHub!Event, GitHub!WalkOn, ServedPage, Events,
           w, pp, start, found, listed, items, selected, latest
  <2>3. on \in BOOLEAN
    OBVIOUS
  <2> HIDE DEF next, on
  <2> QED
    BY <1>11, <2>1, <2>2, <2>3 DEF Returns, part
<1>21. /\ rest => start + end < c
       /\ another => start + pp <= c
  <2>1. ASSUME rest
        PROVE  start + end < c
    <3>1. Len(items) \in 1..Len(items)
      BY <1>9, <1>15, <2>1
    <3>2. start + Len(items) \in 1..Len(listed) /\ Len(listed) \in Nat
      BY <1>8, <1>9, <3>1
    <3> HIDE DEF end
    <3> QED
      BY <1>5, <1>7, <1>8, <1>9, <1>15, <1>20, <2>1, <3>2
  <2>2. ASSUME another
        PROVE  start + pp <= c
    <3>1. cursor.page * pp < GitHub!Lesser(Len(found), SearchCap)
      BY <2>2
    <3>2. cursor.page * pp \in Nat /\ start + pp \in Nat
      BY <1>4, <1>5
    <3> DEFINE m == cursor.page * pp
    <3>3. m < GitHub!Lesser(c, SearchCap)
      BY <1>7, <3>1
    <3> HIDE DEF m
    <3>4. m < c \/ (m < SearchCap /\ SearchCap < c)
      <4>1. c \in Nat /\ SearchCap \in Nat /\ m \in Nat
        BY <1>3, <1>7, <1>20, <3>2 DEF m
      <4>2. GitHub!Lesser(c, SearchCap) = IF c <= SearchCap THEN c ELSE SearchCap
        BY Zenon DEF GitHub!Lesser
      <4>3. CASE c <= SearchCap
        <5>1. GitHub!Lesser(c, SearchCap) = c
          BY <4>2, <4>3
        <5>2. m < c
          BY <3>3, <5>1, Zenon
        <5> QED
          BY <5>2
      <4>4. CASE ~(c <= SearchCap)
        <5>1. GitHub!Lesser(c, SearchCap) = SearchCap
          BY <4>2, <4>4
        <5> QED
          BY <3>3, <4>1, <4>4, <5>1
      <4> QED
        BY <4>3, <4>4
    <3>5. start + pp = m /\ m \in Nat
      BY <1>5, <3>2 DEF m
    <3> QED
      BY <1>3, <1>7, <1>20, <3>4, <3>5
  <2> QED
    BY <2>1, <2>2
<1> HIDE DEF end, rest, another
<1>17. /\ cursor' = next /\ conf' = conf /\ live' = live /\ now' = now
       /\ \A n \in 1..Len(selected) : got'[selected[n].id] = selected[n].rev
       /\ \A k \in 1..Len(live) : Current(live[k]) => Current(live[k])'
       /\ missing # {} => \A k \in 1..Len(live) : Current(live[k])'
       /\ missing = {} => waived' = waived
       /\ CursorOK' => TypeOK'
       /\ ListingSorted'
  <2> HIDE DEF next, on
  <2> QED
    BY <1>16, CallEffect
<1>22. /\ \A k \in 1..Len(live) : Current(live[k]) => Held(live[k])
       /\ missing # {} => \A k \in 1..Len(live) : Held(live[k])
  <2> HIDE DEF next, on
  <2> QED
    BY <1>17 DEF Current
<1>18. CursorOK'
  <2>1. GitHub!CursorOK(next)
    <3>1. /\ {end, pp, w, latest, 0} \subseteq Nat
          /\ {cursor.page, cursor.page + 1, 1} \subseteq Nat \ {0}
      BY <1>2, <1>4, <1>14, <1>15
    <3>2. pp \in 0..MaxPerPage
      BY <1>3, <1>4
    <3> QED
      BY <1>15, <3>1, <3>2 DEF GitHub!CursorOK
  <2> HIDE DEF next
  <2>2. conf'.type = "github" /\ cursor' = next
    BY <1>17
  <2> QED
    BY <2>1, <2>2, Zenon DEF CursorOK
<1>19. ASSUME IssuesRead
       PROVE  IssuesRead'
  <2> DEFINE passed == (cursor.page - 1) * cursor.perPage + cursor.offset
             gone == (cursor'.page - 1) * cursor'.perPage + cursor'.offset
             all == GitHub!Matches(cursor, live)
             later == GitHub!Matches(cursor', live')
  <2>1. /\ w <= now
        /\ Walking => cursor.perPage > 0
        /\ passed <= Len(all)
        /\ \A k \in 1..passed : Current(all[k])
        /\ \A k \in DOMAIN live : live[k].at < w => Current(live[k])
        /\ ~conf.partial => waived = {}
    BY <1>19 DEF IssuesRead, w
  <2>2. passed = start + cursor.offset /\ passed \in Nat
    <3>1. CASE cursor.perPage = 0
      <4>1. cursor.page - 1 = 0 /\ cursor.offset = 0
        BY <2>1, <3>1, GitHubCase
      <4>2. start = 0
        BY <1>4, <4>1 DEF start
      <4> QED
        BY <3>1, <4>1, <4>2
    <3>2. CASE cursor.perPage # 0
      BY <1>2, <1>4, <1>5, <3>2 DEF start
    <3> QED
      BY <3>1, <3>2
  <2> HIDE DEF passed
  <2>3. ~conf'.partial => waived' = {}
    BY <1>17, <2>1, LeftProperties
  <2>4. PICK d : Finds(all, live, w, d)
    BY <1>1, <1>2, IssueSearch DEF w
  <2>5. /\ d \in 0..Len(live) /\ Len(all) = d /\ c <= d
        /\ \A n \in 1..d : d + 1 - n \in 1..Len(live) /\ all[n] = live[d + 1 - n]
        /\ missing = {} => all = found /\ c = d
    <3>1. /\ d \in 0..Len(live) /\ Len(all) = d
          /\ \A k \in 1..Len(live) : live[k].at >= w <=> k <= d
          /\ \A n \in 1..d : d + 1 - n \in 1..d /\ all[n] = live[d + 1 - n]
      BY <2>4 DEF Finds
    <3>2. ASSUME c # 0
          PROVE  c <= d
      <4>1. c \in 1..Len(part)
        BY <1>7, <1>20, <3>2
      <4>2. part[c].at >= w
        BY <1>7, <1>20, <4>1
      <4>3. PICK k \in 1..Len(live) : c <= k /\ part[c] = live[k]
        BY <1>20, <4>1
      <4> QED
        <5>1. live[k].at >= w
          BY <4>2, <4>3
        <5>2. k <= d
          BY <3>1, <5>1
        <5> QED
          BY <1>1, <1>7, <1>20, <3>1, <4>3, <5>2
    <3>3. missing = {} => all = found /\ c = d
      BY <1>7, <1>20, <3>1 DEF found
    <3>4. \A n \in 1..d : d + 1 - n \in 1..Len(live)
      BY <1>1, <3>1
    <3> HIDE DEF all
    <3> QED
      BY <1>1, <3>1, <3>2, <3>3, <3>4
  <2> HIDE DEF all
  <2>6. \A k \in DOMAIN live : live[k].at < w => Current(live[k])'
    BY <1>1, <1>17, <2>1
  <2>7. ASSUME NEW n \in 1..c, n <= passed + Len(selected)
        PROVE  Held(all[n])
    <3>1. n \in 1..d
      BY <1>1, <1>7, <1>20, <2>5
    <3>2. PICK j \in 1..Len(live) : all[n] = live[j]
      BY <2>5, <3>1
    <3>3. CASE missing # {}
      BY <1>22, <3>2, <3>3
    <3>4. CASE missing = {} /\ n <= passed
      <4>1. n \in 1..passed
        BY <2>2, <3>4
      <4>2. Current(live[j])
        BY <2>1, <3>2, <4>1 DEF Current
      <4> QED
        BY <1>22, <3>2, <4>2
    <3>5. CASE missing = {} /\ n > passed
      <4> DEFINE k == n - passed
      <4>1. k \in 1..Len(selected) /\ passed + k = n
        <5>1. n \in Nat /\ passed \in Nat /\ Len(selected) \in Nat
          BY <1>7, <1>10, <1>20, <2>2, <2>7
        <5> QED
          BY <2>7, <3>5, <5>1
      <4> HIDE DEF k
      <4>2. selected[k] = found[n]
        BY <1>12, <2>2, <4>1
      <4>3. selected[k] = all[n]
        BY <2>5, <3>5, <4>2
      <4> QED
        BY <1>17, <4>1, <4>3
    <3> QED
      BY <1>7, <1>20, <2>2, <3>3, <3>4, <3>5
  <2>8. CASE rest \/ another
    <3>1. /\ cursor'.watermark = w /\ cursor'.perPage = pp
          /\ rest => cursor'.page = cursor.page /\ cursor'.offset = end
          /\ ~rest => cursor'.page = cursor.page + 1 /\ cursor'.offset = 0
      <4>1. CASE rest
        <5>1. cursor' = [page |-> cursor.page, offset |-> end, perPage |-> pp,
                         watermark |-> w]
          BY <1>17, <4>1
        <5> QED
          BY <4>1, <5>1
      <4>2. CASE ~rest
        <5>1. cursor' = [page |-> cursor.page + 1, offset |-> 0, perPage |-> pp,
                         watermark |-> w]
          BY <1>17, <2>8, <4>2
        <5> QED
          BY <4>2, <5>1
      <4> QED
        BY <4>1, <4>2
    <3>2. later = all
      BY <1>17, <3>1, Zenon DEF GitHub!Matches, all, w
    <3>3. gone \in 0..c /\ gone <= passed + Len(selected)
      <4>1. CASE rest
        <5>1. gone = start + end
          <6>1. (cursor'.page - 1) * cursor'.perPage = start /\ cursor'.offset = end
            BY <3>1, <4>1 DEF start
          <6> QED
            BY <6>1
        <5>2. start + end = passed + Len(selected)
          BY <1>2, <1>5, <1>10, <2>2 DEF end
        <5>3. start + end < c /\ start + end \in Nat
          BY <1>5, <1>15, <1>21, <4>1
        <5> HIDE DEF gone
        <5> QED
          BY <1>7, <1>20, <5>1, <5>2, <5>3
      <4>2. CASE ~rest
        <5>1. gone = start + pp
          <6>1. (cursor'.page - 1) * cursor'.perPage = cursor.page * pp
            BY <1>2, <1>4, <3>1, <4>2
          <6> QED
            BY <1>4, <1>5, <3>1, <4>2, <6>1
        <5>2. start + pp <= passed + Len(selected) /\ start + pp \in Nat
          <6>1. end >= pp
            BY <1>9, <1>15, <2>8, <4>2 DEF rest, another
          <6> QED
            BY <1>2, <1>4, <1>5, <1>10, <2>2, <6>1, SMTT(30) DEF end
        <5>3. start + pp <= c
          BY <1>21, <2>8, <4>2
        <5> HIDE DEF gone
        <5> QED
          BY <1>7, <1>20, <5>1, <5>2, <5>3
      <4> QED
        BY <4>1, <4>2
    <3> HIDE DEF gone
    <3>4. \A n \in 1..gone : Held(later[n])
      <4> SUFFICES ASSUME NEW n \in 1..gone
                   PROVE  Held(later[n])
        OBVIOUS
      <4>1. n \in 1..c /\ n <= passed + Len(selected)
        BY <1>7, <1>10, <1>20, <2>2, <3>3
      <4>2. Held(all[n])
        BY <2>7, <4>1
      <4> QED
        BY <3>2, <4>2
    <3>5. cursor'.perPage > 0
      BY <1>4, <3>1
    <3>6. gone <= Len(later)
      BY <1>7, <1>20, <2>5, <3>2, <3>3
    <3> HIDE DEF later, next, on
    <3> QED
      BY <1>17, <2>1, <2>3, <2>6, <3>1, <3>4, <3>5, <3>6
         DEF IssuesRead, Current, gone, later
  <2>9. CASE ~rest /\ ~another
    <3>1. cursor' = [page |-> 1, offset |-> 0, perPage |-> pp, watermark |-> latest]
      BY <1>17, <2>9
    <3>2. /\ cursor'.watermark = latest /\ cursor'.perPage = pp
          /\ cursor'.page = 1 /\ cursor'.offset = 0
      BY <3>1
    <3>3. (cursor'.page - 1) * cursor'.perPage + cursor'.offset = 0
      BY <1>4, <3>2
    <3>4. PICK b : Finds(later, live, latest, b)
      <4>1. \E b : Finds(GitHub!Matches(cursor', live), live, cursor'.watermark, b)
        BY <1>1, <1>14, <3>2, IssueSearch
      <4> QED
        BY <1>17, <3>2, <4>1
    <3>5. Len(later) \in Nat
      BY <3>4 DEF Finds
    <3>6. latest <= now
      BY <1>1, <1>13, <1>14, <2>1
    <3>7. ~Walking'
      <4>1. conf'.type = "github"
        BY <1>17
      <4> QED
        BY <3>2, <4>1, Zenon DEF Walking, GitHub!Walking
    <3>8. ASSUME NEW k \in 1..Len(live), live[k].at < latest
          PROVE  Held(live[k])
      <4>1. CASE live[k].at < w
        BY <1>1, <1>22, <2>1, <4>1
      <4>2. CASE missing # {}
        BY <1>22, <4>2
      <4>3. CASE live[k].at >= w /\ missing = {}
        <5>0. part = live /\ all = found
          BY <1>20, <2>5, <4>3
        <5>1. k \in 1..c /\ latest # w
          BY <1>1, <1>2, <1>7, <1>14, <3>8, <4>3, <5>0
        <5>2. PICK j \in 1..Len(selected) : latest = selected[j].at
          BY <1>14, <5>1
        <5> DEFINE n == c + 1 - k
                   i == passed + j
        <5>11. /\ c \in Nat /\ start \in Nat /\ cursor.offset \in Nat
               /\ Len(selected) \in Nat /\ j \in Nat /\ passed \in Nat
          BY <1>2, <1>5, <1>7, <1>10, <1>20, <2>2
        <5>3. /\ n \in 1..c /\ c + 1 - n = k
              /\ i = start + cursor.offset + j
          BY <2>2, <5>1, <5>11
        <5>4. i \in 1..c /\ selected[j] = found[i] /\ i <= passed + Len(selected)
          <6>1. i <= passed + Len(selected)
            BY <5>11
          <6> HIDE DEF i
          <6> QED
            BY <1>12, <5>3, <6>1
        <5>5. found[n] = live[k]
          BY <1>7, <5>0, <5>3
        <5> DEFINE m == c + 1 - i
        <5>6. m \in 1..c /\ found[i] = live[m]
          BY <1>7, <5>0, <5>4
        <5>7. m \in 1..Len(live) /\ live[m].at = latest
          BY <1>1, <1>7, <5>0, <5>2, <5>4, <5>6
        <5>8. ~(k < m) /\ k # m
          BY <1>1, <1>14, <3>8, <5>7
        <5>9. n <= i /\ n \in Nat
          BY <1>1, <1>7, <5>0, <5>1, <5>3, <5>4, <5>6, <5>8
        <5>10. n \in 1..c /\ n <= passed + Len(selected)
          BY <5>3, <5>4, <5>9, <5>11
        <5> QED
          BY <2>7, <5>0, <5>5, <5>10
      <4> QED
        BY <1>1, <1>2, <4>1, <4>2, <4>3
    <3> HIDE DEF next, later
    <3> QED
      BY <1>1, <1>17, <2>3, <3>2, <3>3, <3>5, <3>6, <3>7, <3>8
         DEF IssuesRead, Current, later
  <2> QED
    BY <2>8, <2>9
<1> QED
  BY <1>17, <1>18, <1>19

-----------------------------------------------------------------------------
(* The invariant, for every collector.                                     *)
LEMMA Types ==
  ASSUME conf \in Configs
  PROVE  conf.type \in {"rss", "jsonfeed", "github", "hackernews", "reddit", "rest"}
BY CollectorsAssumption

LEMMA StaysReliable ==
  ASSUME conf' = conf
  PROVE  Reliable' <=> Reliable
BY Zenon DEF Reliable

LEMMA InvInit ==
  ASSUME Init
  PROVE  Inv
<1>1. conf \in Configs
  BY DEF Init
<1>2. /\ conf.type = "rss" => CursorOK /\ FeedRead
      /\ conf.type = "jsonfeed" => CursorOK /\ PagesRead
      /\ conf.type = "github" => CursorOK /\ IssuesRead
      /\ conf.type = "hackernews" => CursorOK /\ StoriesRead
      /\ conf.type = "reddit" => CursorOK /\ PostsRead
      /\ conf.type = "rest" => CursorOK /\ EndpointRead
  BY RSSInit, JSONFeedInit, GitHubInit, HackerNewsInit, RedditInit, RESTInit
<1>3. TypeOK
  BY <1>1, <1>2, Types, InitTypes
<1>4. ListingSorted
  BY InitListing
<1> QED
  BY <1>2, <1>3, <1>4, Zenon DEF Inv

LEMMA InvSource ==
  ASSUME Inv, SourceChange
  PROVE  Inv'
<1>1. TypeOK /\ ListingSorted
  BY DEF Inv
<1>2. TypeOK' /\ ListingSorted'
  BY <1>1, SourceKeepsOrder
<1>3. conf' = conf
  BY <1>1, SourceLeavesAlone
<1>4. Reliable' <=> Reliable
  BY <1>3, StaysReliable
<1>5. ASSUME Reliable
      PROVE  /\ conf.type = "rss" => FeedRead'
             /\ conf.type = "jsonfeed" => PagesRead'
             /\ conf.type = "github" => IssuesRead'
             /\ conf.type = "hackernews" => StoriesRead'
             /\ conf.type = "reddit" => PostsRead'
             /\ conf.type = "rest" => EndpointRead'
  <2>1. /\ conf.type = "rss" => FeedRead
        /\ conf.type = "jsonfeed" => PagesRead
        /\ conf.type = "github" => IssuesRead
        /\ conf.type = "hackernews" => StoriesRead
        /\ conf.type = "reddit" => PostsRead
        /\ conf.type = "rest" => EndpointRead
    BY <1>5, Zenon DEF Inv
  <2>2. conf.type \notin MidWalk
    BY <1>5 DEF Reliable
  <2> QED
    BY <1>1, <2>1, <2>2, RSSSource, JSONFeedSource, GitHubSource, HackerNewsSource,
       RedditSource, RESTSource
<1> QED
  BY <1>2, <1>3, <1>4, <1>5, Zenon DEF Inv

LEMMA InvCollect ==
  ASSUME Inv, NEW limit \in Limits,
         NEW missing \in Incomplete, Collect(limit, missing)
  PROVE  Inv'
<1>1. TypeOK /\ ListingSorted /\ conf \in Configs
  BY DEF Inv, TypeOK
<1>2. conf' = conf
  BY Zenon DEF Collect
<1>3. TypeOK' /\ ListingSorted'
  BY <1>1, Types, RSSCollect, JSONFeedCollect, GitHubCollect, HackerNewsCollect,
     RedditCollect, RESTCollect
<1>4. Reliable' <=> Reliable
  BY <1>2, StaysReliable
<1>5. ASSUME Reliable
      PROVE  /\ conf.type = "rss" => FeedRead'
             /\ conf.type = "jsonfeed" => PagesRead'
             /\ conf.type = "github" => IssuesRead'
             /\ conf.type = "hackernews" => StoriesRead'
             /\ conf.type = "reddit" => PostsRead'
             /\ conf.type = "rest" => EndpointRead'
  <2>1. /\ conf.type = "rss" => FeedRead
        /\ conf.type = "jsonfeed" => PagesRead
        /\ conf.type = "github" => IssuesRead
        /\ conf.type = "hackernews" => StoriesRead
        /\ conf.type = "reddit" => PostsRead
        /\ conf.type = "rest" => EndpointRead
    BY <1>5, Zenon DEF Inv
  <2>2. conf.type = "rest" => REST!Steady(conf)
    BY <1>5, Zenon DEF Reliable
  <2> QED
    BY <1>1, <2>1, <2>2, RSSCollect, JSONFeedCollect, GitHubCollect, HackerNewsCollect,
       RedditCollect, RESTCollect
<1> QED
  BY <1>2, <1>3, <1>4, <1>5, Zenon DEF Inv

LEMMA InvIdle ==
  ASSUME Inv, UNCHANGED vars
  PROVE  Inv'
<1>1. /\ conf' = conf /\ live' = live /\ published' = published /\ now' = now
      /\ cursor' = cursor /\ poll' = poll /\ more' = more /\ got' = got
      /\ redated' = redated /\ unread' = unread /\ waived' = waived
  BY DEF vars
<1>2. (Walking' <=> Walking) /\ (CursorOK' <=> CursorOK)
  BY <1>1, Zenon DEF Walking, CursorOK
<1>3. TypeOK' /\ ListingSorted'
  BY <1>1, <1>2 DEF Inv, TypeOK, ListingSorted
<1>4. /\ FeedRead => FeedRead'
      /\ StoriesRead => StoriesRead'
      /\ IssuesRead => IssuesRead'
  BY <1>1, <1>2 DEF FeedRead, StoriesRead, IssuesRead, SettledAt, Settled, Current
<1>5. PagesRead => PagesRead'
  BY <1>1, <1>2 DEF PagesRead, Above, SettledUpTo, SettledAt, Settled
<1>6. PostsRead => PostsRead'
  BY <1>1, <1>2 DEF PostsRead, DownTo, Anchored, SettledUpTo, SettledAt, Settled
<1>7. EndpointRead => EndpointRead'
  BY <1>1, <1>2, Zenon DEF EndpointRead, HeadSettled, Above, DownTo, Anchored,
                           SettledUpTo, SettledAt, Settled
<1>8. Reliable' <=> Reliable
  BY <1>1, StaysReliable
<1> QED
  BY <1>1, <1>3, <1>4, <1>5, <1>6, <1>7, <1>8, Zenon DEF Inv

(* The inductive invariant holds in every state: what a collector has      *)
(* passed, remembers or holds a validator of was collected (Inv).          *)
THEOREM InvHolds == Spec => []Inv
<1>1. Init => Inv
  BY InvInit
<1>2. Inv /\ [Next]_vars => Inv'
  <2> SUFFICES ASSUME Inv, [Next]_vars
               PROVE  Inv'
    OBVIOUS
  <2>1. CASE Next
    <3>1. \/ SourceChange
          \/ \E limit \in Limits, missing \in Incomplete : Collect(limit, missing)
      BY <2>1, Zenon DEF Next, SourceChange
    <3> QED
      BY <3>1, InvSource, InvCollect
  <2>2. CASE UNCHANGED vars
    BY <2>2, InvIdle
  <2> QED
    BY <2>1, <2>2
<1> QED
  BY <1>1, <1>2, PTL DEF Spec

(* Every collector resumes from a cursor of its own making, and commits    *)
(* only what the source listed (TypeOK).                                   *)
THEOREM TypesAreKept == Spec => []TypeOK
<1>1. Inv => TypeOK
  BY DEF Inv
<1> QED
  BY <1>1, InvHolds, PTL

-----------------------------------------------------------------------------
(* What is settled down to the first item of a listing is all of it.       *)
LEMMA AllIsSettled ==
  ASSUME TypeOK, ListingSorted, conf.type \notin {"github", "rss"},
         Len(live) # 0 => SettledUpTo(live[1].id, DOMAIN live)
  PROVE  \A k \in DOMAIN live : Settled(live[k])
<1>1. Len(live) \in Nat /\ DOMAIN live = 1..Len(live)
  BY ListingFacts
<1> SUFFICES ASSUME NEW k \in 1..Len(live)
             PROVE  Settled(live[k])
  BY <1>1
<1>2. 1 \in 1..Len(live) /\ 1 <= k /\ Len(live) # 0
  BY <1>1
<1>3. live[k].id <= live[1].id
  BY <1>2, BelowIsOlder
<1> QED
  BY <1>1, <1>2, <1>3 DEF SettledUpTo

LEMMA ValidatorsAreRead ==
  ASSUME Inv, Reliable, NotModified, conf.type = "rest" => REST!Distinctive(conf)
  PROVE  \A k \in DOMAIN live : Settled(live[k])
<1>1. TypeOK /\ ListingSorted /\ conf \in Configs
  BY DEF Inv, TypeOK
<1>2. /\ live \in Seq(Item) /\ Len(live) \in Nat /\ DOMAIN live = 1..Len(live)
      /\ None \notin Seq(Item)
  BY <1>1, ListingFacts, Constants
<1>3. CASE conf.type = "rss"
  <2>1. FeedRead /\ RSS!NotModified(cursor, live)
    BY <1>3, RSSCase, Zenon DEF Inv
  <2>2. ~Walking /\ cursor.etag = live /\ cursor.etag # None
    BY <1>2, <1>3, <2>1, RSSCase DEF RSS!NotModified, RSS!Walking
  <2>3. \A k \in DOMAIN live : got[live[k].id] # 0
    BY <2>1, <2>2 DEF FeedRead
  <2> QED
    BY <2>3 DEF Settled
<1>4. CASE conf.type = "jsonfeed"
  <2> DEFINE body == JSONFeed!Body(cursor, live)
  <2>1. PagesRead /\ JSONFeed!NotModified(cursor, live)
    BY <1>4, JSONFeedCase, Zenon DEF Inv
  <2>2. ~Walking /\ cursor.etag = body /\ cursor.page = 0
    BY <1>4, <2>1, JSONFeedCase DEF JSONFeed!NotModified, JSONFeed!Walking
  <2>3. body = First(Beyond(live, 0), PageSize)
    <3>1. body = ServedPage(live, PageSize, JSONFeed!Asked(cursor))
      BY JSONFeedListing, Zenon DEF JSONFeed!Body
    <3>2. JSONFeed!Asked(cursor) = 1
      BY <2>2 DEF JSONFeed!Asked, JSONFeed!Walking
    <3>3. (1 - 1) * PageSize = 0
      BY Constants
    <3> QED
      BY <3>1, <3>2, <3>3 DEF ServedPage
  <2> HIDE DEF body
  <2>4. /\ body \in Seq(Item) /\ Len(body) \in Nat
        /\ 0 + Len(body) < Len(live) => Len(body) = PageSize
        /\ \A k \in 1..Len(body) : body[k] = live[0 + k]
    <3>1. live \in Seq(Item) /\ 0 \in Nat /\ PageSize \in Nat
      BY <1>2, Constants
    <3> QED
      BY <2>3, <3>1, SliceProperties
  <2>5. ASSUME Len(live) # 0
        PROVE  SettledUpTo(live[1].id, DOMAIN live)
    <3>1. Len(body) >= 1
      BY <1>2, <2>4, <2>5, Constants
    <3>2. body # << >> /\ body # None /\ body[1] = live[1]
      BY <1>2, <2>4, <3>1
    <3> QED
      BY <2>1, <2>2, <3>2 DEF PagesRead
  <2> QED
    BY <1>1, <1>4, <2>5, AllIsSettled
<1>5. CASE conf.type = "rest"
  <2>1. EndpointRead /\ REST!Steady(conf) /\ REST!Distinctive(conf)
    BY <1>5, Zenon DEF Inv, Reliable
  <2>2. PICK limit \in Limits : REST!NotModified(conf, cursor, live, REST!Size(conf, limit))
    BY <1>5, RESTCase, Zenon
  <2> DEFINE size == REST!Size(conf, limit)
             body == REST!Body(conf, cursor, live, size)
             exhausted == REST!Exhausted(conf, cursor, live, size)
             tag == REST!Etag(conf, cursor, live, size)
  <2>3. /\ ~REST!Walking(cursor)
        /\ cursor.etag # None => cursor.etag = tag
        /\ cursor.etag = None => cursor.modified # None
                                 /\ cursor.modified = REST!Modified(conf, live)
    BY <2>2, Zenon DEF REST!NotModified
  <2>4. cursor.page = 1 /\ cursor.after = None
    BY <2>3, Zenon DEF REST!Walking
  <2>5. tag \in {body, None} /\ REST!Modified(conf, live) \in {live, None}
    <3>1. tag = body \/ tag = None
      BY Zenon DEF REST!Etag
    <3> QED
      BY <3>1 DEF REST!Modified
  <2>6. size \in Nat \ {0}
    BY RESTSize
  <2> HIDE DEF size, tag
  <2>7. PICK c \in Nat :
          /\ body \in Seq(Item) /\ Len(body) \in Nat
          /\ \A k \in 1..Len(body) : c + k \in 1..Len(live) /\ body[k] = live[c + k]
          /\ conf.pagination = "none" => c = 0
          /\ conf.pagination = "page" => c = (cursor.page - 1) * size
          /\ conf.pagination = "cursor" =>
               IF cursor.after # None THEN StandsAt(c, cursor.after) ELSE c = 0
          /\ exhausted /\ REST!Steady(conf) => c + Len(body) >= Len(live)
          /\ ~exhausted => Len(body) >= 1
    BY <1>1, <1>5, <2>6, RESTBody
  <2> HIDE DEF body, exhausted
  <2>8. c = 0
    <3>1. (1 - 1) * size = 0
      BY <2>6
    <3>2. conf.pagination = "page" => c = (1 - 1) * size
      BY <2>4, <2>7
    <3> QED
      BY <1>1, <1>5, <2>4, <2>7, <3>1, <3>2, RESTCursor
  <2>9. ASSUME Len(live) # 0
        PROVE  SettledUpTo(live[1].id, DOMAIN live)
    <3>1. /\ HeadSettled(cursor.etag, DOMAIN live)
          /\ HeadSettled(cursor.modified, DOMAIN live)
      BY <2>1, Zenon DEF EndpointRead
    <3>2. CASE cursor.etag # None
      <4>1. cursor.etag = body
        BY <2>3, <2>5, <3>2
      <4>2. Len(body) >= 1
        BY <1>2, <2>1, <2>7, <2>8, <2>9
      <4>3. body # << >> /\ body # None /\ body[1] = live[1]
        BY <1>2, <2>7, <2>8, <4>2
      <4> QED
        BY <3>1, <4>1, <4>3 DEF HeadSettled
    <3>3. CASE cursor.etag = None
      <4>1. cursor.modified = live /\ live # << >> /\ live # None
        BY <1>2, <2>3, <2>5, <2>9, <3>3
      <4> QED
        BY <3>1, <4>1 DEF HeadSettled
    <3> QED
      BY <3>2, <3>3
  <2> QED
    BY <1>1, <1>5, <2>9, AllIsSettled
<1> QED
  BY <1>1, <1>3, <1>4, <1>5, Types, GitHubCase, HackerNewsCase, RedditCase

(* The ids a collector stops at, or leaves out.                            *)
LEMMA KnownIsSettled ==
  ASSUME Inv, Reliable, conf.type \in {"jsonfeed", "reddit", "rest"},
         NEW m, Among(Known, m)
  PROVE  SettledUpTo(m, DOMAIN live)
<1>1. CASE conf.type = "jsonfeed"
  <2>1. PagesRead
    BY <1>1, Zenon DEF Inv
  <2>2. CASE Walking
    <3>1. m \in ToSet(cursor.watermark)
      BY <1>1, <2>2, JSONFeedCase, InToSet
    <3> QED
      BY <2>1, <3>1 DEF PagesRead
  <2>3. CASE ~Walking
    <3>1. m \in ToSet(cursor.seen)
      BY <1>1, <2>3, JSONFeedCase, InToSet
    <3> QED
      BY <2>1, <2>3, <3>1 DEF PagesRead
  <2> QED
    BY <2>2, <2>3
<1>2. CASE conf.type = "reddit"
  <2>1. PostsRead
    BY <1>2, Zenon DEF Inv
  <2>2. CASE Walking
    <3>1. m \in ToSet(cursor.watermark)
      BY <1>2, <2>2, RedditCase, InToSet
    <3> QED
      BY <2>1, <3>1 DEF PostsRead
  <2>3. CASE ~Walking
    <3>1. m \in ToSet(cursor.seen)
      BY <1>2, <2>3, RedditCase, InToSet
    <3> QED
      BY <2>1, <2>3, <3>1 DEF PostsRead
  <2> QED
    BY <2>2, <2>3
<1>3. CASE conf.type = "rest"
  <2>1. EndpointRead
    BY <1>3, Zenon DEF Inv
  <2>2. m \in ToSet(cursor.seen)
    BY <1>3, RESTCase, InToSet
  <2> QED
    BY <2>1, <2>2 DEF EndpointRead
<1> QED
  BY <1>1, <1>2, <1>3

LEMMA KnownIsRead ==
  ASSUME Inv, Reliable
  PROVE  NothingBehindWatermark
<1>1. TypeOK /\ ListingSorted /\ conf \in Configs
  BY DEF Inv, TypeOK
<1>2. Len(live) \in Nat /\ DOMAIN live = 1..Len(live)
  BY <1>1, ListingFacts
<1>3. ASSUME NEW k \in 1..Len(live), NEW j \in 1..k, Among(Known, live[j].id),
             conf.type # "hackernews"
      PROVE  Settled(live[k])
  <2>1. conf.type \in {"jsonfeed", "reddit", "rest"}
    BY <1>1, <1>3, Types, RSSCase, GitHubCase, NothingRemembered
  <2>2. SettledUpTo(live[j].id, DOMAIN live)
    BY <1>3, <2>1, KnownIsSettled
  <2>3. live[k].id <= live[j].id
    BY <1>1, <1>2, <2>1, BelowIsOlder
  <2> QED
    BY <1>2, <2>2, <2>3 DEF SettledUpTo
<1>4. ASSUME NEW k \in 1..Len(live), Among(Known, live[k].id)
      PROVE  Settled(live[k])
  <2>1. CASE conf.type # "hackernews"
    <3>1. k \in 1..k
      BY <1>2
    <3> QED
      BY <1>3, <1>4, <2>1, <3>1
  <2>2. CASE conf.type = "hackernews"
    <3>1. StoriesRead
      BY <2>2, Zenon DEF Inv
    <3>2. live[k].id \in ToSet(cursor.seen)
      BY <1>4, <2>2, HackerNewsCase, InToSet
    <3> QED
      BY <1>2, <3>1, <3>2 DEF StoriesRead, SettledAt
  <2> QED
    BY <2>1, <2>2
<1>5. ASSUME NEW k \in 1..Len(live), conf.type = "github",
             live[k].at < cursor.watermark
      PROVE  Current(live[k])
  <2>1. IssuesRead
    BY <1>5, Zenon DEF Inv
  <2> QED
    BY <1>2, <1>5, <2>1 DEF IssuesRead
<1> QED
  BY <1>2, <1>3, <1>4, <1>5 DEF NothingBehindWatermark

(* A walk through a feed is not resumed behind what was not read.          *)
LEMMA ResumesBehindRead ==
  ASSUME Inv, Reliable
  PROVE  ChangedFeedRestarts
<1> SUFFICES ASSUME conf.type = "rss", Walking, NEW n \in 1..RSS!Resume(cursor, live)
             PROVE  got[live[n].id] # 0
  BY Zenon DEF ChangedFeedRestarts
<1>1. TypeOK /\ CursorOK /\ FeedRead
  BY Zenon DEF Inv, TypeOK
<1>2. Len(live) \in Nat /\ DOMAIN live = 1..Len(live)
  BY <1>1, ListingFacts
<1>3. cursor.offset \in Nat /\ cursor.offset # 0 /\ cursor.anchor # None
  BY <1>1, RSSCase DEF RSS!CursorOK
<1>4. /\ RSS!Resume(cursor, live) = cursor.offset
      /\ cursor.offset \in 1..Len(live)
      /\ live[cursor.offset].id = cursor.anchor
  <2>1. RSS!Resume(cursor, live) # 0
    <3>1. \A m \in Nat : n \in 1..m => m # 0
      OBVIOUS
    <3>2. RSS!Resume(cursor, live) \in Nat
      BY <1>3 DEF RSS!Resume
    <3> QED
      BY <3>1, <3>2
  <2>2. /\ RSS!Resume(cursor, live) = cursor.offset
        /\ ~(cursor.offset > Len(live)) /\ live[cursor.offset].id = cursor.anchor
    BY <1>3, <2>1 DEF RSS!Resume
  <2> QED
    BY <1>2, <1>3, <2>2
<1> QED
  BY <1>1, <1>2, <1>4 DEF FeedRead

(* A 304 Not Modified never hides an item that was not collected from a    *)
(* source that keeps in place what a walk has read, if no validator of a   *)
(* part stands for the whole (ValidatorHidesNothing).                      *)
THEOREM ValidatorsAreHonest ==
  Spec => [](Reliable /\ (conf.type = "rest" => REST!Distinctive(conf))
               => ValidatorHidesNothing)
<1>1. Inv => (Reliable /\ (conf.type = "rest" => REST!Distinctive(conf))
                => ValidatorHidesNothing)
  BY ValidatorsAreRead DEF ValidatorHidesNothing
<1> QED
  BY <1>1, InvHolds, PTL

(* A walk ends only before what was collected: behind the first id a       *)
(* collector remembers, and before the watermark of a search, nothing is   *)
(* left, but for what a search left out that called itself incomplete, if  *)
(* a REST endpoint numbers pages of one size (NothingBehindWatermark).     *)
THEOREM WalksEndAtCollected == Spec => [](Reliable => NothingBehindWatermark)
<1>1. Inv => (Reliable => NothingBehindWatermark)
  BY KnownIsRead
<1> QED
  BY <1>1, InvHolds, PTL

(* An RSS walk begins again when entries that were not read came before    *)
(* its place, as long as those up to its anchor are not removed or         *)
(* reordered (ChangedFeedRestarts).                                        *)
THEOREM FeedsRestart == Spec => [](Reliable => ChangedFeedRestarts)
<1>1. Inv => (Reliable => ChangedFeedRestarts)
  BY ResumesBehindRead
<1> QED
  BY <1>1, InvHolds, PTL
=============================================================================
