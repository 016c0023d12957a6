--------------------------- MODULE RequestsProofs ---------------------------
(***************************************************************************)
(* For any number of requests, permits and attempts, any delays and any    *)
(* deadlines: permits are not lost, nothing is sent late or before the     *)
(* server allows it, nobody sleeps beyond the deadline, and one request    *)
(* costs a bounded number of them.                                         *)
(***************************************************************************)
EXTENDS Requests, TLAPS, FiniteSetTheorems, SequenceTheorems

USE RequestsAssumption

LEMMA Constants ==
  /\ Capacity \in Nat /\ MaxAttempts \in Nat /\ MaxAttempts >= 1 /\ MaxDelay \in Nat
  /\ Total \in Nat /\ None \notin Nat /\ Deadlines \subseteq Nat \cup {None}
  /\ Backoffs \subseteq 0..MaxDelay /\ RetryAfters \subseteq Nat /\ Revocations \in Nat
OBVIOUS

LEMMA Multiples ==
  ASSUME NEW m \in Nat
  PROVE  /\ 2 * m \in Nat /\ 0 <= 2 * m /\ m <= 2 * m /\ 1 * m = m
         /\ \A s, p, a \in Nat : s <= p + a /\ p <= 2 * m /\ a <= m => s <= 3 * m
OBVIOUS

-----------------------------------------------------------------------------
InQueue(q) == {q[k] : k \in DOMAIN q}

(* Without its first member a queue has the others, each still once. *)
LEMMA TailOfQueue ==
  ASSUME NEW q \in Seq(Numbers), q # << >>,
         \A j, k \in DOMAIN q : q[j] = q[k] => j = k
  PROVE  /\ Tail(q) \in Seq(Numbers) /\ Head(q) \in Numbers
         /\ \A j, k \in DOMAIN Tail(q) : Tail(q)[j] = Tail(q)[k] => j = k
         /\ InQueue(Tail(q)) = InQueue(q) \ {Head(q)}
         /\ Head(q) \in InQueue(q)
<1> DEFINE t == Tail(q)
<1>1. /\ t \in Seq(Numbers) /\ Head(q) \in Numbers /\ Head(q) = q[1]
      /\ Len(q) \in Nat \ {0} /\ Len(t) = Len(q) - 1
      /\ DOMAIN q = 1..Len(q) /\ DOMAIN t = 1..Len(t)
      /\ \A k \in 1..Len(t) : t[k] = q[k + 1]
  BY HeadTailProperties, LenProperties, EmptySeq
<1> HIDE DEF t
<1>2. \A j, k \in DOMAIN t : t[j] = t[k] => j = k
  <2> SUFFICES ASSUME NEW j \in DOMAIN t, NEW k \in DOMAIN t, t[j] = t[k]
               PROVE  j = k
    OBVIOUS
  <2>1. j + 1 \in DOMAIN q /\ k + 1 \in DOMAIN q /\ q[j + 1] = q[k + 1]
    BY <1>1
  <2> QED
    BY <1>1, <2>1
<1>3. ASSUME NEW x \in InQueue(t)
      PROVE  x \in InQueue(q) \ {Head(q)}
  <2>1. PICK k \in DOMAIN t : x = t[k]
    BY <1>3 DEF InQueue
  <2>2. k + 1 \in DOMAIN q /\ 1 \in DOMAIN q /\ k + 1 # 1 /\ x = q[k + 1]
    BY <1>1, <2>1
  <2>3. x # q[1]
    BY <2>2
  <2> QED
    BY <1>1, <2>2, <2>3 DEF InQueue
<1>4. ASSUME NEW x \in InQueue(q) \ {Head(q)}
      PROVE  x \in InQueue(t)
  <2>1. PICK k \in DOMAIN q : x = q[k]
    BY <1>4 DEF InQueue
  <2>2. k - 1 \in DOMAIN t /\ t[k - 1] = x
    BY <1>1, <1>4, <2>1
  <2> QED
    BY <2>2 DEF InQueue
<1>5. Head(q) \in InQueue(q)
  BY <1>1 DEF InQueue
<1> QED
  BY <1>1, <1>2, <1>3, <1>4, <1>5 DEF t

(* With a newcomer at its end a queue has one member more. *)
LEMMA AppendToQueue ==
  ASSUME NEW q \in Seq(Numbers), NEW r \in Numbers, r \notin InQueue(q),
         \A j, k \in DOMAIN q : q[j] = q[k] => j = k
  PROVE  LET a == Append(q, r)
         IN  /\ a \in Seq(Numbers)
             /\ \A j, k \in DOMAIN a : a[j] = a[k] => j = k
             /\ InQueue(a) = InQueue(q) \cup {r}
<1> DEFINE a == Append(q, r)
<1>1. /\ a \in Seq(Numbers) /\ Len(q) \in Nat /\ Len(a) = Len(q) + 1
      /\ DOMAIN q = 1..Len(q) /\ DOMAIN a = 1..Len(a)
      /\ \A k \in 1..Len(q) : a[k] = q[k]
      /\ a[Len(q) + 1] = r
  BY AppendProperties, LenProperties
<1> HIDE DEF a
<1>2. \A k \in DOMAIN q : q[k] # r
  BY DEF InQueue
<1>3. \A j, k \in DOMAIN a : a[j] = a[k] => j = k
  BY <1>1, <1>2
<1>4. InQueue(a) = InQueue(q) \cup {r}
  <2>1. \A k \in DOMAIN a : k \in DOMAIN q \/ k = Len(q) + 1
    BY <1>1
  <2>2. \A k \in DOMAIN q : k \in DOMAIN a
    BY <1>1
  <2>3. Len(q) + 1 \in DOMAIN a
    BY <1>1
  <2> QED
    BY <1>1, <2>1, <2>2, <2>3 DEF InQueue
<1> QED
  BY <1>1, <1>3, <1>4 DEF a

LEMMA QueueHoldsWaiting ==
  ASSUME TypeOK
  PROVE  QueueIsWaiting <=>
           /\ InQueue(queue) = {r \in Numbers : phase[r] = "queued"}
           /\ \A j, k \in DOMAIN queue : queue[j] = queue[k] => j = k
<1>1. \A k \in DOMAIN queue : queue[k] \in Numbers
  BY LenProperties, ElementOfSeq DEF TypeOK
<1> QED
  BY <1>1 DEF QueueIsWaiting, InQueue

(* The requests that are sent are counted when one of them is added or     *)
(* taken away.                                                             *)
LEMMA SentCounted ==
  /\ Cardinality(Sent) \in Nat
  /\ \A r \in Numbers :
       /\ Cardinality(Sent \cup {r}) =
            IF r \in Sent THEN Cardinality(Sent) ELSE Cardinality(Sent) + 1
       /\ Cardinality(Sent \ {r}) =
            IF r \in Sent THEN Cardinality(Sent) - 1 ELSE Cardinality(Sent)
<1>1. IsFiniteSet(Numbers)
  BY FS_Interval, Constants DEF Numbers
<1>2. IsFiniteSet(Sent)
  BY <1>1, FS_Subset DEF Sent
<1> QED
  BY <1>2, FS_CardinalityType, FS_AddElement, FS_RemoveElement

-----------------------------------------------------------------------------
(* Queue(r) fails the request or puts it at the end of the queue. *)
LEMMA QueueEffect ==
  ASSUME TypeOK, QueueIsWaiting, NEW r \in Numbers, phase[r] # "queued", Queue(r)
  PROVE  /\ queue' \in Seq(Numbers) /\ closed' \in BOOLEAN
         /\ \E x \in {"failed", "queued"} : phase' = [phase EXCEPT ![r] = x]
         /\ QueueIsWaiting'
<1>1. /\ InQueue(queue) = {q \in Numbers : phase[q] = "queued"}
      /\ \A j, k \in DOMAIN queue : queue[j] = queue[k] => j = k
      /\ queue \in Seq(Numbers) /\ closed \in BOOLEAN
      /\ phase \in [Numbers -> {"new", "queued", "sent", "asleep", "done", "failed"}]
  BY QueueHoldsWaiting DEF TypeOK
<1>2. CASE Late
  <2>1. queue' = queue /\ phase' = [phase EXCEPT ![r] = "failed"] /\ closed' \in BOOLEAN
    BY <1>1, <1>2 DEF Queue
  <2>2. QueueIsWaiting'
    BY <1>1, <2>1 DEF QueueIsWaiting
  <2> QED
    BY <1>1, <2>1, <2>2
<1>3. CASE ~Late
  <2>1. /\ queue' = Append(queue, r) /\ phase' = [phase EXCEPT ![r] = "queued"]
        /\ closed' \in BOOLEAN
    BY <1>1, <1>3 DEF Queue, Late
  <2>2. /\ queue' \in Seq(Numbers)
        /\ \A j, k \in DOMAIN queue' : queue'[j] = queue'[k] => j = k
        /\ InQueue(queue') = InQueue(queue) \cup {r}
    BY <1>1, <2>1, AppendToQueue
  <2>3. InQueue(queue') = {q \in Numbers : phase'[q] = "queued"}
    BY <1>1, <2>1, <2>2
  <2>4. \A q \in Numbers : phase'[q] = "queued" <=> \E k \in DOMAIN queue' : queue'[k] = q
    BY <2>3 DEF InQueue
  <2> QED
    BY <1>1, <2>1, <2>2, <2>4 DEF QueueIsWaiting
<1> QED
  BY <1>2, <1>3

(* Whatever the answer, its permit is free again. *)
LEMMA ReleaseAccounts ==
  ASSUME TypeOK, PermitsAccounted, NEW r \in Numbers, Release(r),
         NEW x \in {"queued", "asleep", "done", "failed"},
         phase' = [phase EXCEPT ![r] = x]
  PROVE  permits' \in 0..Capacity /\ PermitsAccounted'
<1>1. Sent' = Sent \ {r} /\ r \in Sent
  BY DEF Sent, Release, TypeOK
<1>2. permits' = permits + 1
  BY DEF Release
<1>3. /\ Cardinality(Sent') = Cardinality(Sent) - 1 /\ Cardinality(Sent') \in Nat
      /\ permits \in 0..Capacity
  <2>1. Sent' \subseteq Sent /\ IsFiniteSet(Sent)
    <3>1. IsFiniteSet(Numbers)
      BY FS_Interval, Constants DEF Numbers
    <3> QED
      BY <1>1, <3>1, FS_Subset DEF Sent
  <2> QED
    BY <1>1, <2>1, SentCounted, FS_Subset, FS_CardinalityType DEF TypeOK
<1> QED
  BY <1>2, <1>3, SentCounted, Constants DEF PermitsAccounted

(* Nobody else begins or ends a request meanwhile. *)
LEMMA OthersAccount ==
  ASSUME TypeOK, PermitsAccounted, NEW r \in Numbers, phase[r] # "sent",
         NEW x \in {"queued", "asleep", "done", "failed"},
         phase' = [phase EXCEPT ![r] = x], permits' = permits
  PROVE  PermitsAccounted'
<1>1. Sent' = Sent
  BY DEF Sent, TypeOK
<1> QED
  BY <1>1 DEF PermitsAccounted

LEMMA InitInv == Init => Inv
<1> SUFFICES ASSUME Init PROVE Inv
  OBVIOUS
<1>1. TypeOK
  <2>1. /\ left \in Nat \cup {None} /\ permits \in 0..Capacity /\ queue \in Seq(Numbers)
        /\ bearer \in [Numbers -> 0..token] /\ token \in 0..valid /\ valid \in 0..Revocations
    BY Constants, EmptySeq DEF Init
  <2>2. /\ attempt \in [Numbers -> 1..MaxAttempts] /\ nap \in [Numbers -> 0..MaxDelay]
        /\ asked \in [Numbers -> 0..MaxDelay] /\ sends \in [Numbers -> Nat]
    BY Constants DEF Init
  <2> QED
    BY <2>1, <2>2 DEF Init, TypeOK
<1>2. PermitsAccounted
  <2>1. Sent = {}
    BY DEF Init, Sent
  <2> QED
    BY <2>1, FS_EmptySet, Constants DEF Init, PermitsAccounted
<1>3. QueueIsWaiting
  BY EmptySeq DEF Init, QueueIsWaiting
<1>4. PhasesAgree /\ NapCoversAsked /\ SleepFits
  BY DEF Init, PhasesAgree, NapCoversAsked, SleepFits
<1>5. SendsAddUp
  BY Constants DEF Init, SendsAddUp, Spent
<1> QED
  BY <1>1, <1>2, <1>3, <1>4, <1>5 DEF Inv

LEMMA BeginKeepsInv == ASSUME Inv, NEW r \in Numbers, Begin(r) PROVE Inv'
<1> USE DEF Inv
<1>1. /\ phase[r] = "new" /\ leg[r] = "api" /\ attempt[r] = 1 /\ sends[r] = 0
      /\ asked[r] = 0
      /\ UNCHANGED <<mode, left, permits, attempt, nap, asked, sends, bearer, token, valid>>
      /\ \/ leg' = leg
         \/ mode = "oauth" /\ leg' = [leg EXCEPT ![r] = "login"]
  BY DEF Begin, tokens, PhasesAgree, NapCoversAsked
<1>2. PICK x \in {"failed", "queued"} : phase' = [phase EXCEPT ![r] = x]
  BY <1>1, QueueEffect DEF Begin
<1>3. queue' \in Seq(Numbers) /\ closed' \in BOOLEAN /\ QueueIsWaiting'
  BY <1>1, QueueEffect DEF Begin
<1>4. TypeOK'
  BY <1>1, <1>2, <1>3 DEF TypeOK
<1>5. PermitsAccounted'
  BY <1>1, <1>2, OthersAccount
<1>6. PhasesAgree' /\ NapCoversAsked' /\ SleepFits'
  BY <1>1, <1>2 DEF TypeOK, PhasesAgree, NapCoversAsked, SleepFits
<1>7. SendsAddUp'
  BY <1>1, <1>2, Constants DEF TypeOK, SendsAddUp, Spent
<1> QED
  BY <1>3, <1>4, <1>5, <1>6, <1>7

LEMMA WakeKeepsInv == ASSUME Inv, NEW r \in Numbers, Wake(r) PROVE Inv'
<1> USE DEF Inv
<1>1. /\ phase[r] = "asleep" /\ nap[r] = 0 /\ asked[r] = 0 /\ attempt[r] < MaxAttempts
      /\ attempt' = [attempt EXCEPT ![r] = @ + 1]
      /\ UNCHANGED <<mode, left, permits, leg, nap, asked, sends, bearer, token, valid>>
  BY DEF Wake, tokens, PhasesAgree, NapCoversAsked, TypeOK
<1>2. PICK x \in {"failed", "queued"} : phase' = [phase EXCEPT ![r] = x]
  BY <1>1, QueueEffect DEF Wake
<1>3. queue' \in Seq(Numbers) /\ closed' \in BOOLEAN /\ QueueIsWaiting'
  BY <1>1, QueueEffect DEF Wake
<1>4. TypeOK'
  BY <1>1, <1>2, <1>3, Constants DEF TypeOK
<1>5. PermitsAccounted'
  BY <1>1, <1>2, OthersAccount
<1>6. PhasesAgree' /\ NapCoversAsked' /\ SleepFits'
  BY <1>1, <1>2 DEF TypeOK, PhasesAgree, NapCoversAsked, SleepFits
<1>7. SendsAddUp'
  BY <1>1, <1>2, Constants DEF TypeOK, SendsAddUp, Spent
<1> QED
  BY <1>3, <1>4, <1>5, <1>6, <1>7

LEMMA AcquireKeepsInv == ASSUME Inv, NEW r \in Numbers, Acquire(r) PROVE Inv'
<1> USE DEF Inv
<1>1. /\ queue # << >> /\ r = Head(queue) /\ queue' = Tail(queue)
      /\ UNCHANGED <<mode, left, leg, attempt, nap, asked, bearer, token, valid>>
      /\ permits > 0
  BY DEF Acquire, tokens
<1>2. /\ InQueue(queue) = {q \in Numbers : phase[q] = "queued"}
      /\ \A j, k \in DOMAIN queue : queue[j] = queue[k] => j = k
      /\ queue \in Seq(Numbers)
  BY QueueHoldsWaiting DEF TypeOK
<1>3. /\ queue' \in Seq(Numbers) /\ r \in InQueue(queue)
      /\ \A j, k \in DOMAIN queue' : queue'[j] = queue'[k] => j = k
      /\ InQueue(queue') = InQueue(queue) \ {r}
  BY <1>1, <1>2, TailOfQueue
<1>4. phase[r] = "queued"
  BY <1>2, <1>3
<1>5. \/ /\ phase' = [phase EXCEPT ![r] = "failed"] /\ closed' = TRUE
         /\ UNCHANGED <<permits, sends>>
      \/ /\ phase' = [phase EXCEPT ![r] = "sent"] /\ UNCHANGED closed
         /\ permits' = permits - 1
         /\ sends' = [sends EXCEPT ![r] = IF leg[r] = "login" THEN @ ELSE @ + 1]
  BY DEF Acquire, Fail
<1>6. PICK x \in {"failed", "sent"} : phase' = [phase EXCEPT ![r] = x]
  BY <1>5
<1>7. TypeOK'
  <2>1. permits \in 0..Capacity /\ sends \in [Numbers -> Nat] /\ closed \in BOOLEAN
    BY DEF TypeOK
  <2>2. permits' \in 0..Capacity
    BY <1>1, <1>5, <2>1, Constants
  <2>3. sends' \in [Numbers -> Nat]
    BY <1>5, <2>1
  <2>4. closed' \in BOOLEAN
    BY <1>5, <2>1
  <2> QED
    BY <1>1, <1>3, <1>6, <2>2, <2>3, <2>4 DEF TypeOK
<1>8. PermitsAccounted'
  <2>1. CASE phase' = [phase EXCEPT ![r] = "failed"] /\ permits' = permits
    BY <1>4, <2>1, OthersAccount
  <2>2. CASE phase' = [phase EXCEPT ![r] = "sent"] /\ permits' = permits - 1
    <3>1. Sent' = Sent \cup {r} /\ r \notin Sent
      BY <1>4, <2>2 DEF Sent, TypeOK
    <3>2. Cardinality(Sent') = Cardinality(Sent) + 1 /\ Cardinality(Sent) \in Nat
      BY <3>1, SentCounted
    <3>3. permits \in 0..Capacity
      BY DEF TypeOK
    <3> QED
      BY <2>2, <3>2, <3>3, Constants DEF PermitsAccounted
  <2> QED
    BY <1>5, <2>1, <2>2
<1>9. QueueIsWaiting'
  <2>1. InQueue(queue') = {q \in Numbers : phase'[q] = "queued"}
    BY <1>2, <1>3, <1>6 DEF TypeOK
  <2>2. \A q \in Numbers : phase'[q] = "queued" <=> \E k \in DOMAIN queue' : queue'[k] = q
    BY <2>1 DEF InQueue
  <2> QED
    BY <1>3, <2>2 DEF QueueIsWaiting
<1>10. PhasesAgree' /\ NapCoversAsked' /\ SleepFits'
  <2>1. \A q \in Numbers : q # r => sends'[q] = sends[q]
    BY <1>5 DEF TypeOK
  <2> QED
    BY <1>1, <1>4, <1>6, <2>1 DEF TypeOK, PhasesAgree, NapCoversAsked, SleepFits
<1>11. SendsAddUp'
  <2>0. sends \in [Numbers -> Nat]
    BY DEF TypeOK
  <2>1. /\ sends' \in [Numbers -> Nat]
        /\ \A q \in Numbers : q # r => sends'[q] = sends[q]
        /\ sends'[r] <= sends[r] + 1
        /\ leg[r] = "login" => sends'[r] = sends[r]
    BY <1>5, <2>0
  <2>2. /\ leg' = leg /\ attempt' = attempt /\ mode' = mode
        /\ \A q \in Numbers : /\ Spent(q) \in Nat /\ attempt[q] \in Nat /\ sends[q] \in Nat
                              /\ Spent(q)' = Spent(q)
    BY <1>1, Constants DEF TypeOK, Spent
  <2>3. /\ phase' = [phase EXCEPT ![r] = x] /\ phase[r] = "queued"
        /\ \A q \in Numbers : q # r => phase'[q] = phase[q]
        /\ phase'[r] \in {"failed", "sent"}
    BY <1>4, <1>6 DEF TypeOK
  <2> QED
    BY <2>1, <2>2, <2>3 DEF SendsAddUp
<1> QED
  BY <1>7, <1>8, <1>9, <1>10, <1>11

-----------------------------------------------------------------------------
(* An answer that ends the request. *)
LEMMA EndKeepsInv ==
  ASSUME Inv, NEW r \in Numbers, Release(r),
         NEW x \in {"done", "failed"}, phase' = [phase EXCEPT ![r] = x],
         closed' \in BOOLEAN, asked' \in [Numbers -> 0..MaxDelay],
         \A q \in Numbers : q # r => asked'[q] = asked[q],
         UNCHANGED <<mode, left, queue, leg, attempt, nap, sends, tokens>>
  PROVE  Inv'
<1> USE DEF Inv
<1>1. phase[r] = "sent" /\ permits' \in 0..Capacity /\ PermitsAccounted'
  BY ReleaseAccounts DEF Release
<1>2. UNCHANGED <<bearer, token, valid>>
  BY DEF tokens
<1>3. TypeOK'
  BY <1>1, <1>2 DEF TypeOK
<1>4. QueueIsWaiting'
  BY <1>1 DEF TypeOK, QueueIsWaiting
<1>5. PhasesAgree' /\ NapCoversAsked' /\ SleepFits'
  BY <1>1 DEF TypeOK, PhasesAgree, NapCoversAsked, SleepFits
<1>6. SendsAddUp'
  BY <1>1, Constants DEF TypeOK, SendsAddUp, Spent
<1> QED
  BY <1>1, <1>3, <1>4, <1>5, <1>6

(* A delay is bounded, and covers what the server asked for. *)
LEMMA RetryEffect ==
  ASSUME Inv, NEW r \in Numbers, Release(r),
         NEW after \in RetryAfters \cup {None}, NEW delay \in RetryDelay(after),
         Retry(r, delay),
         asked' = [asked EXCEPT ![r] = IF after = None THEN 0 ELSE Lesser(after, MaxDelay)],
         UNCHANGED <<mode, left, queue, leg, attempt, sends, tokens>>
  PROVE  Inv'
<1> USE DEF Inv
<1> DEFINE due == IF after = None THEN 0 ELSE Lesser(after, MaxDelay)
<1>1. delay \in 0..MaxDelay /\ due \in 0..MaxDelay /\ due <= delay
  <2>1. CASE after = None
    BY <2>1, Constants DEF RetryDelay
  <2>2. CASE after # None
    BY <2>2, Constants DEF RetryDelay, Lesser
  <2> QED
    BY <2>1, <2>2
<1>2. asked' = [asked EXCEPT ![r] = due]
  OBVIOUS
<1> HIDE DEF due
<1>3. asked' \in [Numbers -> 0..MaxDelay] /\ \A q \in Numbers : q # r => asked'[q] = asked[q]
  BY <1>1, <1>2 DEF TypeOK
<1>4. CASE attempt[r] >= MaxAttempts \/ ~Fits(delay)
  <2>1. phase' = [phase EXCEPT ![r] = "failed"] /\ closed' = TRUE /\ nap' = nap
    BY <1>4 DEF Retry, Fail
  <2> QED
    BY <1>3, <2>1, EndKeepsInv
<1>5. CASE ~(attempt[r] >= MaxAttempts \/ ~Fits(delay))
  <2>1. /\ phase' = [phase EXCEPT ![r] = "asleep"] /\ nap' = [nap EXCEPT ![r] = delay]
        /\ closed' = closed /\ Fits(delay) /\ attempt[r] < MaxAttempts
        /\ UNCHANGED <<bearer, token, valid>>
    BY <1>5, Constants DEF Retry, TypeOK, tokens
  <2>2. phase[r] = "sent" /\ permits' \in 0..Capacity /\ PermitsAccounted'
    BY <2>1, ReleaseAccounts DEF Release
  <2>3. TypeOK'
    BY <1>1, <1>3, <2>1, <2>2 DEF TypeOK
  <2>4. QueueIsWaiting'
    <3>1. \A q \in Numbers : phase'[q] = "queued" <=> phase[q] = "queued"
      BY <2>1, <2>2 DEF TypeOK
    <3> QED
      BY <3>1 DEF QueueIsWaiting
  <2>5. PhasesAgree' /\ NapCoversAsked'
    BY <1>1, <1>2, <2>1, <2>2 DEF TypeOK, PhasesAgree, NapCoversAsked
  <2>6. SleepFits'
    BY <2>1 DEF TypeOK, SleepFits, Fits
  <2>7. SendsAddUp'
    BY <2>1, <2>2, Constants DEF TypeOK, SendsAddUp, Spent
  <2> QED
    BY <2>2, <2>3, <2>4, <2>5, <2>6, <2>7
<1> QED
  BY <1>4, <1>5

(* An answer after which the same request is made in another way: with a   *)
(* new token, or for one.                                                  *)
LEMMA NextLegKeepsInv ==
  ASSUME Inv, NEW r \in Numbers, Release(r), Queue(r), mode = "oauth",
         NEW next \in {"api", "token", "again"}, leg' = [leg EXCEPT ![r] = next],
         \/ leg[r] = "login" /\ next = "api"
         \/ leg[r] = "api" /\ next = "token"
         \/ leg[r] = "token" /\ next = "again",
         attempt' = [attempt EXCEPT ![r] = 1], asked' = [asked EXCEPT ![r] = 0],
         bearer' \in [Numbers -> 0..token'], token' \in 0..valid,
         UNCHANGED <<mode, left, nap, sends, valid>>
  PROVE  Inv'
<1> USE DEF Inv
<1>1. phase[r] = "sent"
  BY DEF Release
<1>2. PICK x \in {"failed", "queued"} : phase' = [phase EXCEPT ![r] = x]
  BY <1>1, QueueEffect
<1>3. queue' \in Seq(Numbers) /\ closed' \in BOOLEAN /\ QueueIsWaiting'
  BY <1>1, QueueEffect
<1>4. permits' \in 0..Capacity /\ PermitsAccounted'
  BY <1>2, ReleaseAccounts
<1>5. /\ attempt' \in [Numbers -> 1..MaxAttempts] /\ asked' \in [Numbers -> 0..MaxDelay]
      /\ leg' \in [Numbers -> {"login", "api", "token", "again"}]
  BY Constants DEF TypeOK
<1>6. TypeOK'
  BY <1>2, <1>3, <1>4, <1>5 DEF TypeOK
<1>7. PhasesAgree' /\ NapCoversAsked' /\ SleepFits'
  BY <1>1, <1>2 DEF TypeOK, PhasesAgree, NapCoversAsked, SleepFits
<1>8. SendsAddUp'
  <2>1. /\ sends[r] <= Spent(r) + attempt[r] /\ attempt[r] \in 1..MaxAttempts
        /\ leg[r] = "login" => sends[r] = 0
    BY DEF TypeOK, SendsAddUp
  <2>2. leg'[r] = next /\ attempt'[r] = 1 /\ phase'[r] \in {"failed", "queued"}
    BY <1>2 DEF TypeOK
  <2>3. sends[r] <= Spent(r)' /\ Spent(r)' \in Nat
    BY <2>1, <2>2, Constants DEF Spent, TypeOK
  <2>4. \A q \in Numbers : q # r =>
          /\ Spent(q)' = Spent(q) /\ attempt'[q] = attempt[q] /\ phase'[q] = phase[q]
          /\ leg'[q] = leg[q]
    BY <1>2 DEF TypeOK, Spent
  <2>5. sends[r] \in Nat /\ sends' = sends
    BY DEF TypeOK
  <2> QED
    BY <2>2, <2>3, <2>4, <2>5 DEF SendsAddUp
<1> QED
  BY <1>3, <1>4, <1>6, <1>7, <1>8

LEMMA AnswerKeepsInv == ASSUME Inv, NEW r \in Numbers, Answer(r) PROVE Inv'
<1> USE DEF Inv
<1>0. [asked EXCEPT ![r] = 0] \in [Numbers -> 0..MaxDelay]
  BY Constants DEF TypeOK
<1>1. CASE Succeed(r)
  <2>1. closed' \in BOOLEAN
    BY <1>1 DEF Succeed, TypeOK
  <2> QED
    BY <1>0, <1>1, <2>1, EndKeepsInv DEF Succeed, TypeOK
<1>2. CASE Refuse(r)
  <2>1. closed' \in BOOLEAN
    BY <1>2 DEF Refuse, Fail
  <2> QED
    BY <1>0, <1>2, <2>1, EndKeepsInv DEF Refuse, Fail, TypeOK
<1>3. CASE Renew(r)
  <2>1. leg[r] \in {"login", "token"} /\ mode = "oauth"
    BY <1>3 DEF Renew, SendsAddUp
  <2>2. /\ token' = valid /\ token \in 0..valid /\ valid \in Nat
        /\ bearer \in [Numbers -> 0..token]
    BY <1>3 DEF Renew, TypeOK
  <2>3. bearer' = [q \in Numbers |-> valid] \/ bearer' = [bearer EXCEPT ![r] = valid]
    BY <1>3 DEF Renew
  <2>4. bearer' \in [Numbers -> 0..token'] /\ token' \in 0..valid
    BY <2>2, <2>3
  <2>5. CASE leg[r] = "login"
    BY <1>3, <2>1, <2>4, <2>5, NextLegKeepsInv DEF Renew
  <2>6. CASE leg[r] = "token"
    BY <1>3, <2>1, <2>4, <2>6, NextLegKeepsInv DEF Renew
  <2> QED
    BY <2>1, <2>5, <2>6
<1>4. CASE Reject(r)
  <2>1. CASE MayRenew(r)
    <3>1. /\ UNCHANGED <<bearer, token, valid>>
          /\ bearer \in [Numbers -> 0..token] /\ token \in 0..valid
      BY <1>4 DEF Reject, TypeOK, tokens
    <3> QED
      BY <1>4, <2>1, <3>1, NextLegKeepsInv DEF Reject, MayRenew
  <2>2. CASE ~MayRenew(r)
    <3>1. closed' \in BOOLEAN
      BY <1>4, <2>2 DEF Reject, Fail
    <3> QED
      BY <1>0, <1>4, <2>2, <3>1, EndKeepsInv DEF Reject, Fail, TypeOK
  <2> QED
    BY <2>1, <2>2
<1>5. ASSUME NEW after \in RetryAfters \cup {None}, Busy(r, after)
      PROVE  Inv'
  BY <1>5, RetryEffect DEF Busy
<1>6. CASE Lose(r)
  <2>1. asked' = [asked EXCEPT ![r] = IF None = None THEN 0 ELSE Lesser(None, MaxDelay)]
    BY <1>6 DEF Lose
  <2> QED
    BY <1>6, <2>1, RetryEffect DEF Lose
<1> QED
  BY <1>1, <1>2, <1>3, <1>4, <1>5, <1>6 DEF Answer

LEMMA TickKeepsInv == ASSUME Inv, Tick PROVE Inv'
<1> USE DEF Inv
<1>1. /\ nap' = [r \in Numbers |-> Less(nap[r])] /\ asked' = [r \in Numbers |-> Less(asked[r])]
      /\ left' = IF left = None THEN None ELSE Less(left)
      /\ UNCHANGED <<mode, closed, permits, queue, phase, leg, attempt, sends, bearer, token, valid>>
  BY DEF Tick, tokens
<1>2. /\ \A n \in 0..MaxDelay : Less(n) \in 0..MaxDelay
      /\ \A n \in Nat : Less(n) \in Nat
  BY Constants DEF Less
<1>3. TypeOK'
  BY <1>1, <1>2 DEF TypeOK
<1>4. PermitsAccounted' /\ QueueIsWaiting' /\ PhasesAgree'
  BY <1>1 DEF PermitsAccounted, Sent, QueueIsWaiting, PhasesAgree
<1>5. NapCoversAsked'
  BY <1>1, Constants DEF TypeOK, NapCoversAsked, Less
<1>6. SleepFits'
  BY <1>1, Constants DEF TypeOK, SleepFits, Less
<1>7. SendsAddUp'
  BY <1>1 DEF SendsAddUp, Spent
<1> QED
  BY <1>3, <1>4, <1>5, <1>6, <1>7

(* Between two calls nobody waits, sleeps or holds a permit. *)
LEMMA NextCallKeepsInv == ASSUME Inv, NextCall PROVE Inv'
<1> USE DEF Inv
<1>1. \A r \in Numbers : phase[r] \notin {"queued", "sent", "asleep"}
  BY DEF NextCall, Idle, Waiting
<1>2. TypeOK'
  <2>1. left' \in Nat \cup {None} /\ closed' \in BOOLEAN
    BY Constants DEF NextCall
  <2>2. /\ attempt' \in [Numbers -> 1..MaxAttempts] /\ nap' \in [Numbers -> 0..MaxDelay]
        /\ asked' \in [Numbers -> 0..MaxDelay] /\ sends' \in [Numbers -> Nat]
    BY Constants DEF NextCall
  <2>3. bearer' \in [Numbers -> 0..token]
    BY DEF NextCall, TypeOK
  <2> QED
    BY <2>1, <2>2, <2>3 DEF NextCall, TypeOK
<1>3. PermitsAccounted'
  <2>1. Sent' = Sent
    BY <1>1 DEF NextCall, Sent
  <2> QED
    BY <2>1 DEF NextCall, PermitsAccounted
<1>4. QueueIsWaiting'
  BY <1>1 DEF NextCall, QueueIsWaiting
<1>5. PhasesAgree' /\ NapCoversAsked' /\ SleepFits'
  BY DEF NextCall, PhasesAgree, NapCoversAsked, SleepFits
<1>6. SendsAddUp'
  BY Constants DEF NextCall, SendsAddUp, Spent
<1> QED
  BY <1>2, <1>3, <1>4, <1>5, <1>6

LEMMA NextInv == Inv /\ [Next]_vars => Inv'
<1> SUFFICES ASSUME Inv, [Next]_vars PROVE Inv'
  OBVIOUS
<1>1. CASE UNCHANGED vars
  BY <1>1 DEF vars, work, tokens, Inv, TypeOK, PermitsAccounted, Sent, QueueIsWaiting,
              PhasesAgree, NapCoversAsked, SendsAddUp, Spent, SleepFits
<1>2. CASE Revoke
  <2>1. /\ valid' = token + 1 /\ valid < Revocations /\ valid = token
        /\ UNCHANGED <<mode, left, closed, permits, queue, phase, leg, attempt, nap,
                       asked, sends, bearer, token>>
    BY <1>2 DEF Revoke, work
  <2>2. TypeOK'
    BY <2>1, Constants DEF Inv, TypeOK
  <2> QED
    BY <2>1, <2>2 DEF Inv, PermitsAccounted, Sent, QueueIsWaiting, PhasesAgree,
                      NapCoversAsked, SendsAddUp, Spent, SleepFits
<1> QED
  BY <1>1, <1>2, BeginKeepsInv, AcquireKeepsInv, AnswerKeepsInv, WakeKeepsInv, TickKeepsInv,
     NextCallKeepsInv DEF Next

-----------------------------------------------------------------------------
(* Permits, queue, attempts, sleeps and tokens agree in every state of any *)
(* number of requests.                                                     *)
THEOREM RequestsInv == Spec => []Inv
  BY InitInv, NextInv, PTL DEF Spec

(* No request of a collector sleeps past the deadline of its call. *)
THEOREM SleepsFit == Spec => []SleepFits
<1>1. Inv => SleepFits
  BY DEF Inv
<1> QED
  BY <1>1, RequestsInv, PTL

(* A request costs MaxAttempts HTTP requests, or three times as many where *)
(* a rejected token is renewed, however often the server revokes it.       *)
THEOREM EffortIsBounded == Spec => []EffortBounded
<1>1. Inv => EffortBounded
  <2> SUFFICES ASSUME Inv, NEW r \in Numbers
               PROVE  sends[r] <= (IF mode = "oauth" THEN 3 ELSE 1) * MaxAttempts
    BY DEF EffortBounded
  <2>1. /\ sends[r] <= Spent(r) + attempt[r]
        /\ leg[r] # "api" => mode = "oauth"
        /\ attempt[r] \in 1..MaxAttempts /\ sends[r] \in Nat
    BY DEF Inv, TypeOK, SendsAddUp
  <2>2. CASE mode = "oauth"
    <3>1. Spent(r) <= 2 * MaxAttempts /\ Spent(r) \in Nat
      BY Multiples, Constants DEF Spent
    <3>2. attempt[r] \in Nat /\ attempt[r] <= MaxAttempts
      BY <2>1, Constants
    <3>3. sends[r] <= 3 * MaxAttempts
      BY <2>1, <3>1, <3>2, Multiples, Constants
    <3> QED
      BY <2>2, <3>3
  <2>3. CASE mode # "oauth"
    <3>1. Spent(r) = 0
      BY <2>1, <2>3 DEF Spent
    <3>2. sends[r] <= MaxAttempts
      BY <2>1, <3>1, Constants
    <3>3. 1 * MaxAttempts = MaxAttempts
      BY Multiples, Constants
    <3> QED
      BY <2>3, <3>2, <3>3
  <2> QED
    BY <2>2, <2>3
<1> QED
  BY <1>1, RequestsInv, PTL

(* Only Acquire sends, and it finds a request that waits. *)
LEMMA OnlyAcquireSends ==
  ASSUME Inv, [Next]_vars, NEW r \in Numbers, phase[r] # "sent", phase'[r] = "sent"
  PROVE  Acquire(r) /\ ~Late /\ phase[r] = "queued"
<1> USE DEF Inv
<1>1. ASSUME NEW q \in Numbers, Queue(q) PROVE FALSE
  BY <1>1 DEF Queue, TypeOK
<1>2. ASSUME NEW q \in Numbers, Fail(q) PROVE FALSE
  BY <1>2 DEF Fail, TypeOK
<1>3. ASSUME NEW q \in Numbers, NEW delay, Retry(q, delay) PROVE FALSE
  BY <1>2, <1>3 DEF Retry, TypeOK
<1>4. ASSUME NEW q \in Numbers, Answer(q) PROVE FALSE
  BY <1>1, <1>2, <1>3, <1>4 DEF Answer, Succeed, Renew, Reject, Refuse, Busy, Lose, TypeOK
<1>5. ASSUME NEW q \in Numbers, Begin(q) \/ Wake(q) PROVE FALSE
  BY <1>1, <1>5 DEF Begin, Wake
<1>6. ~Tick /\ ~Revoke /\ ~NextCall /\ ~UNCHANGED vars
  BY DEF Tick, Revoke, NextCall, vars, work
<1>7. PICK q \in Numbers : Acquire(q)
  BY <1>4, <1>5, <1>6 DEF Next
<1>8. q = r /\ ~Late
  BY <1>2, <1>7 DEF Acquire, TypeOK
<1>9. phase[r] = "queued"
  <2>1. queue \in Seq(Numbers) /\ queue # << >> /\ r = Head(queue)
    BY <1>7, <1>8 DEF Acquire, TypeOK
  <2>2. 1 \in DOMAIN queue /\ queue[1] = r
    BY <2>1, LenProperties, EmptySeq, HeadTailProperties
  <2> QED
    BY <2>2 DEF QueueIsWaiting
<1> QED
  BY <1>7, <1>8, <1>9

(* However long a request waits for its permit, it is not sent once the    *)
(* deadline is over.                                                       *)
THEOREM NothingIsSentLate == Spec => NothingSentLate
<1>1. Inv /\ [Next]_vars =>
        [\A r \in Numbers : phase[r] # "sent" /\ phase'[r] = "sent" => left # 0]_vars
  BY OnlyAcquireSends DEF Late
<1> QED
  BY <1>1, RequestsInv, PTL DEF Spec, NothingSentLate

(* A request is sent again only after the delay the server asked for, cut  *)
(* to max_delay, however its attempts, permits and tokens interleave with  *)
(* those of the others.                                                    *)
THEOREM RetryAfterIsHonoured == Spec => RetryAfterHonoured
<1>1. Inv /\ [Next]_vars =>
        [\A r \in Numbers : phase[r] # "sent" /\ phase'[r] = "sent" => asked[r] = 0]_vars
  BY OnlyAcquireSends DEF Inv, NapCoversAsked
<1> QED
  BY <1>1, RequestsInv, PTL DEF Spec, RetryAfterHonoured
=============================================================================
