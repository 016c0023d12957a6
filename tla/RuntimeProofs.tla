--------------------------- MODULE RuntimeProofs ---------------------------
(* Proofs about Runtime: type correctness, the accounting of permits, the  *)
(* health rows and the rate limits, for any sources, limits and durations. *)
EXTENDS Runtime, FiniteSetTheorems, SequenceTheorems, TLAPS

(* The unprimed and primed facts that every step needs of the constants. *)
LEMMA Constants ==
  /\ Concurrency \in Nat \ {0} /\ Threshold \in Nat \ {0} /\ Interval \in Nat \ {0}
  /\ Base \in Nat \ {0} /\ Cooldown \in Nat \ {0}
  /\ Delays \subseteq Nat \ {0} /\ IsFiniteSet(Sources)
BY RuntimeAssumption DEF RuntimeAssumption

(* A power of two is a natural number: it counts the subsets of 1..n. *)
LEMMA PowerType ==
  ASSUME NEW n \in Nat
  PROVE  2^n \in Nat
<1>1. IsFiniteSet(1..n) /\ Cardinality(1..n) = n
  BY FS_Interval
<1>2. IsFiniteSet(SUBSET (1..n)) /\ Cardinality(SUBSET (1..n)) = 2^n
  BY <1>1, FS_SUBSET
<1> QED
  BY <1>2, FS_CardinalityType

LEMMA BackoffType ==
  ASSUME NEW n \in Nat \ {0}
  PROVE  Backoff(n) \in Nat
<1>1. n - 1 \in Nat
  OBVIOUS
<1>2. 2^(n - 1) \in Nat
  BY <1>1, PowerType
<1> DEFINE p == 2^(n - 1)
<1>3. p \in Nat
  BY <1>2
<1> HIDE DEF p
<1>4. Shorter(Interval, Base * p) \in Nat
  BY <1>3, Constants DEF Shorter
<1> QED
  BY <1>4 DEF Backoff, p

(* Every delay a run can end with is a natural number. *)
LEMMA DelayType ==
  ASSUME TypeOK, NEW s \in Sources
  PROVE  /\ RateLimitDelay(s) \in Nat
         /\ SuccessDelay(s) \in Nat
         /\ SuccessDelay(s) >= RateLimitDelay(s)
         /\ OneMore(s) \in 1..Threshold
         /\ \A limited \in BOOLEAN : FailureDelay(s, limited, OneMore(s)) \in Nat
<1>1. RateLimitDelay(s) \in Nat
  BY DEF TypeOK, Snapshot, NoSnapshot, RateLimitDelay
<1>2. SuccessDelay(s) \in Nat /\ SuccessDelay(s) >= RateLimitDelay(s)
  BY <1>1, Constants DEF SuccessDelay, Longer
<1>3. OneMore(s) \in 1..Threshold
  BY Constants DEF TypeOK, OneMore, Shorter
<1>4. Backoff(OneMore(s)) \in Nat
  BY <1>3, BackoffType
<1>5. ASSUME NEW limited \in BOOLEAN
      PROVE  FailureDelay(s, limited, OneMore(s)) \in Nat
  BY <1>1, <1>4, Constants DEF FailureDelay
<1> QED
  BY <1>1, <1>2, <1>3, <1>5

(* Without its first member a queue has the others, each still once. *)
LEMMA TailOfQueue ==
  ASSUME NEW q \in Seq(Sources), q # << >>,
         \A i, j \in 1..Len(q) : q[i] = q[j] => i = j
  PROVE  /\ Tail(q) \in Seq(Sources) /\ Head(q) \in Sources
         /\ \A i, j \in 1..Len(Tail(q)) : Tail(q)[i] = Tail(q)[j] => i = j
         /\ {Tail(q)[i] : i \in 1..Len(Tail(q))} = {q[i] : i \in 1..Len(q)} \ {Head(q)}
         /\ Head(q) \in {q[i] : i \in 1..Len(q)}
<1>1. /\ Tail(q) \in Seq(Sources) /\ Head(q) \in Sources
      /\ Len(Tail(q)) = Len(q) - 1 /\ Len(q) \in Nat \ {0}
      /\ \A i \in 1..Len(Tail(q)) : Tail(q)[i] = q[i + 1]
  BY HeadTailProperties, LenProperties, EmptySeq
<1>2. Head(q) = q[1]
  BY <1>1
<1>3. \A i, j \in 1..Len(Tail(q)) : Tail(q)[i] = Tail(q)[j] => i = j
  <2> SUFFICES ASSUME NEW i \in 1..Len(Tail(q)), NEW j \in 1..Len(Tail(q)),
                      Tail(q)[i] = Tail(q)[j]
               PROVE  i = j
    OBVIOUS
  <2>1. q[i + 1] = q[j + 1] /\ i + 1 \in 1..Len(q) /\ j + 1 \in 1..Len(q)
    BY <1>1
  <2> QED
    BY <2>1
<1>4. ASSUME NEW x \in {Tail(q)[i] : i \in 1..Len(Tail(q))}
      PROVE  x \in {q[i] : i \in 1..Len(q)} \ {Head(q)}
  <2>1. PICK i \in 1..Len(Tail(q)) : x = Tail(q)[i]
    BY <1>4
  <2>2. x = q[i + 1] /\ i + 1 \in 1..Len(q) /\ 1 \in 1..Len(q) /\ i + 1 # 1
    BY <1>1, <2>1
  <2>3. q[i + 1] # q[1]
    BY <2>2
  <2> QED
    BY <1>2, <2>2, <2>3
<1>5. ASSUME NEW x \in {q[i] : i \in 1..Len(q)} \ {Head(q)}
      PROVE  x \in {Tail(q)[i] : i \in 1..Len(Tail(q))}
  <2>1. PICK i \in 1..Len(q) : x = q[i]
    BY <1>5
  <2>2. i # 1
    BY <1>2, <1>5, <2>1
  <2>3. i - 1 \in 1..Len(Tail(q)) /\ (i - 1) + 1 = i
    BY <1>1, <2>2
  <2>4. Tail(q)[i - 1] = x
    BY <1>1, <2>1, <2>3
  <2> QED
    BY <2>3, <2>4
<1>6. Head(q) \in {q[i] : i \in 1..Len(q)}
  BY <1>1, <1>2
<1> QED
  BY <1>1, <1>3, <1>4, <1>5, <1>6

(* With a newcomer at its end a queue has one member more. *)
LEMMA AppendToQueue ==
  ASSUME NEW q \in Seq(Sources), NEW s \in Sources,
         \A i, j \in 1..Len(q) : q[i] = q[j] => i = j,
         s \notin {q[i] : i \in 1..Len(q)}
  PROVE  LET a == Append(q, s)
         IN  /\ a \in Seq(Sources) /\ a # << >>
             /\ \A i, j \in 1..Len(a) : a[i] = a[j] => i = j
             /\ {a[i] : i \in 1..Len(a)} = {q[i] : i \in 1..Len(q)} \cup {s}
<1> DEFINE a == Append(q, s)
<1>1. /\ a \in Seq(Sources) /\ a # << >> /\ Len(a) = Len(q) + 1 /\ Len(q) \in Nat
      /\ \A i \in 1..Len(q) : a[i] = q[i]
      /\ a[Len(q) + 1] = s
  BY AppendProperties, LenProperties
<1> HIDE DEF a
<1>2. \A i, j \in 1..Len(a) : a[i] = a[j] => i = j
  BY <1>1
<1>3. {a[i] : i \in 1..Len(a)} = {q[i] : i \in 1..Len(q)} \cup {s}
  <2>1. \A i \in 1..Len(a) : i \in 1..Len(q) \/ i = Len(q) + 1
    BY <1>1
  <2>2. \A i \in 1..Len(q) : i \in 1..Len(a)
    BY <1>1
  <2>3. Len(q) + 1 \in 1..Len(a)
    BY <1>1
  <2> QED
    BY <1>1, <2>1, <2>2, <2>3
<1> QED
  BY <1>1, <1>2, <1>3 DEF a

-----------------------------------------------------------------------------
WorkerStates == {"off", "sleeping", "waiting", "running", "done", "crashed"}

(* A set with a member more, or a member less, is counted accordingly. *)
LEMMA RunningCounted ==
  /\ IsFiniteSet(Running) /\ Cardinality(Running) \in Nat
  /\ \A s \in Sources \ Running :
       /\ IsFiniteSet(Running \cup {s})
       /\ Cardinality(Running \cup {s}) = Cardinality(Running) + 1
  /\ \A s \in Running :
       /\ IsFiniteSet(Running \ {s})
       /\ Cardinality(Running \ {s}) = Cardinality(Running) - 1
<1>1. IsFiniteSet(Running)
  BY Constants, FS_Subset DEF Running
<1> QED
  BY <1>1, FS_CardinalityType, FS_AddElement, FS_RemoveElement

(* Leaving the semaphore keeps the accounts: the permit is free again, or  *)
(* goes to the first in the queue.                                         *)
LEMMA LeaveKeepsAccounts ==
  ASSUME TypeOK, PermitsAccounted, QueueIsWaiting,
         NEW s \in Sources, worker[s] = "running",
         NEW next \in {"sleeping", "done", "crashed"}, Leave(s, next)
  PROVE  /\ worker' \in [Sources -> WorkerStates]
         /\ permits' \in 0..Concurrency
         /\ queue' \in Seq(Sources)
         /\ PermitsAccounted'
         /\ QueueIsWaiting'
         /\ worker'[s] = next
         /\ \A r \in Sources \ {s} :
              worker'[r] = worker[r] \/ (worker[r] = "waiting" /\ worker'[r] = "running")
<1>1. /\ worker \in [Sources -> WorkerStates] /\ permits \in 0..Concurrency
      /\ queue \in Seq(Sources) /\ Concurrency \in Nat
  BY Constants DEF TypeOK, WorkerStates
<1>2. s \in Running
  BY DEF Running
<1>3. permits + Cardinality(Running) = Concurrency
  BY DEF PermitsAccounted
<1>4. CASE queue = << >>
  <2>1. /\ worker' = [worker EXCEPT ![s] = next] /\ permits' = permits + 1
        /\ queue' = queue
    BY <1>4 DEF Leave
  <2>2. worker' \in [Sources -> WorkerStates]
    BY <1>1, <2>1 DEF WorkerStates
  <2>3. Running' = Running \ {s}
    BY <1>1, <2>1 DEF Running
  <2>4. Cardinality(Running') = Cardinality(Running) - 1 /\ Cardinality(Running') \in Nat
    BY <1>2, <2>3, RunningCounted, FS_CardinalityType
  <2>5. permits' \in 0..Concurrency /\ permits' + Cardinality(Running') = Concurrency
    BY <1>1, <1>3, <2>1, <2>4, RunningCounted
  <2>6. {r \in Sources : worker'[r] = "waiting"} = {r \in Sources : worker[r] = "waiting"}
    BY <1>1, <2>1
  <2>7. QueueIsWaiting'
    BY <1>4, <2>1, <2>6 DEF QueueIsWaiting, Queued
  <2> QED
    BY <1>1, <2>1, <2>2, <2>5, <2>7 DEF PermitsAccounted
<1>5. CASE queue # << >>
  <2> DEFINE h == Head(queue)
  <2>1. /\ worker' = [worker EXCEPT ![s] = next, ![h] = "running"]
        /\ permits' = permits /\ queue' = Tail(queue)
    BY <1>5 DEF Leave
  <2>2. /\ Tail(queue) \in Seq(Sources) /\ h \in Sources
        /\ \A i, j \in 1..Len(Tail(queue)) : Tail(queue)[i] = Tail(queue)[j] => i = j
        /\ {Tail(queue)[i] : i \in 1..Len(Tail(queue))} = Queued \ {h}
        /\ h \in Queued
    BY <1>1, <1>5, TailOfQueue DEF QueueIsWaiting, Queued
  <2>3. Queued = {r \in Sources : worker[r] = "waiting"} /\ permits = 0
    BY <1>5 DEF QueueIsWaiting
  <2>4. worker[h] = "waiting" /\ h # s /\ h \notin Running
    BY <2>2, <2>3 DEF Running
  <2> HIDE DEF h
  <2>5. worker' \in [Sources -> WorkerStates]
    BY <1>1, <2>1, <2>2 DEF WorkerStates
  <2>6. Running' = (Running \cup {h}) \ {s}
    BY <1>1, <2>1, <2>2, <2>4 DEF Running
  <2>7. /\ IsFiniteSet(Running \cup {h}) /\ s \in Running \cup {h}
        /\ Cardinality(Running \cup {h}) = Cardinality(Running) + 1
    BY <1>2, <2>2, <2>4, RunningCounted
  <2>8. Cardinality((Running \cup {h}) \ {s}) = Cardinality(Running \cup {h}) - 1
    BY <2>7, FS_RemoveElement
  <2>9. permits' + Cardinality(Running') = Concurrency
    BY <1>1, <1>3, <2>1, <2>6, <2>7, <2>8, RunningCounted
  <2>10. {r \in Sources : worker'[r] = "waiting"}
           = {r \in Sources : worker[r] = "waiting"} \ {h}
    BY <1>1, <2>1, <2>2, <2>4
  <2>11. QueueIsWaiting'
    <3>1. \A i, j \in 1..Len(queue') : queue'[i] = queue'[j] => i = j
      BY <2>1, <2>2
    <3>2. Queued' = Queued \ {h}
      BY <2>1, <2>2 DEF Queued
    <3>3. Queued' = {r \in Sources : worker'[r] = "waiting"}
      BY <2>3, <2>10, <3>2
    <3> QED
      BY <2>1, <2>3, <3>1, <3>3 DEF QueueIsWaiting
  <2> QED
    BY <1>1, <2>1, <2>2, <2>4, <2>5, <2>9, <2>11 DEF PermitsAccounted
<1> QED
  BY <1>4, <1>5

-----------------------------------------------------------------------------
(* A process that is down holds no permit and has an empty queue. *)
LEMMA DownKeepsInv ==
  ASSUME Inv, Down, UNCHANGED health
  PROVE  Inv'
<1>1. TypeOK'
  <2>1. up' \in BOOLEAN /\ once' \in BOOLEAN
    BY DEF Down
  <2>2. queue' \in Seq(Sources)
    BY EmptySeq DEF Down
  <2>3. /\ permits' \in 0..Concurrency
        /\ failures' \in [Sources -> 0..Threshold]
    BY Constants DEF Down
  <2>4. snapshot' \in [Sources -> Snapshot]
    BY DEF Down, Snapshot
  <2> QED
    BY <2>1, <2>2, <2>3, <2>4 DEF Down, Inv, TypeOK
<1>2. Running' = {}
  BY DEF Down, Running
<1>3. PermitsAccounted'
  BY <1>2, FS_EmptySet, Constants DEF Down, PermitsAccounted
<1>4. QueueIsWaiting'
  BY DEF Down, QueueIsWaiting, Queued
<1>5. HealthIsCurrent'
  BY DEF Down, Inv, HealthIsCurrent
<1>6. DownIsClean' /\ SleepCoversEmbargo' /\ WaitingHaveSlept' /\ SnapshotCoversEmbargo'
  BY DEF Down, NoSnapshot, DownIsClean, SleepCoversEmbargo, WaitingHaveSlept,
         SnapshotCoversEmbargo
<1> QED
  BY <1>1, <1>3, <1>4, <1>5, <1>6 DEF Inv

LEMMA InitInv == Init => Inv
<1> SUFFICES ASSUME Init PROVE Inv
  OBVIOUS
<1>1. TypeOK
  <2>1. up \in BOOLEAN /\ once \in BOOLEAN
    BY DEF Init
  <2>2. queue \in Seq(Sources)
    BY EmptySeq DEF Init
  <2>3. /\ permits \in 0..Concurrency
        /\ failures \in [Sources -> 0..Threshold]
        /\ health \in [Sources -> [status   : {"none", "healthy", "degraded", "circuit_open"},
                                   failures : 0..Threshold]]
    BY Constants DEF Init, NoHealth
  <2>4. snapshot \in [Sources -> Snapshot]
    BY DEF Init, Snapshot
  <2> QED
    BY <2>1, <2>2, <2>3, <2>4 DEF Init, TypeOK
<1>2. Running = {}
  BY DEF Init, Running
<1>3. PermitsAccounted
  BY <1>2, FS_EmptySet, Constants DEF Init, PermitsAccounted
<1>4. QueueIsWaiting
  BY DEF Init, QueueIsWaiting, Queued
<1>5. HealthIsCurrent
  BY Constants DEF Init, NoHealth, HealthIsCurrent, Circuit
<1>6. DownIsClean /\ SleepCoversEmbargo /\ WaitingHaveSlept /\ SnapshotCoversEmbargo
  BY DEF Init, NoSnapshot, DownIsClean, SleepCoversEmbargo, WaitingHaveSlept,
         SnapshotCoversEmbargo
<1> QED
  BY <1>1, <1>3, <1>4, <1>5, <1>6 DEF Inv

LEMMA StartKeepsInv ==
  ASSUME Inv, NEW single \in BOOLEAN, Start(single)
  PROVE  Inv'
<1>1. \A s \in Sources : worker[s] = "off" /\ result[s] = "none" /\ worker'[s] = "sleeping"
  BY DEF Inv, DownIsClean, Start
<1>2. TypeOK'
  <2>1. up' \in BOOLEAN /\ once' \in BOOLEAN
    BY Zenon DEF Start
  <2>2. failures' \in [Sources -> 0..Threshold]
    BY DEF Start, RestoreHealth, Inv, TypeOK
  <2>3. worker' \in [Sources -> {"off", "sleeping", "waiting", "running", "done", "crashed"}]
    BY DEF Start
  <2> QED
    BY <2>1, <2>2, <2>3 DEF Start, Inv, TypeOK
<1>3. PermitsAccounted'
  <2>1. Running = {} /\ Running' = {}
    BY <1>1 DEF Running
  <2> QED
    BY <2>1 DEF Start, Inv, PermitsAccounted
<1>4. QueueIsWaiting'
  <2>1. {s \in Sources : worker'[s] = "waiting"} = {s \in Sources : worker[s] = "waiting"}
    BY <1>1
  <2>2. queue' = queue /\ permits' = permits
    BY DEF Start
  <2> QED
    BY <2>1, <2>2 DEF Inv, QueueIsWaiting, Queued
<1>5. HealthIsCurrent'
  BY DEF Start, RestoreHealth, Inv, HealthIsCurrent
<1>6. SleepCoversEmbargo'
  BY <1>1 DEF Start, SleepCoversEmbargo
<1>7. DownIsClean' /\ WaitingHaveSlept' /\ SnapshotCoversEmbargo'
  BY <1>1 DEF Start, Inv, DownIsClean, WaitingHaveSlept, SnapshotCoversEmbargo
<1> QED
  BY <1>2, <1>3, <1>4, <1>5, <1>6, <1>7 DEF Inv

LEMMA EnterKeepsInv ==
  ASSUME Inv, NEW s \in Sources, Enter(s)
  PROVE  Inv'
<1>1. /\ worker[s] = "sleeping" /\ wait[s] = 0
      /\ UNCHANGED <<up, once, failures, wait, snapshot, result, health, embargo>>
  BY DEF Enter
<1>2. /\ TypeOK /\ PermitsAccounted /\ QueueIsWaiting
      /\ worker \in [Sources -> WorkerStates] /\ queue \in Seq(Sources)
      /\ permits \in 0..Concurrency /\ Concurrency \in Nat
  BY Constants DEF Inv, TypeOK, WorkerStates
<1>3. s \notin Running /\ s \notin Queued
  BY <1>1, <1>2 DEF Running, QueueIsWaiting
<1>4. PICK now \in {"running", "waiting"} : worker' = [worker EXCEPT ![s] = now]
  BY DEF Enter
<1>5. /\ permits' \in 0..Concurrency /\ queue' \in Seq(Sources)
      /\ PermitsAccounted' /\ QueueIsWaiting'
  <2>1. CASE permits > 0
    <3>1. /\ worker' = [worker EXCEPT ![s] = "running"] /\ permits' = permits - 1
          /\ queue' = queue
      BY <2>1 DEF Enter
    <3>2. Running' = Running \cup {s}
      BY <1>2, <3>1 DEF Running
    <3>3. Cardinality(Running') = Cardinality(Running) + 1
      BY <1>3, <3>2, RunningCounted
    <3>4. permits' \in 0..Concurrency /\ PermitsAccounted'
      BY <1>2, <2>1, <3>1, <3>3, RunningCounted DEF PermitsAccounted
    <3>5. {r \in Sources : worker'[r] = "waiting"} = {r \in Sources : worker[r] = "waiting"}
      BY <1>1, <1>2, <3>1
    <3>6. queue = << >>
      BY <1>2, <2>1 DEF QueueIsWaiting
    <3>7. QueueIsWaiting'
      BY <1>2, <3>1, <3>5, <3>6 DEF QueueIsWaiting, Queued
    <3> QED
      BY <1>2, <3>1, <3>4, <3>7
  <2>2. CASE ~(permits > 0)
    <3>1. /\ worker' = [worker EXCEPT ![s] = "waiting"] /\ permits' = permits
          /\ queue' = Append(queue, s) /\ permits = 0
      BY <1>2, <2>2 DEF Enter
    <3>2. Running' = Running
      BY <1>1, <1>2, <3>1 DEF Running
    <3>3. PermitsAccounted'
      BY <1>2, <3>1, <3>2 DEF PermitsAccounted
    <3> DEFINE a == Append(queue, s)
    <3>4. /\ a \in Seq(Sources)
          /\ \A i, j \in 1..Len(a) : a[i] = a[j] => i = j
          /\ {a[i] : i \in 1..Len(a)} = Queued \cup {s}
      BY <1>2, <1>3, AppendToQueue DEF QueueIsWaiting, Queued
    <3> HIDE DEF a
    <3>5. queue' = a
      BY <3>1 DEF a
    <3>6. {r \in Sources : worker'[r] = "waiting"}
            = {r \in Sources : worker[r] = "waiting"} \cup {s}
      BY <1>2, <3>1
    <3>7. Queued' = {r \in Sources : worker'[r] = "waiting"}
      <4>1. Queued' = Queued \cup {s}
        BY <3>4, <3>5 DEF Queued
      <4> QED
        BY <1>2, <3>6, <4>1 DEF QueueIsWaiting
    <3>8. \A i, j \in 1..Len(queue') : queue'[i] = queue'[j] => i = j
      BY <3>4, <3>5
    <3>9. QueueIsWaiting'
      BY <3>1, <3>7, <3>8 DEF QueueIsWaiting
    <3> QED
      BY <1>2, <3>1, <3>3, <3>4, <3>5, <3>9
  <2> QED
    BY <2>1, <2>2
<1>6. TypeOK'
  <2>1. worker' \in [Sources -> {"off", "sleeping", "waiting", "running", "done", "crashed"}]
    BY <1>2, <1>4 DEF WorkerStates
  <2> QED
    BY <1>1, <1>2, <1>5, <2>1 DEF TypeOK
<1>7. DownIsClean'
  BY <1>1, <1>4 DEF Inv, DownIsClean
<1>8. HealthIsCurrent'
  BY <1>1, <1>2, <1>4 DEF Inv, HealthIsCurrent
<1>9. SleepCoversEmbargo'
  BY <1>1, <1>2, <1>4 DEF Inv, SleepCoversEmbargo
<1>10. WaitingHaveSlept' /\ SnapshotCoversEmbargo'
  BY <1>1, <1>2, <1>4 DEF Inv, WaitingHaveSlept, SnapshotCoversEmbargo
<1> QED
  BY <1>5, <1>6, <1>7, <1>8, <1>9, <1>10 DEF Inv

LEMMA HearKeepsInv ==
  ASSUME Inv, NEW s \in Sources, Hear(s)
  PROVE  Inv'
<1>1. PICK new \in {NoSnapshot} \cup [kind : {"retry", "reset"}, in : Delays] :
        /\ snapshot' = [snapshot EXCEPT ![s] = new]
        /\ embargo' = [embargo EXCEPT ![s] = new.in]
  BY DEF Hear
<1>2. /\ worker[s] = "running"
      /\ UNCHANGED <<up, once, worker, permits, queue, failures, wait, result, health>>
  BY DEF Hear
<1>3. new \in Snapshot /\ new.in \in Nat
  <2>1. CASE new = NoSnapshot
    BY <2>1 DEF Snapshot, NoSnapshot
  <2>2. CASE new \in [kind : {"retry", "reset"}, in : Delays]
    <3>1. new \in [kind : {"retry", "reset"}, in : Nat]
      BY <2>2, Constants
    <3> QED
      BY <3>1 DEF Snapshot
  <2> QED
    BY <2>1, <2>2
<1>4. TypeOK'
  <2>1. snapshot' \in [Sources -> Snapshot] /\ embargo' \in [Sources -> Nat]
    BY <1>1, <1>3 DEF Inv, TypeOK
  <2> QED
    BY <1>2, <2>1 DEF Inv, TypeOK
<1>5. SnapshotCoversEmbargo'
  BY <1>1, <1>3 DEF Inv, TypeOK, SnapshotCoversEmbargo
<1>6. SleepCoversEmbargo'
  BY <1>1, <1>2 DEF Inv, TypeOK, SleepCoversEmbargo
<1>7. PermitsAccounted' /\ QueueIsWaiting'
  BY <1>2 DEF Inv, PermitsAccounted, Running, QueueIsWaiting, Queued
<1>8. DownIsClean' /\ HealthIsCurrent' /\ WaitingHaveSlept'
  BY <1>2 DEF Inv, DownIsClean, HealthIsCurrent, WaitingHaveSlept
<1> QED
  BY <1>4, <1>5, <1>6, <1>7, <1>8 DEF Inv

LEMMA TickKeepsInv ==
  ASSUME Inv, Tick
  PROVE  Inv'
<1>1. \A s \in Sources :
        /\ wait[s] \in Nat /\ embargo[s] \in Nat /\ snapshot[s] \in Snapshot
        /\ snapshot[s].in \in Nat
        /\ wait'[s] = Less(wait[s]) /\ embargo'[s] = Less(embargo[s])
        /\ snapshot'[s] = IF snapshot[s].kind = "reset"
                          THEN [snapshot[s] EXCEPT !.in = Less(@)] ELSE snapshot[s]
  BY DEF Inv, TypeOK, Tick, Snapshot, NoSnapshot
<1>2. UNCHANGED <<up, once, worker, permits, queue, failures, result, health>>
  BY DEF Tick
<1>3. \A s \in Sources :
        /\ snapshot'[s] \in Snapshot
        /\ snapshot'[s].in \in {snapshot[s].in, Less(snapshot[s].in)}
  <2> SUFFICES ASSUME NEW s \in Sources
               PROVE  /\ snapshot'[s] \in Snapshot
                      /\ snapshot'[s].in \in {snapshot[s].in, Less(snapshot[s].in)}
    OBVIOUS
  <2>1. CASE snapshot[s].kind = "reset"
    <3>1. snapshot[s] \in [kind : {"retry", "reset"}, in : Nat]
      <4>1. NoSnapshot.kind = "none"
        BY DEF NoSnapshot
      <4>2. snapshot[s] # NoSnapshot
        BY <2>1, <4>1
      <4> QED
        BY <1>1, <4>2 DEF Snapshot
    <3>2. Less(snapshot[s].in) \in Nat
      BY <3>1 DEF Less
    <3>3. snapshot'[s] = [snapshot[s] EXCEPT !.in = Less(@)]
      BY <1>1, <2>1
    <3>4. /\ snapshot'[s] \in [kind : {"retry", "reset"}, in : Nat]
          /\ snapshot'[s].in = Less(snapshot[s].in)
      BY <3>1, <3>2, <3>3
    <3> QED
      BY <3>4 DEF Snapshot
  <2>2. CASE snapshot[s].kind # "reset"
    BY <1>1, <2>2
  <2> QED
    BY <2>1, <2>2
<1>4. TypeOK'
  <2>1. wait' \in [Sources -> Nat] /\ embargo' \in [Sources -> Nat]
    BY DEF Inv, TypeOK, Tick, Less
  <2>2. snapshot' \in [Sources -> Snapshot]
    BY <1>3 DEF Tick
  <2> QED
    BY <1>2, <2>1, <2>2 DEF Inv, TypeOK
<1>5. SnapshotCoversEmbargo'
  <2> SUFFICES ASSUME NEW s \in Sources PROVE embargo'[s] <= snapshot'[s].in
    BY DEF SnapshotCoversEmbargo
  <2>1. embargo[s] <= snapshot[s].in
    BY DEF Inv, SnapshotCoversEmbargo
  <2> DEFINE e == embargo[s]
             k == snapshot[s].in
  <2>2. e \in Nat /\ k \in Nat /\ e <= k
    BY <1>1, <2>1
  <2>3. embargo'[s] = Less(e) /\ snapshot'[s].in \in {k, Less(k)}
    BY <1>1, <1>3
  <2> HIDE DEF e, k
  <2> QED
    BY <2>2, <2>3 DEF Less
<1>6. SleepCoversEmbargo'
  <2> SUFFICES ASSUME NEW s \in Sources, worker[s] \in {"sleeping", "waiting"},
                      result[s] \in {"ok", "limited"}
               PROVE  Less(embargo[s]) <= Less(wait[s])
    BY <1>1, <1>2 DEF SleepCoversEmbargo
  <2> DEFINE e == embargo[s]
             k == wait[s]
  <2>1. e <= k /\ e \in Nat /\ k \in Nat
    BY <1>1 DEF Inv, SleepCoversEmbargo
  <2>2. Less(e) <= Less(k)
    <3> HIDE DEF e, k
    <3> QED
      BY <2>1 DEF Less
  <2> QED
    BY <2>2
<1>9. WaitingHaveSlept'
  BY <1>1, <1>2 DEF Inv, WaitingHaveSlept, Less
<1>7. PermitsAccounted' /\ QueueIsWaiting'
  BY <1>2 DEF Inv, PermitsAccounted, Running, QueueIsWaiting, Queued
<1>8. DownIsClean' /\ HealthIsCurrent'
  BY <1>2 DEF Inv, DownIsClean, HealthIsCurrent
<1> QED
  BY <1>4, <1>5, <1>6, <1>7, <1>8, <1>9 DEF Inv

-----------------------------------------------------------------------------
(* Every end of a run, with the n failures in a row and the sleep of d     *)
(* ticks it decides on, keeps the invariant: a run that was successful or  *)
(* limited sleeps as long as its collector remembers.                      *)
LEMMA EndOfRun ==
  ASSUME Inv, NEW s \in Sources, worker[s] = "running",
         NEW next \in {"sleeping", "done"}, Leave(s, next),
         NEW n \in 0..Threshold, NEW d \in Nat,
         NEW st \in {"healthy", "degraded", "circuit_open"},
         NEW res \in {"ok", "limited", "failed"},
         failures' = [failures EXCEPT ![s] = n],
         wait' = [wait EXCEPT ![s] = d],
         health' = [health EXCEPT ![s] = [status |-> st, failures |-> n]],
         result' = [result EXCEPT ![s] = res],
         UNCHANGED <<up, once, snapshot, embargo>>,
         st = "circuit_open" <=> Circuit(n),
         next = "sleeping" /\ res # "failed" => RateLimitDelay(s) <= d
  PROVE  Inv'
<1>1. TypeOK /\ PermitsAccounted /\ QueueIsWaiting
  BY DEF Inv
<1>2. /\ worker' \in [Sources -> WorkerStates] /\ permits' \in 0..Concurrency
      /\ queue' \in Seq(Sources) /\ PermitsAccounted' /\ QueueIsWaiting'
      /\ worker'[s] = next
      /\ \A r \in Sources \ {s} :
           worker'[r] = worker[r] \/ (worker[r] = "waiting" /\ worker'[r] = "running")
  BY <1>1, LeaveKeepsAccounts
<1>3. /\ failures'[s] = n /\ wait'[s] = d /\ result'[s] = res
      /\ health'[s] = [status |-> st, failures |-> n]
      /\ \A r \in Sources \ {s} :
           /\ failures'[r] = failures[r] /\ wait'[r] = wait[r]
           /\ result'[r] = result[r] /\ health'[r] = health[r]
  BY <1>1 DEF TypeOK
<1>4. TypeOK'
  <2>1. worker' \in [Sources -> {"off", "sleeping", "waiting", "running", "done", "crashed"}]
    BY <1>2 DEF WorkerStates
  <2>2. /\ failures' \in [Sources -> 0..Threshold] /\ wait' \in [Sources -> Nat]
        /\ result' \in [Sources -> {"none", "ok", "limited", "failed"}]
    BY <1>1 DEF TypeOK
  <2>3. health' \in [Sources -> [status   : {"none", "healthy", "degraded", "circuit_open"},
                                failures : 0..Threshold]]
    BY <1>1 DEF TypeOK
  <2> QED
    BY <1>1, <1>2, <2>1, <2>2, <2>3 DEF TypeOK
<1>5. DownIsClean'
  BY DEF Inv, DownIsClean
<1>6. HealthIsCurrent'
  <2> SUFFICES ASSUME NEW r \in Sources
               PROVE  /\ worker'[r] \in {"sleeping", "waiting", "running", "done"} =>
                           failures'[r] = health'[r].failures
                      /\ health'[r].status = "circuit_open" <=> Circuit(health'[r].failures)
    BY DEF HealthIsCurrent
  <2>1. CASE r = s
    BY <1>3, <2>1
  <2>2. CASE r # s
    BY <1>2, <1>3, <2>2 DEF Inv, HealthIsCurrent
  <2> QED
    BY <2>1, <2>2
<1>7. SleepCoversEmbargo'
  <2> SUFFICES ASSUME NEW r \in Sources, worker'[r] \in {"sleeping", "waiting"},
                      result'[r] \in {"ok", "limited"}
               PROVE  embargo[r] <= wait'[r]
    BY DEF SleepCoversEmbargo
  <2>1. CASE r = s
    <3>1. next = "sleeping" /\ res # "failed"
      BY <1>2, <1>3, <2>1
    <3>2. embargo[s] <= RateLimitDelay(s)
      BY DEF Inv, SnapshotCoversEmbargo, RateLimitDelay
    <3>3. embargo[s] \in Nat /\ RateLimitDelay(s) \in Nat
      BY <1>1, DelayType DEF TypeOK
    <3> QED
      BY <1>3, <2>1, <3>1, <3>2, <3>3
  <2>2. CASE r # s
    BY <1>2, <1>3, <2>2 DEF Inv, SleepCoversEmbargo
  <2> QED
    BY <2>1, <2>2
<1>8. WaitingHaveSlept'
  BY <1>2, <1>3 DEF Inv, WaitingHaveSlept
<1>9. SnapshotCoversEmbargo'
  BY DEF Inv, SnapshotCoversEmbargo
<1> QED
  BY <1>2, <1>4, <1>5, <1>6, <1>7, <1>8, <1>9 DEF Inv

LEMMA SucceedKeepsInv ==
  ASSUME Inv, NEW s \in Sources, Succeed(s)
  PROVE  Inv'
<1> DEFINE d == IF once THEN 0 ELSE SuccessDelay(s)
<1>1. TypeOK
  BY DEF Inv
<1>2. /\ RateLimitDelay(s) \in Nat /\ SuccessDelay(s) \in Nat
      /\ RateLimitDelay(s) <= SuccessDelay(s)
  BY <1>1, DelayType
<1>3. Rest \in {"sleeping", "done"} /\ (Rest = "sleeping" => ~once)
  BY DEF Rest
<1>4. d \in Nat /\ (Rest = "sleeping" => RateLimitDelay(s) <= d)
  BY <1>2, <1>3
<1>5. wait' = [wait EXCEPT ![s] = d]
  BY DEF Succeed, Sleep
<1> HIDE DEF d
<1>6. ~Circuit(0) /\ 0 \in 0..Threshold
  BY Constants DEF Circuit
<1> QED
  BY <1>3, <1>4, <1>5, <1>6, EndOfRun DEF Succeed, PersistHealth

LEMMA FailKeepsInv ==
  ASSUME Inv, NEW s \in Sources, NEW limited \in BOOLEAN, Fail(s, limited)
  PROVE  Inv'
<1> DEFINE n == OneMore(s)
           delay == FailureDelay(s, limited, n)
           d == IF once THEN 0 ELSE delay
           st == IF Circuit(n) THEN "circuit_open" ELSE "degraded"
           res == IF limited /\ ~Circuit(n) /\ RateLimitDelay(s) > 0
                  THEN "limited" ELSE "failed"
<1>1. TypeOK
  BY DEF Inv
<1>2. n \in 0..Threshold /\ delay \in Nat /\ RateLimitDelay(s) \in Nat
  BY <1>1, DelayType, Constants
<1>3. Rest \in {"sleeping", "done"} /\ (Rest = "sleeping" => ~once)
  BY DEF Rest
<1>4. res \in {"ok", "limited", "failed"} /\ (res # "failed" => delay = RateLimitDelay(s))
  BY DEF FailureDelay
<1>5. d \in Nat /\ (Rest = "sleeping" /\ res # "failed" => RateLimitDelay(s) <= d)
  <2> HIDE DEF delay, res
  <2> QED
    BY <1>2, <1>3, <1>4
<1>6. st \in {"healthy", "degraded", "circuit_open"} /\ (st = "circuit_open" <=> Circuit(n))
  OBVIOUS
<1>7. /\ worker[s] = "running" /\ Leave(s, Rest)
      /\ failures' = [failures EXCEPT ![s] = n]
      /\ wait' = [wait EXCEPT ![s] = d]
      /\ health' = [health EXCEPT ![s] = [status |-> st, failures |-> n]]
      /\ result' = [result EXCEPT ![s] = res]
      /\ UNCHANGED <<up, once, snapshot, embargo>>
  BY DEF Fail, Sleep, PersistHealth
<1> HIDE DEF n, d, st, res
<1> QED
  BY <1>2, <1>3, <1>4, <1>5, <1>6, <1>7, EndOfRun

LEMMA LockedOutKeepsInv ==
  ASSUME Inv, NEW s \in Sources, LockedOut(s)
  PROVE  Inv'
<1>1. CASE once
  BY <1>1, DownKeepsInv DEF LockedOut
<1>2. CASE ~once
  <2>1. /\ worker[s] = "running" /\ Leave(s, "crashed")
        /\ result' = [result EXCEPT ![s] = "none"]
        /\ UNCHANGED <<up, once, failures, wait, snapshot, embargo, health>>
    BY <1>2 DEF LockedOut
  <2>2. TypeOK /\ PermitsAccounted /\ QueueIsWaiting
    BY DEF Inv
  <2>3. /\ worker' \in [Sources -> WorkerStates] /\ permits' \in 0..Concurrency
        /\ queue' \in Seq(Sources) /\ PermitsAccounted' /\ QueueIsWaiting'
        /\ worker'[s] = "crashed"
        /\ \A r \in Sources \ {s} :
             worker'[r] = worker[r] \/ (worker[r] = "waiting" /\ worker'[r] = "running")
    BY <2>1, <2>2, LeaveKeepsAccounts
  <2>4. \A r \in Sources \ {s} : result'[r] = result[r]
    BY <2>1, <2>2 DEF TypeOK
  <2>5. TypeOK'
    <3>1. worker' \in [Sources -> {"off", "sleeping", "waiting", "running", "done", "crashed"}]
      BY <2>3 DEF WorkerStates
    <3>2. result' \in [Sources -> {"none", "ok", "limited", "failed"}]
      BY <2>1, <2>2 DEF TypeOK
    <3> QED
      BY <2>1, <2>2, <2>3, <3>1, <3>2 DEF TypeOK
  <2>6. DownIsClean'
    BY <2>1 DEF Inv, DownIsClean
  <2>7. HealthIsCurrent'
    BY <2>1, <2>3 DEF Inv, HealthIsCurrent
  <2>8. SleepCoversEmbargo'
    BY <2>1, <2>3, <2>4 DEF Inv, SleepCoversEmbargo
  <2>9. WaitingHaveSlept' /\ SnapshotCoversEmbargo'
    BY <2>1, <2>3 DEF Inv, WaitingHaveSlept, SnapshotCoversEmbargo
  <2> QED
    BY <2>3, <2>5, <2>6, <2>7, <2>8, <2>9 DEF Inv
<1> QED
  BY <1>1, <1>2

-----------------------------------------------------------------------------
LEMMA NextKeepsInv == Inv /\ [Next]_vars => Inv'
<1> SUFFICES ASSUME Inv, [Next]_vars PROVE Inv'
  OBVIOUS
<1>1. ASSUME NEW single \in BOOLEAN, Start(single) PROVE Inv'
  BY <1>1, StartKeepsInv
<1>2. CASE Halt
  BY <1>2, DownKeepsInv DEF Halt
<1>3. CASE FinishOnce
  BY <1>3, DownKeepsInv DEF FinishOnce
<1>4. CASE Tick
  BY <1>4, TickKeepsInv
<1>5. ASSUME NEW s \in Sources, Enter(s) PROVE Inv'
  BY <1>5, EnterKeepsInv
<1>6. ASSUME NEW s \in Sources, Hear(s) PROVE Inv'
  BY <1>6, HearKeepsInv
<1>7. ASSUME NEW s \in Sources, Succeed(s) PROVE Inv'
  BY <1>7, SucceedKeepsInv
<1>8. ASSUME NEW s \in Sources, NEW limited \in BOOLEAN, Fail(s, limited) PROVE Inv'
  BY <1>8, FailKeepsInv
<1>9. ASSUME NEW s \in Sources, LockedOut(s) PROVE Inv'
  BY <1>9, LockedOutKeepsInv
<1>10. CASE UNCHANGED vars
  BY <1>10 DEF vars, Inv, TypeOK, DownIsClean, PermitsAccounted, Running, QueueIsWaiting,
               Queued, HealthIsCurrent, SleepCoversEmbargo, WaitingHaveSlept,
               SnapshotCoversEmbargo
<1> QED
  BY <1>1, <1>2, <1>3, <1>4, <1>5, <1>6, <1>7, <1>8, <1>9, <1>10 DEF Next

(* The permits of the semaphore are accounted for, its queue is the set of *)
(* the waiting workers, health rows are current and sleeps are as long as  *)
(* the sources asked for: in every state of every configuration.           *)
THEOREM RuntimeInv == Spec => []Inv
BY InitInv, NextKeepsInv, PTL DEF Spec

LEMMA StepKeepsFailures ==
  ASSUME Inv, [Next]_vars, NEW s \in Sources, health'[s].failures < health[s].failures
  PROVE  Succeed(s)
<1>1. TypeOK /\ HealthIsCurrent
  BY DEF Inv
<1>2. health[s].failures \in Nat /\ health' # health
  BY <1>1 DEF TypeOK
<1>3. PICK r \in Sources : Succeed(r) \/ \E limited \in BOOLEAN : Fail(r, limited)
  BY <1>2 DEF Next, vars, Start, Halt, FinishOnce, Tick, Enter, Hear, LockedOut
<1>4. PICK st, n : health' = [health EXCEPT ![r] = [status |-> st, failures |-> n]]
  BY <1>3 DEF Succeed, Fail, PersistHealth
<1>5. r = s
  BY <1>1, <1>2, <1>4 DEF TypeOK
<1>6. ASSUME NEW limited \in BOOLEAN, Fail(s, limited) PROVE FALSE
  <2>1. health'[s].failures = OneMore(s) /\ worker[s] = "running"
    BY <1>1, <1>6 DEF Fail, PersistHealth, TypeOK
  <2>2. failures[s] = health[s].failures /\ failures[s] \in 0..Threshold
    BY <1>1, <2>1 DEF HealthIsCurrent, TypeOK
  <2>3. OneMore(s) >= failures[s]
    BY <2>2, Constants DEF OneMore, Shorter
  <2> QED
    BY <1>2, <2>1, <2>2, <2>3, DelayType, <1>1
<1> QED
  BY <1>3, <1>5, <1>6

(* Only a successful run of a source forgets its failures in a row. *)
THEOREM FailuresAreKept == Spec => FailuresSurvive
<1>1. Inv /\ [Next]_vars =>
        [\A s \in Sources : health'[s].failures < health[s].failures => Succeed(s)]_vars
  BY StepKeepsFailures
<1> QED
  BY <1>1, RuntimeInv, PTL DEF Spec, FailuresSurvive

LEMMA StepRespectsRateLimit ==
  ASSUME Inv, [Next]_vars, NEW s \in Sources, worker[s] # "running",
         worker'[s] = "running", result[s] \in {"ok", "limited"}
  PROVE  embargo[s] = 0
<1>1. TypeOK /\ PermitsAccounted /\ QueueIsWaiting
  BY DEF Inv
<1>2. worker[s] \in {"sleeping", "waiting"} /\ wait[s] = 0
  <2>1. CASE Enter(s)
    BY <2>1 DEF Enter
  <2>2. ASSUME NEW r \in Sources, Enter(r), r # s PROVE FALSE
    BY <1>1, <2>2 DEF Enter, TypeOK
  <2>3. ASSUME NEW r \in Sources, NEW next \in {"sleeping", "done", "crashed"},
               worker[r] = "running", Leave(r, next)
        PROVE  worker[s] = "waiting"
    BY <1>1, <2>3, LeaveKeepsAccounts
  <2>4. worker[s] = "waiting" => wait[s] = 0
    BY DEF Inv, WaitingHaveSlept
  <2>5. Rest \in {"sleeping", "done", "crashed"}
    BY DEF Rest
  <2>6. ASSUME NEW r \in Sources, Succeed(r) \/ \E limited \in BOOLEAN : Fail(r, limited)
        PROVE  worker[s] = "waiting"
    BY <2>3, <2>5, <2>6 DEF Succeed, Fail
  <2>7. ASSUME NEW r \in Sources, LockedOut(r)
        PROVE  worker[s] = "waiting"
    BY <2>3, <2>7 DEF LockedOut, Down
  <2>8. ASSUME \/ \E single \in BOOLEAN : Start(single)
               \/ Halt \/ FinishOnce \/ Tick \/ UNCHANGED vars
               \/ \E r \in Sources : Hear(r)
        PROVE  FALSE
    BY <2>8 DEF Start, Halt, FinishOnce, Tick, Hear, Down, vars
  <2> QED
    BY <2>1, <2>2, <2>4, <2>6, <2>7, <2>8 DEF Next
<1>3. embargo[s] <= wait[s] /\ embargo[s] \in Nat
  BY <1>1, <1>2 DEF Inv, SleepCoversEmbargo, TypeOK
<1> QED
  BY <1>2, <1>3

(* A source whose last run succeeded or was limited is not asked again by  *)
(* the same process before the instant it named.                           *)
THEOREM RateLimits == Spec => RateLimitRespected
<1>1. Inv /\ [Next]_vars =>
        [\A s \in Sources :
           worker[s] # "running" /\ worker'[s] = "running" /\ result[s] \in {"ok", "limited"} =>
             embargo[s] = 0]_vars
  BY StepRespectsRateLimit
<1> QED
  BY <1>1, RuntimeInv, PTL DEF Spec, RateLimitRespected
=============================================================================
