------------------------------ MODULE Runtime ------------------------------
(***************************************************************************)
(* StreamRuntime: one worker per source polls it, sleeps and polls again.  *)
(* A semaphore bounds how many of them collect at once, the health row of  *)
(* a source survives restarts, and how long a worker sleeps follows from   *)
(* the outcome of the run, the failures in a row and what the source said  *)
(* about its rate limit.  The delivery workers are those of Delivery, and  *)
(* what a run does to the store is that of Pipeline.                       *)
(*                                                                         *)
(* Time is discrete: every duration is a number of ticks that remain.      *)
(* Failures in a row are counted up to Threshold, beyond which nothing in  *)
(* the code tells them apart.                                              *)
(***************************************************************************)
EXTENDS Integers, Sequences, FiniteSets

CONSTANTS
  Sources,
  Concurrency,  \* runtime.concurrency
  Threshold,    \* failure_threshold
  Interval,     \* the interval of every source
  Base,         \* failure_backoff_base
  Cooldown,     \* circuit_cooldown
  Delays,       \* how long a source may ask its clients to wait
  LockFaults    \* TRUE: SQLite may raise "database is locked" in a worker

ASSUME RuntimeAssumption ==
  /\ IsFiniteSet(Sources)
  /\ {Concurrency, Threshold, Interval, Base, Cooldown} \subseteq Nat \ {0}
  /\ Delays \subseteq Nat \ {0}
  /\ LockFaults \in BOOLEAN

VARIABLES
  up,        \* the process is up
  once,      \* it was started with --once
  worker,    \* the state of each _source_loop task
  permits,   \* the value of the semaphore
  queue,     \* the workers that wait for it
  failures,  \* RuntimeSource.failures
  wait,      \* ticks left of a worker's sleep
  snapshot,  \* the collector's _rate_limit
  result,    \* how the last run of this process ended
  embargo,   \* ticks for which the source asked this process to leave it alone
  health     \* the row of each source in source_health

vars == <<up, once, worker, permits, queue, failures, wait, snapshot, result,
          embargo, health>>

-----------------------------------------------------------------------------
NoHealth == [status |-> "none", failures |-> 0]

(* "retry" is a Retry-After, kept as the number of seconds it said; "reset" *)
(* is an exhausted limit with the instant of its reset.  Headers that ask  *)
(* for no delay leave "none".                                              *)
NoSnapshot == [kind |-> "none", in |-> 0]

Snapshot == {NoSnapshot} \cup [kind : {"retry", "reset"}, in : Nat]

Longer(a, b) == IF a >= b THEN a ELSE b
Shorter(a, b) == IF a <= b THEN a ELSE b
Less(n) == IF n = 0 THEN 0 ELSE n - 1

(* The variables of a process that is not running. *)
Down ==
  /\ up' = FALSE
  /\ once' = FALSE
  /\ worker' = [s \in Sources |-> "off"]
  /\ permits' = Concurrency
  /\ queue' = << >>
  /\ failures' = [s \in Sources |-> 0]
  /\ wait' = [s \in Sources |-> 0]
  /\ snapshot' = [s \in Sources |-> NoSnapshot]
  /\ result' = [s \in Sources |-> "none"]
  /\ embargo' = [s \in Sources |-> 0]

Init ==
  /\ up = FALSE
  /\ once = FALSE
  /\ worker = [s \in Sources |-> "off"]
  /\ permits = Concurrency
  /\ queue = << >>
  /\ failures = [s \in Sources |-> 0]
  /\ wait = [s \in Sources |-> 0]
  /\ snapshot = [s \in Sources |-> NoSnapshot]
  /\ result = [s \in Sources |-> "none"]
  /\ health = [s \in Sources |-> NoHealth]
  /\ embargo = [s \in Sources |-> 0]

-----------------------------------------------------------------------------
(* Variant: the process starts with a clean slate. *)
RestoreNothing == failures' = [s \in Sources |-> 0]

RestoreHealth == failures' = [s \in Sources |-> health[s].failures]

(* The process starts, to run for ever or once; every worker is ready for  *)
(* its first run, whatever its health.                                     *)
Start(single) ==
  /\ ~up
  /\ up' = TRUE
  /\ once' = single
  /\ worker' = [s \in Sources |-> "sleeping"]
  /\ RestoreHealth
  /\ UNCHANGED <<permits, queue, wait, snapshot, result, health, embargo>>

(* SIGTERM cancels the workers where they are; a kill does no less. *)
Halt ==
  /\ up
  /\ Down
  /\ UNCHANGED health

(* _run_source asks for the semaphore. *)
Enter(s) ==
  /\ worker[s] = "sleeping"
  /\ wait[s] = 0
  /\ IF permits > 0
     THEN /\ worker' = [worker EXCEPT ![s] = "running"]
          /\ permits' = permits - 1
          /\ UNCHANGED queue
     ELSE /\ worker' = [worker EXCEPT ![s] = "waiting"]
          /\ queue' = Append(queue, s)
          /\ UNCHANGED permits
  /\ UNCHANGED <<up, once, failures, wait, snapshot, result, health, embargo>>

(* The worker of s leaves the semaphore for the state "next"; the first of *)
(* those who wait for it goes ahead.                                       *)
Leave(s, next) ==
  IF queue = << >>
  THEN /\ worker' = [worker EXCEPT ![s] = next]
       /\ permits' = permits + 1
       /\ UNCHANGED queue
  ELSE /\ worker' = [worker EXCEPT ![s] = next, ![Head(queue)] = "running"]
       /\ queue' = Tail(queue)
       /\ UNCHANGED permits

(***************************************************************************)
(* A response with rate-limit headers replaces the snapshot; one without   *)
(* them leaves the old one.                                                *)
(***************************************************************************)
Hear(s) ==
  /\ worker[s] = "running"
  /\ \E new \in {NoSnapshot} \cup [kind : {"retry", "reset"}, in : Delays] :
       /\ snapshot' = [snapshot EXCEPT ![s] = new]
       /\ embargo' = [embargo EXCEPT ![s] = new.in]
  /\ UNCHANGED <<up, once, worker, permits, queue, failures, wait, result, health>>

-----------------------------------------------------------------------------
RateLimitDelay(s) == snapshot[s].in

(* Variant: only failures look at the rate limit. *)
SuccessDelayFixed(s) == Interval

SuccessDelay(s) == Longer(Interval, RateLimitDelay(s))

OneMore(s) == Shorter(failures[s] + 1, Threshold)

Circuit(n) == n >= Threshold

Backoff(n) == Shorter(Interval, Base * 2^(n - 1))

(* The delay after the n-th failure in a row. *)
FailureDelay(s, limited, n) ==
  CASE Circuit(n) -> Cooldown
    [] ~Circuit(n) /\ limited /\ RateLimitDelay(s) > 0 -> RateLimitDelay(s)
    [] OTHER -> Backoff(n)

(* After its run a worker sleeps; with --once it is done. *)
Rest == IF once THEN "done" ELSE "sleeping"

Sleep(s, n) == wait' = [wait EXCEPT ![s] = IF once THEN 0 ELSE n]

PersistHealth(s, status, n) ==
  health' = [health EXCEPT ![s] = [status |-> status, failures |-> n]]

(* The run succeeded. *)
Succeed(s) ==
  /\ worker[s] = "running"
  /\ Leave(s, Rest)
  /\ failures' = [failures EXCEPT ![s] = 0]
  /\ Sleep(s, SuccessDelay(s))
  /\ PersistHealth(s, "healthy", 0)
  /\ result' = [result EXCEPT ![s] = "ok"]
  /\ UNCHANGED <<up, once, snapshot, embargo>>

(* Variant: the failure path returns without leaving the semaphore. *)
FailInside(s, limited) ==
  LET n == OneMore(s)
  IN  /\ worker[s] = "running"
      /\ worker' = [worker EXCEPT ![s] = Rest]
      /\ failures' = [failures EXCEPT ![s] = n]
      /\ Sleep(s, FailureDelay(s, limited, n))
      /\ PersistHealth(s, IF Circuit(n) THEN "circuit_open" ELSE "degraded", n)
      /\ result' = [result EXCEPT ![s] = "failed"]
      /\ UNCHANGED <<up, once, permits, queue, snapshot, embargo>>

(* The run failed; "limited" says that the error is of kind RATE_LIMIT.    *)
(* The result is "limited" when the delay is the source's own.             *)
Fail(s, limited) ==
  LET n == OneMore(s)
  IN  /\ worker[s] = "running"
      /\ Leave(s, Rest)
      /\ failures' = [failures EXCEPT ![s] = n]
      /\ Sleep(s, FailureDelay(s, limited, n))
      /\ PersistHealth(s, IF Circuit(n) THEN "circuit_open" ELSE "degraded", n)
      /\ result' = [result EXCEPT ![s] =
                      IF limited /\ ~Circuit(n) /\ RateLimitDelay(s) > 0
                      THEN "limited" ELSE "failed"]
      /\ UNCHANGED <<up, once, snapshot, embargo>>

(***************************************************************************)
(* The run is over, and the write of its health meets a locked database.   *)
(* The worker ends, outside the semaphore, and run_forever does not look   *)
(* at it again; run_once passes the exception on and the process ends.     *)
(***************************************************************************)
LockedOut(s) ==
  /\ LockFaults
  /\ worker[s] = "running"
  /\ IF once
     THEN Down
     ELSE /\ Leave(s, "crashed")
          /\ result' = [result EXCEPT ![s] = "none"]
          /\ UNCHANGED <<up, once, failures, wait, snapshot, embargo>>
  /\ UNCHANGED health

(* run_once has drained the outbox, and the process ends. *)
FinishOnce ==
  /\ up
  /\ once
  /\ \A s \in Sources : worker[s] = "done"
  /\ Down
  /\ UNCHANGED health

Tick ==
  /\ wait' = [s \in Sources |-> Less(wait[s])]
  /\ embargo' = [s \in Sources |-> Less(embargo[s])]
  /\ snapshot' = [s \in Sources |->
                    IF snapshot[s].kind = "reset"
                    THEN [snapshot[s] EXCEPT !.in = Less(@)]
                    ELSE snapshot[s]]
  /\ UNCHANGED <<up, once, worker, permits, queue, failures, result, health>>

-----------------------------------------------------------------------------
Next ==
  \/ \E single \in BOOLEAN : Start(single)
  \/ Halt
  \/ FinishOnce
  \/ Tick
  \/ \E s \in Sources :
       \/ Enter(s)
       \/ Hear(s)
       \/ Succeed(s)
       \/ \E limited \in BOOLEAN : Fail(s, limited)
       \/ LockedOut(s)

Spec == Init /\ [][Next]_vars

(* A collection ends: its requests time out and its retries are bounded.   *)
(* The event loop runs every task that is ready, and the clock advances.   *)
Fairness ==
  /\ WF_vars(Tick)
  /\ WF_vars(FinishOnce)
  /\ \A s \in Sources :
       /\ WF_vars(Enter(s))
       /\ WF_vars(Succeed(s) \/ \E limited \in BOOLEAN : Fail(s, limited))

FairSpec == Spec /\ Fairness

-----------------------------------------------------------------------------
(* Every variable has its type. *)
TypeOK ==
  /\ up \in BOOLEAN
  /\ once \in BOOLEAN
  /\ worker \in [Sources -> {"off", "sleeping", "waiting", "running", "done", "crashed"}]
  /\ permits \in 0..Concurrency
  /\ queue \in Seq(Sources)
  /\ failures \in [Sources -> 0..Threshold]
  /\ wait \in [Sources -> Nat]
  /\ snapshot \in [Sources -> Snapshot]
  /\ result \in [Sources -> {"none", "ok", "limited", "failed"}]
  /\ health \in [Sources -> [status   : {"none", "healthy", "degraded", "circuit_open"},
                             failures : 0..Threshold]]
  /\ embargo \in [Sources -> Nat]

Running == {s \in Sources : worker[s] = "running"}

Queued == {queue[i] : i \in 1..Len(queue)}

(* No task of a process outlives it. *)
DownIsClean ==
  ~up => \A s \in Sources : worker[s] = "off" /\ result[s] = "none"

(* Every permit is free or with a worker that collects: none is lost to a  *)
(* failure, a crashed worker or a hand-over, and none is invented.         *)
PermitsAccounted == permits + Cardinality(Running) = Concurrency

(* The queue holds the waiting workers, each once, and nobody waits for a  *)
(* semaphore that is free.                                                 *)
QueueIsWaiting ==
  /\ \A i, j \in 1..Len(queue) : queue[i] = queue[j] => i = j
  /\ Queued = {s \in Sources : worker[s] = "waiting"}
  /\ queue # << >> => permits = 0

(* The health row tells what the worker knows: a process that dies at any  *)
(* moment leaves the count of failures behind.                             *)
HealthIsCurrent ==
  \A s \in Sources :
    /\ worker[s] \in {"sleeping", "waiting", "running", "done"} =>
         failures[s] = health[s].failures
    /\ health[s].status = "circuit_open" <=> Circuit(health[s].failures)

(* After a run that ended well, or was turned away for its rate, a worker  *)
(* does not wake up while its source still wants to be left alone.         *)
SleepCoversEmbargo ==
  \A s \in Sources :
    worker[s] \in {"sleeping", "waiting"} /\ result[s] \in {"ok", "limited"} =>
      embargo[s] <= wait[s]

(* Whoever waits for the semaphore has slept enough. *)
WaitingHaveSlept == \A s \in Sources : worker[s] = "waiting" => wait[s] = 0

(* What the collector remembers of its source is never less than what the  *)
(* source still asks for.                                                  *)
SnapshotCoversEmbargo == \A s \in Sources : embargo[s] <= snapshot[s].in

(* The strengthening under which the safety properties are inductive. *)
Inv ==
  /\ TypeOK
  /\ DownIsClean
  /\ PermitsAccounted
  /\ QueueIsWaiting
  /\ HealthIsCurrent
  /\ SleepCoversEmbargo
  /\ WaitingHaveSlept
  /\ SnapshotCoversEmbargo

(* Failures in a row are forgotten by a successful run only, not by a      *)
(* restart, a crash of the worker or a stop.                               *)
FailuresSurvive ==
  [][\A s \in Sources : health'[s].failures < health[s].failures => Succeed(s)]_vars

(* While the process runs, a source whose last run succeeded, or failed    *)
(* for its rate limit below the threshold, is not asked again before the   *)
(* instant it named.  (An open circuit sleeps its cooldown, other failures *)
(* their backoff, and a new process asks at once.)                         *)
RateLimitRespected ==
  [][\A s \in Sources :
       worker[s] # "running" /\ worker'[s] = "running" /\ result[s] \in {"ok", "limited"} =>
         embargo[s] = 0]_vars

(* A run that succeeds is followed by the interval unless the source wants *)
(* to be left alone for longer (docs/ARCHITECTURE.md, "Runtime scheduling": *)
(* "extended when the source reports an exhausted rate limit").            *)
SuccessWaitsAsReported ==
  [][\A s \in Sources :
       Succeed(s) /\ ~once /\ embargo[s] = 0 => wait'[s] = Interval]_vars

(* A worker that does not collect gets to, while the process is up: none   *)
(* is kept out by the others, by failures or by sleeps.                    *)
EverySourceIsPolled ==
  \A s \in Sources : (up /\ worker[s] = "sleeping") ~> (worker[s] = "running" \/ ~up)
=============================================================================
