------------------------------ MODULE Delivery ------------------------------
(***************************************************************************)
(* DeliveryEngine: one worker per configured sink drains the outbox, while *)
(* source workers (and one-shot collections) change the stored events, the *)
(* command line and the dashboard replay dead letters, and the process is  *)
(* stopped, killed and started again.                                      *)
(*                                                                         *)
(* Grain of atomicity.  The engine runs on one asyncio thread, and its     *)
(* only suspension points are the sleep between passes and                 *)
(* "await sink.send(event)".  What runs between two of them is one action: *)
(* the outcome of a send, the row it writes, and the read of the next      *)
(* event of the batch are a single step.                                   *)
(***************************************************************************)
EXTENDS Outbox

CONSTANTS
  Backfill,     \* the sinks configured with backfill = true
  BatchSize,    \* delivery_batch
  MaxAttempts,  \* delivery_max_attempts
  Dedup,        \* TRUE: the consumers suppress an Idempotency-Key they have seen
  MaxLate,      \* how many given-up requests may still be on the network
  LockFaults    \* TRUE: SQLite may raise "database is locked" in a worker

ASSUME DeliveryAssumption ==
  /\ Backfill \subseteq Sinks
  /\ BatchSize \in Nat \ {0}
  /\ MaxAttempts \in Nat \ {0}
  /\ MaxLate \in Nat
  /\ Dedup \in BOOLEAN
  /\ LockFaults \in BOOLEAN

VARIABLES
  running,     \* the process is up
  configured,  \* the sinks this process was started with
  worker,      \* the state of each sink's _sink_loop task
  todo,        \* the records of the current pass that were not tried yet
  tried,       \* record.attempts as the pass read it
  flight,      \* the request a worker is awaiting
  received,    \* consumers: the payloads each one ever accepted
  held,        \* consumers: the payload each one applied last
  late         \* requests the engine gave up on that may still arrive

engineVars   == <<running, configured, worker, todo, tried, flight>>
consumerVars == <<received, held, late>>
vars         == <<storeVars, engineVars, consumerVars>>

Request  == [event : Events, payload : Payloads, accepted : BOOLEAN]
NoFlight == [event |-> None, payload |-> None, accepted |-> FALSE]
Letter   == [sink : Sinks, event : Events, payload : Payloads]

-----------------------------------------------------------------------------
Untried == [e \in Events |-> 0]

Init ==
  /\ StoreInit
  /\ running = FALSE
  /\ configured = {}
  /\ worker = [s \in Sinks |-> "off"]
  /\ todo = [s \in Sinks |-> {}]
  /\ tried = [s \in Sinks |-> Untried]
  /\ flight = [s \in Sinks |-> NoFlight]
  /\ received = [s \in Sinks |-> [e \in Events |-> {}]]
  /\ held = [s \in Sinks |-> [e \in Events |-> None]]
  /\ late = {}

-----------------------------------------------------------------------------
(***************************************************************************)
(* The process starts with the sinks of S enabled in its configuration:    *)
(* StreamRuntime registers each of them, then every sink gets a worker.    *)
(* A process killed between two registrations is a Start with fewer sinks  *)
(* followed by Halt.                                                       *)
(***************************************************************************)
Start(S) ==
  /\ ~running
  /\ RegisterSinks(S, Backfill)
  /\ running' = TRUE
  /\ configured' = S
  /\ worker' = [s \in Sinks |-> IF s \in S THEN "idle" ELSE "off"]
  /\ UNCHANGED <<todo, tried, flight, consumerVars>>

(* The requests that the consumers have not answered. *)
Unanswered(S) ==
  {[sink |-> s, event |-> flight[s].event, payload |-> flight[s].payload] :
     s \in {t \in S : flight[t] # NoFlight /\ ~flight[t].accepted}}

(* A request the engine stops waiting for may be lost, or arrive later. *)
MayLinger(letters) ==
  \E L \in SUBSET letters :
    /\ L # {} => Cardinality(late \cup L) <= MaxLate
    /\ late' = late \cup L

(***************************************************************************)
(* SIGTERM, or a kill.  Cancellation is re-raised at the await, so neither *)
(* writes anything: the pass and the request in flight are forgotten.      *)
(***************************************************************************)
Halt ==
  /\ running
  /\ running' = FALSE
  /\ configured' = {}
  /\ worker' = [s \in Sinks |-> "off"]
  /\ todo' = [s \in Sinks |-> {}]
  /\ tried' = [s \in Sinks |-> Untried]
  /\ flight' = [s \in Sinks |-> NoFlight]
  /\ MayLinger(Unanswered(Sinks))
  /\ UNCHANGED <<storeVars, received, held>>

(* A collected page is committed; nothing of it need be new. *)
SourceWrite ==
  /\ \E E \in SUBSET Events : \E batch \in [E -> Payloads] : WriteMany(batch)
  /\ UNCHANGED <<engineVars, consumerVars>>

-----------------------------------------------------------------------------
(***************************************************************************)
(* The worker of s goes on to one of the records left in "rest": it reads  *)
(* the event as it is now and calls sink.send.  With none left the pass is *)
(* over and the worker sleeps.  (The order within a pass is left open.)    *)
(***************************************************************************)
TryNext(s, rest) ==
  \/ /\ rest = {}
     /\ worker' = [worker EXCEPT ![s] = "idle"]
     /\ flight' = [flight EXCEPT ![s] = NoFlight]
     /\ todo' = [todo EXCEPT ![s] = {}]
  \/ \E e \in rest :
       /\ worker' = [worker EXCEPT ![s] = "sending"]
       /\ flight' = [flight EXCEPT ![s] =
                       [event |-> e, payload |-> signal[e], accepted |-> FALSE]]
       /\ todo' = [todo EXCEPT ![s] = rest \ {e}]

(* A pass begins: list_ready_deliveries is read once, attempts included. *)
Poll(s) ==
  /\ worker[s] = "idle"
  /\ \E B \in ReadyBatches(s, BatchSize) \ {{}} :
       /\ tried' = [tried EXCEPT ![s] =
                      [e \in Events |-> IF e \in B THEN row[s][e].attempts ELSE 0]]
       /\ TryNext(s, B)
  /\ UNCHANGED <<storeVars, running, configured, consumerVars>>

(* A consumer takes a payload; one that honours the key drops a known one. *)
Receive(s, e, v) ==
  /\ received' = [received EXCEPT ![s][e] = @ \cup {v}]
  /\ held' = [held EXCEPT ![s][e] = IF Dedup /\ v \in received[s][e] THEN @ ELSE v]

(* The request reaches the consumer, which has not answered yet. *)
Accept(s) ==
  /\ worker[s] = "sending"
  /\ ~flight[s].accepted
  /\ flight' = [flight EXCEPT ![s].accepted = TRUE]
  /\ Receive(s, flight[s].event, flight[s].payload)
  /\ UNCHANGED <<storeVars, running, configured, worker, todo, tried, late>>

(* A request of an earlier attempt arrives after the engine gave it up. *)
ArriveLate ==
  /\ \E l \in late :
       /\ late' = late \ {l}
       /\ Receive(l.sink, l.event, l.payload)
  /\ UNCHANGED <<storeVars, engineVars>>

(* The record in flight is done with; the worker takes up the next one. *)
Finish(s) ==
  /\ TryNext(s, todo[s])
  /\ tried' = [tried EXCEPT ![s][flight[s].event] = 0]
  /\ UNCHANGED <<running, configured>>

(* Variant: the row is marked without looking at the event again. *)
AcknowledgeUnchecked(s) ==
  /\ worker[s] = "sending"
  /\ flight[s].accepted
  /\ MarkSuccess(s, flight[s].event)
  /\ Finish(s)
  /\ UNCHANGED consumerVars

(* send returned, and the event still has the fingerprint that was sent. *)
Acknowledge(s) ==
  /\ worker[s] = "sending"
  /\ flight[s].accepted
  /\ signal[flight[s].event] = flight[s].payload
  /\ MarkSuccess(s, flight[s].event)
  /\ Finish(s)
  /\ UNCHANGED consumerVars

(* send returned, but the event changed meanwhile: the row is left alone. *)
Supersede(s) ==
  /\ worker[s] = "sending"
  /\ flight[s].accepted
  /\ signal[flight[s].event] # flight[s].payload
  /\ Finish(s)
  /\ UNCHANGED <<storeVars, consumerVars>>

(* Variant: one attempt too many. *)
ExhaustedLate(s, e) == tried[s][e] >= MaxAttempts

(* is_dead for a retryable error, from the attempts the pass read. *)
Exhausted(s, e) == tried[s][e] + 1 >= MaxAttempts

(***************************************************************************)
(* send raised a retryable SinkError or an unexpected exception.  The      *)
(* consumer may have taken the payload (the answer was lost), may take it  *)
(* later, or may never see it.                                             *)
(***************************************************************************)
FailRetryably(s) ==
  /\ worker[s] = "sending"
  /\ MarkFailure(s, flight[s].event, Exhausted(s, flight[s].event))
  /\ MayLinger(Unanswered({s}))
  /\ Finish(s)
  /\ UNCHANGED <<received, held>>

(* send raised a SinkError that is not retryable: the consumer said no. *)
FailPermanently(s) ==
  /\ worker[s] = "sending"
  /\ ~flight[s].accepted
  /\ MarkFailure(s, flight[s].event, TRUE)
  /\ Finish(s)
  /\ UNCHANGED consumerVars

(***************************************************************************)
(* Another connection holds the database lock past the timeout, and the    *)
(* store call of the worker raises sqlite3.OperationalError.  Nothing      *)
(* between that call and the end of the task catches it, and run_forever   *)
(* looks only at the stop event: the worker is gone until a restart.       *)
(***************************************************************************)
LockedOut(s) ==
  /\ LockFaults
  /\ worker[s] \in {"idle", "sending"}
  /\ worker' = [worker EXCEPT ![s] = "crashed"]
  /\ flight' = [flight EXCEPT ![s] = NoFlight]
  /\ todo' = [todo EXCEPT ![s] = {}]
  /\ tried' = [tried EXCEPT ![s] = Untried]
  /\ MayLinger(Unanswered({s}))
  /\ UNCHANGED <<storeVars, running, configured, received, held>>

ReplayDead(s) == RetryDead(s) /\ UNCHANGED <<engineVars, consumerVars>>

TimePasses(s, e) == ComeDue(s, e) /\ UNCHANGED <<engineVars, consumerVars>>

-----------------------------------------------------------------------------
(* What ends an await of sink.send while the process is up. *)
Answer(s) ==
  Acknowledge(s) \/ Supersede(s) \/ FailRetryably(s) \/ FailPermanently(s)

Next ==
  \/ \E S \in SUBSET Sinks : Start(S)
  \/ Halt
  \/ SourceWrite
  \/ ArriveLate
  \/ \E s \in Sinks :
       \/ Poll(s)
       \/ Accept(s)
       \/ Acknowledge(s)
       \/ Supersede(s)
       \/ FailRetryably(s)
       \/ FailPermanently(s)
       \/ LockedOut(s)
       \/ ReplayDead(s)
       \/ \E e \in Events : TimePasses(s, e)

Spec == Init /\ [][Next]_vars

(***************************************************************************)
(* The loop of a live worker keeps polling, a send ends (webhooks have a   *)
(* timeout, the file sinks do not wait) and the clock advances.  Nothing   *)
(* is assumed of the operator, of restarts or of the consumer.  A source   *)
(* that never stops changing an event supersedes its deliveries for ever,  *)
(* so the sources are assumed to fall quiet.                               *)
(***************************************************************************)
Fairness ==
  /\ \A s \in Sinks : WF_vars(Poll(s)) /\ WF_vars(Answer(s))
  /\ \A s \in Sinks, e \in Events : WF_vars(TimePasses(s, e))

SourcesFallQuiet == <>[][signal' = signal]_vars

FairSpec == Spec /\ Fairness /\ SourcesFallQuiet
-----------------------------------------------------------------------------
(***************************************************************************)
(* Safety.                                                                 *)
(***************************************************************************)

(* Every variable has its type. *)
TypeOK ==
  /\ StoreTypeOK
  /\ running \in BOOLEAN
  /\ configured \in SUBSET Sinks
  /\ worker \in [Sinks -> {"off", "idle", "sending", "crashed"}]
  /\ todo \in [Sinks -> SUBSET Events]
  /\ tried \in [Sinks -> [Events -> Nat]]
  /\ flight \in [Sinks -> Request \cup {NoFlight}]
  /\ received \in [Sinks -> [Events -> SUBSET Payloads]]
  /\ held \in [Sinks -> [Events -> Payloads \cup {None}]]
  /\ late \in SUBSET Letter

(* The records a worker has read from the outbox and not finished with. *)
Busy(s) == todo[s] \cup (IF worker[s] = "sending" THEN {flight[s].event} ELSE {})

(* A worker exists exactly for the sinks of the running process, awaits a  *)
(* request exactly while it is sending, and what it sent and the consumer  *)
(* took was received; an event in flight is not also left to try.          *)
FlightsMatchWorkers ==
  \A s \in Sinks :
    /\ worker[s] # "off" <=> running /\ s \in configured
    /\ worker[s] = "sending" <=> flight[s] # NoFlight
    /\ worker[s] # "sending" => todo[s] = {}
    /\ flight[s].event \notin todo[s]
    /\ flight[s].accepted => flight[s].payload \in received[s][flight[s].event]

(* Between the pass that read a record and the end of its attempt nobody   *)
(* else settles its row, so the row the engine overwrites is still open:   *)
(* deliver_once relies on it, for it marks rows by key alone.              *)
BusyRowsAreOpen == \A s \in Sinks : \A e \in Busy(s) : Open(s, e)

(* The attempts a pass read are never fewer than those in the row: stale   *)
(* reads make the engine give up early, never late.                        *)
StaleReadsAreHigh ==
  \A s \in Sinks : \A e \in Busy(s) :
    row[s][e].attempts <= tried[s][e] /\ tried[s][e] < MaxAttempts

(* A row that spent its attempts is not tried again: max_attempts bounds   *)
(* the attempts of a row between two resets, across restarts and races.    *)
BudgetRespected ==
  \A s \in Sinks, e \in Events : Open(s, e) => row[s][e].attempts < MaxAttempts

(* The outbox has rows for stored events of registered sinks only; so      *)
(* deliver_once never meets a record whose event no longer exists.         *)
RowsHaveSignals ==
  \A s \in Sinks, e \in Events :
    row[s][e].status # "none" => s \in enabled /\ signal[e] # None

(* The at-least-once contract: a row says "delivered" only if the consumer *)
(* accepted the version that is stored now, whatever was in flight when    *)
(* the event changed and wherever the process was killed.                  *)
DeliveredWasReceived ==
  \A s \in Sinks, e \in Events :
    row[s][e].status = "delivered" => signal[e] \in received[s][e]

(* No stored event is missing from the outbox of a backfilled sink: those  *)
(* stored before its first registration and those of any write since.      *)
OutboxComplete ==
  \A s \in enabled \cap Backfill : \A e \in Stored : row[s][e].status # "none"

(* The strengthening under which the safety properties are inductive. *)
Inv ==
  /\ TypeOK
  /\ FlightsMatchWorkers
  /\ BusyRowsAreOpen
  /\ StaleReadsAreHigh
  /\ BudgetRespected
  /\ RowsHaveSignals
  /\ DeliveredWasReceived

(* What a consumer applied last is what the store says it has: it ends up  *)
(* with the newest version, not only with a copy of it somewhere.          *)
DeliveredIsHeld ==
  \A s \in Sinks, e \in Events :
    row[s][e].status = "delivered" => held[s][e] = signal[e]

(* Attempts that were spent stay spent: only a new version of the event or *)
(* an operator's replay of a dead row gives a row a new budget; a restart  *)
(* with its registration and backfill does not.                            *)
BudgetNeverRefunded ==
  [][\A s \in Sinks, e \in Events :
       row'[s][e].attempts < row[s][e].attempts =>
         signal'[e] # signal[e] \/ row[s][e].status = "dead"]_vars

(* A retryable failure makes a row dead only when the row's own attempts   *)
(* have reached max_attempts (docs/OPERATIONS.md: "exhausted retry budgets *)
(* become dead").                                                          *)
RetryBudgetSpent ==
  [][\A s \in Sinks : FailRetryably(s) =>
       LET r == row'[s][flight[s].event]
       IN  r.status = "dead" => r.attempts >= MaxAttempts]_vars

(* The outbox is what the consumers were promised. *)
Promise == INSTANCE AtLeastOnce WITH
  version <- signal,
  got     <- received,
  acked   <- [s \in Sinks |-> [e \in Events |-> row[s][e].status = "delivered"]]

(* Every step of the engine, the sources, the operator and the network is  *)
(* a step of AtLeastOnce or leaves its variables alone.                    *)
ImplementsAtLeastOnce == Promise!Spec

(***************************************************************************)
(* Liveness.                                                               *)
(***************************************************************************)

(* While the process stays up, a row waiting at one of its sinks is        *)
(* delivered or becomes dead; a busy or failing neighbour, a batch limit   *)
(* or a backoff does not starve it.                                        *)
OpenRowsSettle ==
  \A s \in Sinks, e \in Events :
    (running /\ s \in configured /\ Open(s, e)) ~> (~running \/ ~Open(s, e))
=============================================================================
