--------------------------- MODULE DeliveryProofs ---------------------------
(***************************************************************************)
(* Proofs about Delivery for every set of events, payloads and sinks and   *)
(* every value of the other constants.  Inv is the inductive invariant;    *)
(* its preservation is proved action by action, from lemmas that say what  *)
(* each store transaction and each step of a worker changes.               *)
(***************************************************************************)
EXTENDS Delivery, OutboxProofs, FiniteSetTheorems

USE OutboxAssumption, DeliveryAssumption

-----------------------------------------------------------------------------
(* What a worker's step does to the engine's variables. *)

(* The types of the engine's own variables, apart from "tried". *)
WorkersTypeOK ==
  /\ worker \in [Sinks -> {"off", "idle", "sending", "crashed"}]
  /\ todo \in [Sinks -> SUBSET Events]
  /\ flight \in [Sinks -> Request \cup {NoFlight}]

(* A request is never the absence of one. *)
LEMMA RequestIsNotNoFlight == NoFlight \notin Request /\ NoFlight.event \notin Events
  BY DEF Request, NoFlight

(* Going on with "rest" leaves the other workers alone, and of the records *)
(* of "rest" one is in flight, unaccepted, and the others are to be tried. *)
LEMMA TryNextEffect ==
  ASSUME WorkersTypeOK, signal \in [Events -> Payloads \cup {None}],
         NEW s \in Sinks, NEW rest \in SUBSET Events,
         \A e \in rest : signal[e] # None,
         TryNext(s, rest)
  PROVE  /\ WorkersTypeOK'
         /\ \A t \in Sinks : t # s => /\ worker'[t] = worker[t]
                                      /\ flight'[t] = flight[t]
                                      /\ todo'[t] = todo[t]
         /\ worker'[s] = "sending" <=> flight'[s] # NoFlight
         /\ worker'[s] # "sending" => todo'[s] = {}
         /\ flight'[s].event \notin todo'[s]
         /\ ~flight'[s].accepted
         /\ worker'[s] = "sending" => flight'[s].event \in rest
         /\ todo'[s] \subseteq rest
<1>1. CASE /\ rest = {}
           /\ worker' = [worker EXCEPT ![s] = "idle"]
           /\ flight' = [flight EXCEPT ![s] = NoFlight]
           /\ todo' = [todo EXCEPT ![s] = {}]
  <2>1. WorkersTypeOK'
    BY <1>1 DEF WorkersTypeOK
  <2>2. worker'[s] = "idle" /\ flight'[s] = NoFlight /\ todo'[s] = {}
    BY <1>1 DEF WorkersTypeOK
  <2>3. ~NoFlight.accepted
    BY DEF NoFlight
  <2> QED
    BY <1>1, <2>1, <2>2, <2>3 DEF WorkersTypeOK
<1>2. ASSUME NEW e \in rest,
             worker' = [worker EXCEPT ![s] = "sending"],
             flight' = [flight EXCEPT ![s] =
                          [event |-> e, payload |-> signal[e], accepted |-> FALSE]],
             todo' = [todo EXCEPT ![s] = rest \ {e}]
      PROVE  /\ WorkersTypeOK'
             /\ \A t \in Sinks : t # s => /\ worker'[t] = worker[t]
                                          /\ flight'[t] = flight[t]
                                          /\ todo'[t] = todo[t]
             /\ worker'[s] = "sending" <=> flight'[s] # NoFlight
             /\ worker'[s] # "sending" => todo'[s] = {}
             /\ flight'[s].event \notin todo'[s]
             /\ ~flight'[s].accepted
             /\ worker'[s] = "sending" => flight'[s].event \in rest
             /\ todo'[s] \subseteq rest
  <2> DEFINE req == [event |-> e, payload |-> signal[e], accepted |-> FALSE]
  <2>1. req \in Request /\ req.event = e /\ req.accepted = FALSE
    BY <1>2 DEF Request
  <2>2. req # NoFlight
    BY <2>1, RequestIsNotNoFlight
  <2>3. worker'[s] = "sending" /\ flight'[s] = req /\ todo'[s] = rest \ {e}
    BY <1>2 DEF WorkersTypeOK
  <2>4. \A t \in Sinks : t # s => /\ worker'[t] = worker[t]
                                  /\ flight'[t] = flight[t]
                                  /\ todo'[t] = todo[t]
    BY <1>2 DEF WorkersTypeOK
  <2>5. WorkersTypeOK'
    BY <1>2, <2>1 DEF WorkersTypeOK
  <2> HIDE DEF req
  <2> QED
    BY <2>1, <2>2, <2>3, <2>4, <2>5
<1> QED
  BY <1>1, <1>2 DEF TryNext

(* The letters a worker may leave on the network are letters. *)
LEMMA UnansweredType ==
  ASSUME WorkersTypeOK, NEW S \in SUBSET Sinks
  PROVE  Unanswered(S) \in SUBSET Letter
<1> SUFFICES ASSUME NEW s \in S, flight[s] # NoFlight
             PROVE  [sink |-> s, event |-> flight[s].event, payload |-> flight[s].payload]
                      \in Letter
  BY DEF Unanswered
<1>1. flight[s] \in Request
  BY DEF WorkersTypeOK
<1> QED
  BY <1>1 DEF Request, Letter

(* Lingering requests keep the type of "late". *)
LEMMA MayLingerType ==
  ASSUME WorkersTypeOK, late \in SUBSET Letter, NEW S \in SUBSET Sinks,
         MayLinger(Unanswered(S))
  PROVE  late' \in SUBSET Letter
  BY UnansweredType DEF MayLinger

(* Receiving only adds to what a consumer received. *)
LEMMA ReceiveEffect ==
  ASSUME received \in [Sinks -> [Events -> SUBSET Payloads]],
         held \in [Sinks -> [Events -> Payloads \cup {None}]],
         NEW s \in Sinks, NEW e \in Events, NEW v \in Payloads,
         Receive(s, e, v)
  PROVE  /\ received' \in [Sinks -> [Events -> SUBSET Payloads]]
         /\ held' \in [Sinks -> [Events -> Payloads \cup {None}]]
         /\ v \in received'[s][e]
         /\ \A t \in Sinks, f \in Events : received[t][f] \subseteq received'[t][f]
<1> DEFINE new == received[s][e] \cup {v}
           kept == IF Dedup /\ v \in received[s][e] THEN held[s][e] ELSE v
<1>1. new \in SUBSET Payloads /\ kept \in Payloads \cup {None}
  OBVIOUS
<1>2. received' = [received EXCEPT ![s][e] = new]
  BY DEF Receive
<1>3. held' = [held EXCEPT ![s][e] = kept]
  BY DEF Receive
<1>4. held' \in [Sinks -> [Events -> Payloads \cup {None}]]
  BY <1>1, <1>3
<1>5. received' \in [Sinks -> [Events -> SUBSET Payloads]]
  BY <1>1, <1>2
<1>6. received'[s][e] = new
  BY <1>2
<1>7. \A t \in Sinks, f \in Events : t # s \/ f # e => received'[t][f] = received[t][f]
  BY <1>2
<1> QED
  BY <1>4, <1>5, <1>6, <1>7

(* Finishing a record removes it from the worker's hands. *)
LEMMA FinishEffect ==
  ASSUME Inv, NEW s \in Sinks, worker[s] = "sending", Finish(s)
  PROVE  /\ WorkersTypeOK'
         /\ tried' \in [Sinks -> [Events -> Nat]]
         /\ running' = running /\ configured' = configured
         /\ \A t \in Sinks : t # s => /\ worker'[t] = worker[t]
                                      /\ flight'[t] = flight[t]
                                      /\ todo'[t] = todo[t]
                                      /\ tried'[t] = tried[t]
         /\ worker'[s] # "off"
         /\ worker'[s] = "sending" <=> flight'[s] # NoFlight
         /\ worker'[s] # "sending" => todo'[s] = {}
         /\ flight'[s].event \notin todo'[s]
         /\ ~flight'[s].accepted
         /\ Busy(s)' \subseteq todo[s]
         /\ \A e \in todo[s] : tried'[s][e] = tried[s][e]
<1>1. WorkersTypeOK /\ todo[s] \in SUBSET Events
  BY DEF Inv, TypeOK, WorkersTypeOK
<1>2. \A e \in todo[s] : signal[e] # None
  BY <1>1 DEF Inv, BusyRowsAreOpen, Busy, Open, RowsHaveSignals
<1>3. TryNext(s, todo[s])
  BY DEF Finish
<1>4. signal \in [Events -> Payloads \cup {None}]
  BY DEF Inv, TypeOK, StoreTypeOK
<1>5. /\ WorkersTypeOK'
      /\ \A t \in Sinks : t # s => /\ worker'[t] = worker[t]
                                   /\ flight'[t] = flight[t]
                                   /\ todo'[t] = todo[t]
      /\ worker'[s] = "sending" <=> flight'[s] # NoFlight
      /\ worker'[s] # "sending" => todo'[s] = {}
      /\ flight'[s].event \notin todo'[s]
      /\ ~flight'[s].accepted
      /\ worker'[s] = "sending" => flight'[s].event \in todo[s]
      /\ todo'[s] \subseteq todo[s]
  BY <1>1, <1>2, <1>3, <1>4, TryNextEffect
<1>6. worker'[s] # "off"
  BY <1>1, <1>3 DEF TryNext, WorkersTypeOK
<1>7. flight[s] \in Request /\ flight[s].event \in Events /\ flight[s].event \notin todo[s]
  BY <1>1 DEF Inv, FlightsMatchWorkers, WorkersTypeOK, Request
<1>8. tried \in [Sinks -> [Events -> Nat]]
  BY DEF Inv, TypeOK
<1>9. tried' = [tried EXCEPT ![s][flight[s].event] = 0]
  BY DEF Finish
<1>10. tried' \in [Sinks -> [Events -> Nat]]
  BY <1>8, <1>9
<1>11. \A t \in Sinks : t # s => tried'[t] = tried[t]
  BY <1>8, <1>9
<1>12. \A e \in todo[s] : tried'[s][e] = tried[s][e]
  BY <1>1, <1>7, <1>8, <1>9
<1>13. Busy(s)' \subseteq todo[s]
  BY <1>5 DEF Busy
<1>14. running' = running /\ configured' = configured
  BY DEF Finish
<1> QED
  BY <1>5, <1>6, <1>10, <1>11, <1>12, <1>13, <1>14

-----------------------------------------------------------------------------
(* The inductive invariant, one lemma for each kind of step. *)

(* The invariant holds of an empty store and a stopped process. *)
LEMMA InvInit == Init => Inv
<1> SUFFICES ASSUME Init PROVE Inv
  OBVIOUS
<1> USE DEF Init, StoreInit
<1>1. TypeOK
  BY FreshRowType DEF TypeOK, StoreTypeOK, Untried
<1>2. \A s \in Sinks : Busy(s) = {}
  BY DEF Busy
<1>3. FlightsMatchWorkers
  BY DEF FlightsMatchWorkers, NoFlight
<1>4. \A s \in Sinks, e \in Events : row[s][e].status = "none"
  BY DEF NoRow
<1> QED
  BY <1>1, <1>2, <1>3, <1>4
     DEF Inv, BusyRowsAreOpen, StaleReadsAreHigh, BudgetRespected, Open,
         RowsHaveSignals, DeliveredWasReceived

(* Starting a process: nobody is busy, and rows appear only fresh. *)
LEMMA StartInv ==
  ASSUME Inv, NEW S \in SUBSET Sinks, Start(S)
  PROVE  Inv'
<1> USE DEF Inv
<1>1. /\ StoreTypeOK'
      /\ signal' = signal
      /\ enabled \subseteq enabled'
      /\ \A s \in Sinks, e \in Events :
           \/ row'[s][e] = row[s][e]
           \/ /\ row[s][e].status = "none"
              /\ row'[s][e] = FreshRow
              /\ s \in enabled'
              /\ signal[e] # None
  BY RegisterSinksEffect DEF Start, TypeOK
<1>2. TypeOK'
  BY <1>1 DEF TypeOK, Start, consumerVars
<1>3. \A s \in Sinks : worker[s] = "off" /\ flight[s] = NoFlight /\ todo[s] = {}
  BY DEF FlightsMatchWorkers, Start
<1>4. /\ running' = TRUE /\ configured' = S
      /\ worker' = [s \in Sinks |-> IF s \in S THEN "idle" ELSE "off"]
      /\ flight' = flight /\ todo' = todo /\ received' = received
  BY DEF Start, consumerVars
<1>5. FlightsMatchWorkers'
  BY <1>3, <1>4 DEF FlightsMatchWorkers, NoFlight
<1>6. \A s \in Sinks : Busy(s)' = {}
  BY <1>3, <1>4 DEF Busy
<1>7. BusyRowsAreOpen' /\ StaleReadsAreHigh'
  BY <1>6 DEF BusyRowsAreOpen, StaleReadsAreHigh
<1>8. BudgetRespected'
  BY <1>1 DEF BudgetRespected, Open, FreshRow
<1>9. RowsHaveSignals'
  BY <1>1 DEF RowsHaveSignals
<1>10. DeliveredWasReceived'
  BY <1>1, <1>4 DEF DeliveredWasReceived, FreshRow
<1> QED
  BY <1>2, <1>5, <1>7, <1>8, <1>9, <1>10

(* Stopping or killing it: nobody is busy, and the store is as it was. *)
LEMMA HaltInv ==
  ASSUME Inv, Halt
  PROVE  Inv'
<1> USE DEF Inv
<1>1. /\ signal' = signal /\ enabled' = enabled /\ row' = row /\ older' = older
      /\ received' = received /\ held' = held
      /\ running' = FALSE
      /\ worker' = [s \in Sinks |-> "off"]
      /\ todo' = [s \in Sinks |-> {}]
      /\ flight' = [s \in Sinks |-> NoFlight]
  BY DEF Halt, storeVars
<1>2. late' \in SUBSET Letter
  BY MayLingerType DEF Halt, TypeOK, WorkersTypeOK
<1>3. TypeOK'
  BY <1>1, <1>2 DEF TypeOK, StoreTypeOK, Halt, Untried
<1>4. FlightsMatchWorkers'
  BY <1>1 DEF FlightsMatchWorkers, NoFlight
<1>5. \A s \in Sinks : Busy(s)' = {}
  BY <1>1 DEF Busy
<1> QED
  BY <1>1, <1>3, <1>4, <1>5
     DEF BusyRowsAreOpen, StaleReadsAreHigh, BudgetRespected, Open,
         RowsHaveSignals, DeliveredWasReceived

(* A commit requeues what it changes, so nothing stays "delivered" that the *)
(* consumer did not get.                                                    *)
LEMMA SourceWriteInv ==
  ASSUME Inv, SourceWrite
  PROVE  Inv'
<1> USE DEF Inv
<1>1. PICK E \in SUBSET Events : \E batch \in [E -> Payloads] : WriteMany(batch)
  BY DEF SourceWrite
<1>2. PICK batch \in [E -> Payloads] : WriteMany(batch)
  BY <1>1
<1>3. /\ StoreTypeOK'
      /\ enabled' = enabled
      /\ \A e \in Events : signal'[e] = signal[e] \/ signal'[e] \in Payloads
      /\ \A s \in Sinks, e \in Events :
           IF s \in enabled /\ signal'[e] # signal[e]
           THEN row'[s][e] = FreshRow
           ELSE row'[s][e] = row[s][e]
  BY <1>2, WriteManyEffect DEF TypeOK
<1>4. UNCHANGED <<running, configured, worker, todo, tried, flight, received, held, late>>
  BY DEF SourceWrite, engineVars, consumerVars
<1>5. TypeOK'
  BY <1>3, <1>4 DEF TypeOK
<1>6. FlightsMatchWorkers'
  BY <1>4 DEF FlightsMatchWorkers
<1>7. \A s \in Sinks : Busy(s)' = Busy(s)
  BY <1>4 DEF Busy
<1>8. \A s \in Sinks : Busy(s) \subseteq Events
  BY RequestIsNotNoFlight
     DEF Busy, TypeOK, FlightsMatchWorkers, Request
<1>9. BusyRowsAreOpen'
  BY <1>3, <1>7, <1>8 DEF BusyRowsAreOpen, Open, FreshRow
<1>10. StaleReadsAreHigh'
  <2>1. \A s \in Sinks, e \in Events : tried[s][e] \in Nat
    BY DEF TypeOK
  <2> QED
    BY <1>3, <1>4, <1>7, <1>8, <2>1 DEF StaleReadsAreHigh, FreshRow
<1>11. BudgetRespected'
  BY <1>3 DEF BudgetRespected, Open, FreshRow
<1>12. RowsHaveSignals'
  BY <1>3 DEF RowsHaveSignals, FreshRow
<1>13. DeliveredWasReceived'
  BY <1>3, <1>4 DEF DeliveredWasReceived, RowsHaveSignals, FreshRow
<1> QED
  BY <1>5, <1>6, <1>9, <1>10, <1>11, <1>12, <1>13

(* A pass takes up ready rows only, and remembers their attempts. *)
LEMMA PollInv ==
  ASSUME Inv, NEW s \in Sinks, Poll(s)
  PROVE  Inv'
<1> USE DEF Inv
<1>1. PICK B \in ReadyBatches(s, BatchSize) \ {{}} :
        /\ tried' = [tried EXCEPT ![s] =
                       [e \in Events |-> IF e \in B THEN row[s][e].attempts ELSE 0]]
        /\ TryNext(s, B)
  BY DEF Poll
<1>2. UNCHANGED <<signal, enabled, row, older, running, configured, received, held, late>>
  BY DEF Poll, storeVars, consumerVars
<1>3. B \in SUBSET Events /\ \A e \in B : Open(s, e)
  BY DEF ReadyBatches, Ready
<1>4. \A e \in B : signal[e] # None /\ row[s][e].attempts < MaxAttempts
  BY <1>3 DEF RowsHaveSignals, Open, BudgetRespected
<1>5. WorkersTypeOK /\ signal \in [Events -> Payloads \cup {None}]
  BY DEF TypeOK, StoreTypeOK, WorkersTypeOK
<1>6. /\ WorkersTypeOK'
      /\ \A t \in Sinks : t # s => /\ worker'[t] = worker[t]
                                   /\ flight'[t] = flight[t]
                                   /\ todo'[t] = todo[t]
      /\ worker'[s] = "sending" <=> flight'[s] # NoFlight
      /\ worker'[s] # "sending" => todo'[s] = {}
      /\ flight'[s].event \notin todo'[s]
      /\ ~flight'[s].accepted
      /\ worker'[s] = "sending" => flight'[s].event \in B
      /\ todo'[s] \subseteq B
  BY <1>1, <1>3, <1>4, <1>5, TryNextEffect
<1>7. \A t \in Sinks, e \in Events : row[t][e].attempts \in Nat
  BY DEF TypeOK, StoreTypeOK, Row, NoRow
<1>8. tried' \in [Sinks -> [Events -> Nat]]
  <2>1. [e \in Events |-> IF e \in B THEN row[s][e].attempts ELSE 0] \in [Events -> Nat]
    BY <1>7
  <2> QED
    BY <1>1, <2>1 DEF TypeOK
<1>9. TypeOK'
  BY <1>2, <1>6, <1>8 DEF TypeOK, StoreTypeOK, WorkersTypeOK
<1>10. worker[s] = "idle" /\ worker'[s] # "off"
  BY <1>1, <1>5 DEF Poll, TryNext, WorkersTypeOK
<1>11. FlightsMatchWorkers'
  BY <1>2, <1>6, <1>10 DEF FlightsMatchWorkers
<1>12. Busy(s)' \subseteq B /\ \A t \in Sinks : t # s => Busy(t)' = Busy(t)
  BY <1>6 DEF Busy
<1>13. /\ \A e \in B : tried'[s][e] = row[s][e].attempts
       /\ \A t \in Sinks : t # s => tried'[t] = tried[t]
  BY <1>1, <1>3 DEF TypeOK
<1>14. BusyRowsAreOpen'
  BY <1>2, <1>3, <1>12 DEF BusyRowsAreOpen, Open
<1>15. StaleReadsAreHigh'
  <2>1. \A e \in B : row[s][e].attempts <= tried'[s][e] /\ tried'[s][e] < MaxAttempts
    BY <1>3, <1>4, <1>7, <1>13
  <2> QED
    BY <1>2, <1>12, <1>13, <2>1 DEF StaleReadsAreHigh
<1> QED
  BY <1>2, <1>9, <1>11, <1>14, <1>15
     DEF BudgetRespected, Open, RowsHaveSignals, DeliveredWasReceived

(* Acceptance adds to what was received, and leaves the rows alone. *)
LEMMA AcceptInv ==
  ASSUME Inv, NEW s \in Sinks, Accept(s)
  PROVE  Inv'
<1> USE DEF Inv
<1> DEFINE e == flight[s].event
           v == flight[s].payload
<1>1. flight[s] \in Request
  BY DEF Accept, FlightsMatchWorkers, TypeOK
<1>2. e \in Events /\ v \in Payloads
  BY <1>1 DEF Request
<1>3. /\ received' \in [Sinks -> [Events -> SUBSET Payloads]]
      /\ held' \in [Sinks -> [Events -> Payloads \cup {None}]]
      /\ v \in received'[s][e]
      /\ \A t \in Sinks, f \in Events : received[t][f] \subseteq received'[t][f]
  BY <1>2, ReceiveEffect DEF Accept, TypeOK
<1>4. UNCHANGED <<signal, enabled, row, older, running, configured, worker, todo, tried, late>>
  BY DEF Accept, storeVars
<1>5. flight' = [flight EXCEPT ![s].accepted = TRUE]
  BY DEF Accept
<1>6. /\ flight'[s] \in Request /\ flight'[s].event = e /\ flight'[s].payload = v
      /\ \A t \in Sinks : t # s => flight'[t] = flight[t]
  BY <1>1, <1>5 DEF Request, TypeOK
<1>7. flight' \in [Sinks -> Request \cup {NoFlight}]
  <2>1. [flight[s] EXCEPT !.accepted = TRUE] \in Request
    BY <1>1 DEF Request
  <2> QED
    BY <1>5, <2>1 DEF TypeOK
<1>8. TypeOK'
  BY <1>3, <1>4, <1>7 DEF TypeOK, StoreTypeOK
<1>9. \A t \in Sinks : Busy(t)' = Busy(t)
  BY <1>4, <1>6 DEF Busy
<1>10. FlightsMatchWorkers'
  <2>1. ASSUME NEW t \in Sinks, t # s, flight'[t].accepted
        PROVE  flight'[t].payload \in received'[t][flight'[t].event]
    <3>1. flight'[t] = flight[t] /\ flight[t].payload \in received[t][flight[t].event]
      BY <2>1, <1>6 DEF FlightsMatchWorkers
    <3>2. flight[t] \in Request
      BY <2>1, <3>1 DEF TypeOK, NoFlight
    <3> QED
      BY <3>1, <3>2, <1>3 DEF Request
  <2>2. worker[s] = "sending" /\ flight'[s] # NoFlight
    BY <1>6, RequestIsNotNoFlight DEF Accept
  <2>3. \A t \in Sinks : flight'[t].event = flight[t].event
    BY <1>6
  <2> QED
    BY <1>3, <1>4, <1>6, <2>1, <2>2, <2>3 DEF FlightsMatchWorkers
<1> QED
  BY <1>3, <1>4, <1>8, <1>9, <1>10
     DEF BusyRowsAreOpen, StaleReadsAreHigh, BudgetRespected, Open,
         RowsHaveSignals, DeliveredWasReceived

(* So does a request that arrives after it was given up. *)
LEMMA ArriveLateInv ==
  ASSUME Inv, ArriveLate
  PROVE  Inv'
<1> USE DEF Inv
<1>1. PICK l \in late : late' = late \ {l} /\ Receive(l.sink, l.event, l.payload)
  BY DEF ArriveLate
<1>2. l.sink \in Sinks /\ l.event \in Events /\ l.payload \in Payloads
  BY DEF TypeOK, Letter
<1>3. /\ received' \in [Sinks -> [Events -> SUBSET Payloads]]
      /\ held' \in [Sinks -> [Events -> Payloads \cup {None}]]
      /\ \A t \in Sinks, f \in Events : received[t][f] \subseteq received'[t][f]
  BY <1>1, <1>2, ReceiveEffect DEF TypeOK
<1>4. UNCHANGED <<signal, enabled, row, older, running, configured, worker, todo, tried, flight>>
  BY DEF ArriveLate, storeVars, engineVars
<1>5. TypeOK'
  BY <1>1, <1>3, <1>4 DEF TypeOK, StoreTypeOK
<1>6. \A t \in Sinks : Busy(t)' = Busy(t)
  BY <1>4 DEF Busy
<1>7. FlightsMatchWorkers'
  <2>1. ASSUME NEW t \in Sinks, flight[t].accepted
        PROVE  flight[t].payload \in received'[t][flight[t].event]
    <3>1. flight[t] \in Request
      BY <2>1 DEF TypeOK, NoFlight
    <3> QED
      BY <2>1, <3>1, <1>3 DEF FlightsMatchWorkers, Request
  <2> QED
    BY <1>4, <2>1 DEF FlightsMatchWorkers
<1> QED
  BY <1>3, <1>4, <1>5, <1>6, <1>7
     DEF BusyRowsAreOpen, StaleReadsAreHigh, BudgetRespected, Open,
         RowsHaveSignals, DeliveredWasReceived

(* The end of an attempt, whatever its outcome.  It disturbs one row, the  *)
(* one in flight, and takes it out of the worker's hands; so the invariant *)
(* is kept if the row's new contents satisfy it on their own.              *)
LEMMA OutcomeInv ==
  ASSUME Inv, NEW s \in Sinks, worker[s] = "sending", Finish(s),
         StoreTypeOK', signal' = signal, enabled' = enabled,
         UNCHANGED <<received, held>>, late' \in SUBSET Letter,
         \A t \in Sinks, f \in Events :
           t # s \/ f # flight[s].event => row'[t][f] = row[t][f],
         row'[s][flight[s].event].status \in {"pending", "failed"}
           => row'[s][flight[s].event].attempts < MaxAttempts,
         row'[s][flight[s].event].status = "delivered"
           => signal[flight[s].event] \in received[s][flight[s].event]
  PROVE  Inv'
<1> USE DEF Inv
<1> DEFINE e == flight[s].event
<1>1. flight[s] \in Request /\ e \in Events /\ e \notin todo[s]
  BY DEF FlightsMatchWorkers, TypeOK, Request
<1>2. e \in Busy(s) /\ todo[s] \subseteq Busy(s) /\ todo[s] \subseteq Events
  BY DEF Busy, TypeOK
<1>3. row[s][e].status # "none" /\ s \in enabled /\ signal[e] # None
  BY <1>1, <1>2 DEF BusyRowsAreOpen, Open, RowsHaveSignals
<1>4. /\ WorkersTypeOK'
      /\ tried' \in [Sinks -> [Events -> Nat]]
      /\ running' = running /\ configured' = configured
      /\ \A t \in Sinks : t # s => /\ worker'[t] = worker[t]
                                   /\ flight'[t] = flight[t]
                                   /\ todo'[t] = todo[t]
                                   /\ tried'[t] = tried[t]
      /\ worker'[s] # "off"
      /\ worker'[s] = "sending" <=> flight'[s] # NoFlight
      /\ worker'[s] # "sending" => todo'[s] = {}
      /\ flight'[s].event \notin todo'[s]
      /\ ~flight'[s].accepted
      /\ Busy(s)' \subseteq todo[s]
      /\ \A f \in todo[s] : tried'[s][f] = tried[s][f]
  BY FinishEffect
<1>5. TypeOK'
  BY <1>4 DEF TypeOK, WorkersTypeOK
<1>6. FlightsMatchWorkers'
  BY <1>4 DEF FlightsMatchWorkers
<1>7. \A t \in Sinks : t # s => Busy(t)' = Busy(t) /\ Busy(t) \subseteq Events
  BY <1>4 DEF Busy, TypeOK, FlightsMatchWorkers, Request
<1>8. \A t \in Sinks : \A f \in Busy(t)' :
        f \in Busy(t) /\ row'[t][f] = row[t][f] /\ tried'[t][f] = tried[t][f]
  <2>1. ASSUME NEW f \in Busy(s)'
        PROVE  f \in Busy(s) /\ row'[s][f] = row[s][f] /\ tried'[s][f] = tried[s][f]
    BY <2>1, <1>1, <1>2, <1>4
  <2>2. ASSUME NEW t \in Sinks, t # s, NEW f \in Busy(t)'
        PROVE  f \in Busy(t) /\ row'[t][f] = row[t][f] /\ tried'[t][f] = tried[t][f]
    BY <2>2, <1>4, <1>7
  <2> QED
    BY <2>1, <2>2
<1>9. BusyRowsAreOpen' /\ StaleReadsAreHigh'
  BY <1>8 DEF BusyRowsAreOpen, StaleReadsAreHigh, Open
<1>10. BudgetRespected'
  <2> SUFFICES ASSUME NEW t \in Sinks, NEW f \in Events,
                      row'[t][f].status \in {"pending", "failed"}
               PROVE  row'[t][f].attempts < MaxAttempts
    BY DEF BudgetRespected, Open
  <2>1. CASE t = s /\ f = e
    BY <2>1
  <2>2. CASE t # s \/ f # e
    BY <2>2 DEF BudgetRespected, Open
  <2> QED
    BY <2>1, <2>2
<1>11. RowsHaveSignals'
  BY <1>3 DEF RowsHaveSignals
<1>12. DeliveredWasReceived'
  BY DEF DeliveredWasReceived
<1> QED
  BY <1>5, <1>6, <1>9, <1>10, <1>11, <1>12

(* Acknowledging: the current version was sent, and accepted. *)
LEMMA AcknowledgeInv ==
  ASSUME Inv, NEW s \in Sinks, Acknowledge(s)
  PROVE  Inv'
<1> DEFINE e == flight[s].event
<1>1. e \in Events
  BY DEF Acknowledge, Inv, FlightsMatchWorkers, TypeOK, Request
<1>2. /\ StoreTypeOK'
      /\ signal' = signal /\ enabled' = enabled
      /\ row'[s][e].status = "delivered"
      /\ \A t \in Sinks, f \in Events : t # s \/ f # e => row'[t][f] = row[t][f]
  BY <1>1, MarkSuccessEffect DEF Acknowledge, Inv, TypeOK
<1>3. signal[e] \in received[s][e]
  BY DEF Acknowledge, Inv, FlightsMatchWorkers
<1>4. row'[s][e].status \notin {"pending", "failed"}
  BY <1>2
<1>5. UNCHANGED <<received, held>> /\ late' \in SUBSET Letter
  BY DEF Acknowledge, consumerVars, Inv, TypeOK
<1> QED
  BY <1>2, <1>3, <1>4, <1>5, OutcomeInv DEF Acknowledge

(* A superseded delivery writes nothing. *)
LEMMA SupersedeInv ==
  ASSUME Inv, NEW s \in Sinks, Supersede(s)
  PROVE  Inv'
<1> DEFINE e == flight[s].event
<1>1. e \in Events
  BY DEF Supersede, Inv, FlightsMatchWorkers, TypeOK, Request
<1>2. signal' = signal /\ enabled' = enabled /\ row' = row /\ older' = older
  BY DEF Supersede, storeVars
<1>3. StoreTypeOK'
  BY <1>2 DEF Inv, TypeOK, StoreTypeOK
<1>4. row'[s][e].status \in {"pending", "failed"} => row'[s][e].attempts < MaxAttempts
  BY <1>1, <1>2 DEF Inv, BudgetRespected, Open
<1>5. row'[s][e].status = "delivered" => signal[e] \in received[s][e]
  BY <1>1, <1>2 DEF Inv, DeliveredWasReceived
<1>6. UNCHANGED <<received, held>> /\ late' \in SUBSET Letter
  BY DEF Supersede, consumerVars, Inv, TypeOK
<1> QED
  BY <1>2, <1>3, <1>4, <1>5, <1>6, OutcomeInv DEF Supersede

(* A failure that leaves the row open leaves it within its budget, since   *)
(* the attempts the pass read are no fewer than those of the row.          *)
LEMMA FailureInv ==
  ASSUME Inv, NEW s \in Sinks, NEW dead \in BOOLEAN, worker[s] = "sending",
         MarkFailure(s, flight[s].event, dead), Finish(s),
         Exhausted(s, flight[s].event) => dead,
         UNCHANGED <<received, held>>, late' \in SUBSET Letter
  PROVE  Inv'
<1> DEFINE e == flight[s].event
<1>1. e \in Events /\ e \in Busy(s)
  BY DEF Busy, Inv, FlightsMatchWorkers, TypeOK, Request
<1>2. /\ StoreTypeOK'
      /\ signal' = signal /\ enabled' = enabled
      /\ row'[s][e].status = IF dead THEN "dead" ELSE "failed"
      /\ row'[s][e].attempts = row[s][e].attempts + 1
      /\ \A t \in Sinks, f \in Events : t # s \/ f # e => row'[t][f] = row[t][f]
  BY <1>1, MarkFailureEffect DEF Inv, TypeOK
<1>3. row'[s][e].status \in {"pending", "failed"} => row'[s][e].attempts < MaxAttempts
  <2> SUFFICES ASSUME ~dead PROVE row'[s][e].attempts < MaxAttempts
    BY <1>2
  <2>1. row[s][e].attempts \in Nat /\ tried[s][e] \in Nat
    BY <1>1 DEF Inv, TypeOK, StoreTypeOK, Row, NoRow
  <2>2. row[s][e].attempts <= tried[s][e] /\ tried[s][e] + 1 < MaxAttempts
    BY <1>1, <2>1 DEF Inv, StaleReadsAreHigh, Exhausted
  <2> QED
    BY <1>2, <2>1, <2>2
<1>4. row'[s][e].status # "delivered"
  BY <1>2
<1> QED
  BY <1>2, <1>3, <1>4, OutcomeInv

(* The two failures of an attempt. *)
LEMMA FailInv ==
  ASSUME Inv, NEW s \in Sinks, FailRetryably(s) \/ FailPermanently(s)
  PROVE  Inv'
<1>1. CASE FailRetryably(s)
  <2>1. late' \in SUBSET Letter
    BY <1>1, MayLingerType DEF FailRetryably, Inv, TypeOK, WorkersTypeOK
  <2>2. Exhausted(s, flight[s].event) \in BOOLEAN
    BY DEF Exhausted
  <2> QED
    BY <1>1, <2>1, <2>2, FailureInv DEF FailRetryably
<1>2. CASE FailPermanently(s)
  <2>1. UNCHANGED <<received, held>> /\ late' \in SUBSET Letter
    BY <1>2 DEF FailPermanently, consumerVars, Inv, TypeOK
  <2> QED
    BY <1>2, <2>1, FailureInv DEF FailPermanently
<1> QED
  BY <1>1, <1>2

(* A worker that dies forgets its pass; the rows stay as they are. *)
LEMMA LockedOutInv ==
  ASSUME Inv, NEW s \in Sinks, LockedOut(s)
  PROVE  Inv'
<1> USE DEF Inv
<1>1. /\ UNCHANGED <<signal, enabled, row, older, running, configured, received, held>>
      /\ worker' = [worker EXCEPT ![s] = "crashed"]
      /\ flight' = [flight EXCEPT ![s] = NoFlight]
      /\ todo' = [todo EXCEPT ![s] = {}]
      /\ tried' = [tried EXCEPT ![s] = Untried]
      /\ worker[s] \in {"idle", "sending"}
  BY DEF LockedOut, storeVars
<1>2. late' \in SUBSET Letter
  BY MayLingerType DEF LockedOut, TypeOK, WorkersTypeOK
<1>3. Untried \in [Events -> Nat]
  BY DEF Untried
<1>4. TypeOK'
  BY <1>1, <1>2, <1>3 DEF TypeOK, StoreTypeOK
<1>5. worker'[s] = "crashed" /\ flight'[s] = NoFlight /\ todo'[s] = {}
  BY <1>1 DEF TypeOK
<1>6. \A t \in Sinks : t # s =>
        /\ worker'[t] = worker[t] /\ flight'[t] = flight[t]
        /\ todo'[t] = todo[t] /\ tried'[t] = tried[t]
  BY <1>1 DEF TypeOK
<1>7. FlightsMatchWorkers'
  <2>1. worker[s] # "off" /\ NoFlight.accepted = FALSE
    BY <1>1 DEF NoFlight
  <2>2. running' = running /\ configured' = configured /\ received' = received
    BY <1>1
  <2> QED
    BY <2>1, <2>2, <1>5, <1>6 DEF FlightsMatchWorkers
<1>8. Busy(s)' = {} /\ \A t \in Sinks : t # s => Busy(t)' = Busy(t)
  BY <1>5, <1>6 DEF Busy
<1> QED
  BY <1>1, <1>4, <1>6, <1>7, <1>8
     DEF BusyRowsAreOpen, StaleReadsAreHigh, BudgetRespected, Open,
         RowsHaveSignals, DeliveredWasReceived

(* A replay touches dead rows only, and no worker holds one. *)
LEMMA ReplayDeadInv ==
  ASSUME Inv, NEW s \in Sinks, ReplayDead(s)
  PROVE  Inv'
<1> USE DEF Inv
<1>1. /\ StoreTypeOK'
      /\ signal' = signal /\ enabled' = enabled
      /\ \A t \in Sinks, e \in Events :
           IF t = s /\ row[t][e].status = "dead"
           THEN row'[t][e] = FreshRow
           ELSE row'[t][e] = row[t][e]
  BY RetryDeadEffect DEF ReplayDead, TypeOK
<1>2. UNCHANGED <<running, configured, worker, todo, tried, flight, received, held, late>>
  BY DEF ReplayDead, engineVars, consumerVars
<1>3. TypeOK'
  BY <1>1, <1>2 DEF TypeOK
<1>4. FlightsMatchWorkers'
  BY <1>2 DEF FlightsMatchWorkers
<1>5. \A t \in Sinks : Busy(t)' = Busy(t) /\ Busy(t) \subseteq Events
  BY <1>2 DEF Busy, TypeOK, FlightsMatchWorkers, Request
<1>6. \A t \in Sinks : \A e \in Busy(t) : row'[t][e] = row[t][e]
  BY <1>1, <1>5 DEF BusyRowsAreOpen, Open
<1>7. BusyRowsAreOpen' /\ StaleReadsAreHigh'
  BY <1>2, <1>5, <1>6 DEF BusyRowsAreOpen, StaleReadsAreHigh, Open
<1>8. BudgetRespected' /\ RowsHaveSignals' /\ DeliveredWasReceived'
  BY <1>1, <1>2 DEF BudgetRespected, Open, RowsHaveSignals, DeliveredWasReceived, FreshRow
<1> QED
  BY <1>3, <1>4, <1>7, <1>8

(* The clock disturbs nothing the invariant speaks of. *)
LEMMA TimePassesInv ==
  ASSUME Inv, NEW s \in Sinks, NEW e \in Events, TimePasses(s, e)
  PROVE  Inv'
<1> USE DEF Inv
<1>1. /\ StoreTypeOK'
      /\ signal' = signal /\ enabled' = enabled
      /\ \A t \in Sinks, f \in Events :
           /\ row'[t][f].status = row[t][f].status
           /\ row'[t][f].attempts = row[t][f].attempts
  BY ComeDueEffect DEF TimePasses, TypeOK
<1>2. UNCHANGED <<running, configured, worker, todo, tried, flight, received, held, late>>
  BY DEF TimePasses, engineVars, consumerVars
<1>3. TypeOK'
  BY <1>1, <1>2 DEF TypeOK
<1>4. \A t \in Sinks : Busy(t)' = Busy(t) /\ Busy(t) \subseteq Events
  BY <1>2 DEF Busy, TypeOK, FlightsMatchWorkers, Request
<1> QED
  BY <1>1, <1>2, <1>3, <1>4
     DEF FlightsMatchWorkers, BusyRowsAreOpen, StaleReadsAreHigh, BudgetRespected,
         Open, RowsHaveSignals, DeliveredWasReceived

(* Every step keeps the invariant. *)
LEMMA InvNext == Inv /\ [Next]_vars => Inv'
<1> SUFFICES ASSUME Inv, [Next]_vars PROVE Inv'
  OBVIOUS
<1>1. CASE \E S \in SUBSET Sinks : Start(S)
  BY <1>1, StartInv
<1>2. CASE Halt
  BY <1>2, HaltInv
<1>3. CASE SourceWrite
  BY <1>3, SourceWriteInv
<1>4. CASE ArriveLate
  BY <1>4, ArriveLateInv
<1>5. ASSUME NEW s \in Sinks,
             \/ Poll(s) \/ Accept(s) \/ Acknowledge(s) \/ Supersede(s)
             \/ FailRetryably(s) \/ FailPermanently(s) \/ LockedOut(s)
             \/ ReplayDead(s)
             \/ \E e \in Events : TimePasses(s, e)
      PROVE  Inv'
  BY <1>5, PollInv, AcceptInv, AcknowledgeInv, SupersedeInv, FailInv,
     LockedOutInv, ReplayDeadInv, TimePassesInv
<1>6. CASE UNCHANGED vars
  <2> USE <1>6 DEF vars, storeVars, engineVars, consumerVars
  <2>1. TypeOK'
    BY DEF Inv, TypeOK, StoreTypeOK
  <2>2. \A s \in Sinks : Busy(s)' = Busy(s)
    BY DEF Busy
  <2> QED
    BY <2>1, <2>2
       DEF Inv, FlightsMatchWorkers, BusyRowsAreOpen, StaleReadsAreHigh,
           BudgetRespected, Open, RowsHaveSignals, DeliveredWasReceived
<1> QED
  BY <1>1, <1>2, <1>3, <1>4, <1>5, <1>6 DEF Next

(* The inductive invariant holds in every reachable state. *)
THEOREM InvHolds == Spec => []Inv
BY InvInit, InvNext, PTL DEF Spec

(* Whatever was changed or replayed since a pass read its records, the row *)
(* of every record it still has to settle is open: deliver_once may mark   *)
(* rows by key alone.                                                      *)
THEOREM BusyRowsStayOpen == Spec => []BusyRowsAreOpen
<1>1. Inv => BusyRowsAreOpen
  BY DEF Inv
<1> QED
  BY <1>1, InvHolds, PTL

(* Type correctness of the store, the engine and the consumers. *)
THEOREM TypeCorrect == Spec => []TypeOK
<1>1. Inv => TypeOK
  BY DEF Inv
<1> QED
  BY <1>1, InvHolds, PTL

(* At least once: a row is "delivered" only if the consumer accepted the    *)
(* stored version, for any number of sinks, events, crashes and mutations.  *)
THEOREM AtLeastOnceDelivery == Spec => []DeliveredWasReceived
<1>1. Inv => DeliveredWasReceived
  BY DEF Inv
<1> QED
  BY <1>1, InvHolds, PTL

(* A row that will be tried again has attempts left. *)
THEOREM RetryBudget == Spec => []BudgetRespected
<1>1. Inv => BudgetRespected
  BY DEF Inv
<1> QED
  BY <1>1, InvHolds, PTL

-----------------------------------------------------------------------------
(* How a step can change the rows and the signals. *)

(* Every kind of step, seen from one row: it keeps its status and attempts, *)
(* or it is the row whose attempt ended, or it was made fresh for a reason. *)
LEMMA RowStep ==
  ASSUME Inv, [Next]_vars, NEW s \in Sinks, NEW e \in Events
  PROVE  \/ /\ row'[s][e].status = row[s][e].status
            /\ row'[s][e].attempts = row[s][e].attempts
            /\ s \in enabled => signal'[e] = signal[e]
         \/ /\ row'[s][e].attempts = row[s][e].attempts + 1
            /\ signal'[e] = signal[e]
            /\ Open(s, e)
         \/ /\ row'[s][e] = FreshRow
            /\ signal'[e] # signal[e] \/ row[s][e].status \in {"none", "dead"}
<1> DEFINE Kept == /\ row'[s][e].status = row[s][e].status
                   /\ row'[s][e].attempts = row[s][e].attempts
                   /\ s \in enabled => signal'[e] = signal[e]
           Tried == /\ row'[s][e].attempts = row[s][e].attempts + 1
                    /\ signal'[e] = signal[e]
                    /\ Open(s, e)
           Made == /\ row'[s][e] = FreshRow
                   /\ signal'[e] # signal[e] \/ row[s][e].status \in {"none", "dead"}
<1> SUFFICES Kept \/ Tried \/ Made
  OBVIOUS
<1>1. StoreTypeOK
  BY DEF Inv, TypeOK
<1>2. ASSUME NEW S \in SUBSET Sinks, Start(S) PROVE Kept \/ Made
  <2>1. RegisterSinks(S, Backfill)
    BY <1>2 DEF Start
  <2> QED
    BY <1>1, <2>1, RegisterSinksEffect
<1>3. CASE SourceWrite
  <2>1. PICK E \in SUBSET Events : \E batch \in [E -> Payloads] : WriteMany(batch)
    BY <1>3 DEF SourceWrite
  <2>2. PICK batch \in [E -> Payloads] : WriteMany(batch)
    BY <2>1
  <2>3. IF s \in enabled /\ signal'[e] # signal[e]
        THEN row'[s][e] = FreshRow
        ELSE row'[s][e] = row[s][e]
    BY <1>1, <2>2, WriteManyEffect
  <2> QED
    BY <2>3
<1>4. ASSUME NEW t \in Sinks, worker[t] = "sending"
      PROVE  flight[t].event \in Events /\ Open(t, flight[t].event)
  BY <1>4 DEF Inv, FlightsMatchWorkers, TypeOK, Request, BusyRowsAreOpen, Busy
<1>5. ASSUME NEW t \in Sinks, Acknowledge(t) PROVE Kept \/ Tried
  <2>1. worker[t] = "sending" /\ MarkSuccess(t, flight[t].event)
    BY <1>5 DEF Acknowledge
  <2> QED
    BY <1>1, <1>4, <2>1, MarkSuccessEffect
<1>6. ASSUME NEW t \in Sinks, FailRetryably(t) \/ FailPermanently(t)
      PROVE  Kept \/ Tried
  <2>1. worker[t] = "sending"
    BY <1>6 DEF FailRetryably, FailPermanently
  <2>2. Exhausted(t, flight[t].event) \in BOOLEAN
    BY DEF Exhausted
  <2>3. PICK dead \in BOOLEAN : MarkFailure(t, flight[t].event, dead)
    BY <1>6, <2>2 DEF FailRetryably, FailPermanently
  <2> QED
    BY <1>1, <1>4, <2>1, <2>3, MarkFailureEffect
<1>7. ASSUME NEW t \in Sinks, ReplayDead(t) PROVE Kept \/ Made
  BY <1>1, <1>7, RetryDeadEffect DEF ReplayDead
<1>8. ASSUME NEW t \in Sinks, NEW f \in Events, TimePasses(t, f) PROVE Kept
  BY <1>1, <1>8, ComeDueEffect DEF TimePasses
<1>9. CASE UNCHANGED storeVars
  BY <1>9 DEF storeVars
<1>10. Halt \/ ArriveLate \/ UNCHANGED vars => UNCHANGED storeVars
  BY DEF Halt, ArriveLate, vars
<1>11. \A t \in Sinks : Poll(t) \/ Accept(t) \/ Supersede(t) \/ LockedOut(t)
                          => UNCHANGED storeVars
  BY DEF Poll, Accept, Supersede, LockedOut
<1> HIDE DEF Kept, Tried, Made
<1> QED
  BY <1>2, <1>3, <1>5, <1>6, <1>7, <1>8, <1>9, <1>10, <1>11 DEF Next

(* Sinks become enabled by a start, which completes their outbox. *)
LEMMA EnabledStep ==
  ASSUME Inv, [Next]_vars, NEW s \in Sinks, s \in enabled' \ enabled,
         s \in Backfill, NEW e \in Events, signal'[e] # None
  PROVE  row'[s][e].status # "none"
<1>1. StoreTypeOK
  BY DEF Inv, TypeOK
<1>2. PICK S \in SUBSET Sinks : Start(S)
  <2>1. ASSUME SourceWrite PROVE FALSE
    BY <2>1 DEF SourceWrite, WriteMany
  <2>2. ASSUME NEW t \in Sinks,
               \/ Poll(t) \/ Accept(t) \/ Acknowledge(t) \/ Supersede(t)
               \/ FailRetryably(t) \/ FailPermanently(t) \/ LockedOut(t)
               \/ ReplayDead(t)
               \/ \E f \in Events : TimePasses(t, f)
        PROVE  enabled' = enabled
    BY <2>2 DEF Poll, Accept, Acknowledge, Supersede, FailRetryably, FailPermanently,
         LockedOut, ReplayDead, TimePasses, MarkSuccess, MarkFailure, RetryDead,
         ComeDue, storeVars
  <2>3. Halt \/ ArriveLate \/ UNCHANGED vars => enabled' = enabled
    BY DEF Halt, ArriveLate, vars, storeVars
  <2> QED
    BY <2>1, <2>2, <2>3 DEF Next
<1>3. RegisterSinks(S, Backfill)
  BY <1>2 DEF Start
<1>4. s \in S /\ signal' = signal
  BY <1>3 DEF RegisterSinks
<1>5. ASSUME NEW t \in S \cap Backfill, NEW f \in Events, signal[f] # None
      PROVE  row'[t][f].status # "none"
  BY <1>1, <1>3, <1>5, RegisterSinksEffect
<1> QED
  BY <1>4, <1>5

(* No stored event is missing from the outbox of a sink with backfill.      *)
THEOREM OutboxCompleteness == Spec => []OutboxComplete
<1>1. Init => OutboxComplete
  BY DEF Init, StoreInit, OutboxComplete
<1>2. Inv /\ OutboxComplete /\ [Next]_vars => OutboxComplete'
  <2> SUFFICES ASSUME Inv, OutboxComplete, [Next]_vars
               PROVE  OutboxComplete'
    OBVIOUS
  <2>0. Inv'
    BY InvNext
  <2> SUFFICES ASSUME NEW s \in Sinks, s \in enabled', s \in Backfill,
                      NEW e \in Events, signal'[e] # None
               PROVE  row'[s][e].status # "none"
    BY <2>0 DEF OutboxComplete, Stored, Inv, TypeOK, StoreTypeOK
  <2>1. CASE s \notin enabled
    BY <2>1, EnabledStep
  <2>2. CASE s \in enabled
    <3>1. row'[s][e] \in Row /\ row[s][e].attempts \in Nat
      BY <2>0 DEF Inv, TypeOK, StoreTypeOK, Row, NoRow
    <3>2. row'[s][e].status = "none" => row'[s][e].attempts = 0
      BY <3>1 DEF Row, NoRow, Status
    <3>3. signal[e] # None => row[s][e].status # "none"
      BY <2>2 DEF OutboxComplete, Stored
    <3> QED
      BY <2>2, <3>1, <3>2, <3>3, RowStep DEF FreshRow
  <2> QED
    BY <2>1, <2>2
<1> QED
  BY <1>1, <1>2, InvHolds, PTL DEF Spec

(* Spent attempts stay spent, until the event changes or a replay. *)
THEOREM BudgetTheorem == Spec => BudgetNeverRefunded
<1>1. Inv /\ [Next]_vars =>
        \A s \in Sinks, e \in Events :
          row'[s][e].attempts < row[s][e].attempts =>
            signal'[e] # signal[e] \/ row[s][e].status = "dead"
  <2> SUFFICES ASSUME Inv, [Next]_vars, NEW s \in Sinks, NEW e \in Events,
                      row'[s][e].attempts < row[s][e].attempts
               PROVE  signal'[e] # signal[e] \/ row[s][e].status = "dead"
    OBVIOUS
  <2>1. row[s][e].attempts \in Nat
    BY DEF Inv, TypeOK, StoreTypeOK, Row, NoRow
  <2>2. row[s][e].status = "none" => row[s][e].attempts = 0
    <3>1. row[s][e] \in Row
      BY DEF Inv, TypeOK, StoreTypeOK
    <3>2. \A r \in Row : r.status = "none" => r.attempts = 0
      BY DEF Row, NoRow, Status
    <3> QED
      BY <3>1, <3>2
  <2>3. row'[s][e] = FreshRow => row'[s][e].attempts = 0
    BY DEF FreshRow
  <2> QED
    BY <2>1, <2>2, <2>3, RowStep
<1> QED
  BY <1>1, InvHolds, PTL DEF Spec, BudgetNeverRefunded

-----------------------------------------------------------------------------
(* The refinement of AtLeastOnce. *)

(* The abstract "acked": what the outbox records as delivered. *)
Acked == [s \in Sinks |-> [e \in Events |-> row[s][e].status = "delivered"]]

(* A row's step on its own: what was delivered stays so while its event     *)
(* does, and becomes so only with the current version received.             *)
LEMMA AckedUnlessChanged ==
  ASSUME Inv, [Next]_vars, NEW s \in Sinks, NEW e \in Events,
         row[s][e].status = "delivered"
  PROVE  row'[s][e].status = "delivered" <=> signal'[e] = signal[e]
<1>1. s \in enabled /\ signal[e] # None
  BY DEF Inv, RowsHaveSignals
<1>2. ~Open(s, e)
  BY DEF Open
<1>3. FreshRow.status = "pending"
  BY DEF FreshRow
<1> QED
  BY <1>1, <1>2, <1>3, RowStep

(* A step that leaves signals, receptions and delivered rows alone stutters. *)
LEMMA StutterStep ==
  ASSUME Inv, [Next]_vars, UNCHANGED <<signal, received>>,
         \A s \in Sinks, e \in Events :
           row'[s][e].status = "delivered" => row[s][e].status = "delivered"
  PROVE  UNCHANGED <<signal, received, Acked>>
<1>1. \A s \in Sinks, e \in Events :
        (row'[s][e].status = "delivered") = (row[s][e].status = "delivered")
  BY AckedUnlessChanged
<1>2. Acked' = Acked
  BY <1>1 DEF Acked
<1> QED
  BY <1>2

(* Initial states map to initial states. *)
LEMMA ImplementsInit == Init => Promise!Init
<1> SUFFICES ASSUME Init PROVE Promise!Init
  OBVIOUS
<1>1. \A s \in Sinks, e \in Events : (row[s][e].status = "delivered") = FALSE
  BY DEF Init, StoreInit, NoRow
<1>2. Acked = [s \in Sinks |-> [e \in Events |-> FALSE]]
  BY <1>1 DEF Acked
<1> QED
  BY <1>2 DEF Init, StoreInit, Promise!Init, Acked

(* Every step maps to a step of AtLeastOnce or to a stutter. *)
LEMMA ImplementsNext ==
  ASSUME Inv, [Next]_vars
  PROVE  Promise!Next \/ UNCHANGED <<signal, received, Acked>>
<1>0. StoreTypeOK /\ signal \in [Events -> Payloads \cup {None}]
  BY DEF Inv, TypeOK, StoreTypeOK
<1>1. ASSUME NEW S \in SUBSET Sinks, Start(S)
      PROVE  UNCHANGED <<signal, received, Acked>>
  <2>1. RegisterSinks(S, Backfill) /\ received' = received
    BY <1>1 DEF Start, consumerVars
  <2>2. signal' = signal /\ \A s \in Sinks, e \in Events :
          row'[s][e] = row[s][e] \/ row'[s][e] = FreshRow
    BY <1>0, <2>1, RegisterSinksEffect
  <2> QED
    BY <2>1, <2>2, StutterStep DEF FreshRow
<1>2. CASE SourceWrite
  <2>1. PICK E \in SUBSET Events : \E batch \in [E -> Payloads] : WriteMany(batch)
    BY <1>2 DEF SourceWrite
  <2>2. PICK batch \in [E -> Payloads] : WriteMany(batch)
    BY <2>1
  <2>3. /\ StoreTypeOK'
        /\ \A e \in Events : signal'[e] = signal[e] \/ signal'[e] \in Payloads
        /\ \A s \in Sinks, e \in Events :
             IF s \in enabled /\ signal'[e] # signal[e]
             THEN row'[s][e] = FreshRow
             ELSE row'[s][e] = row[s][e]
    BY <1>0, <2>2, WriteManyEffect
  <2>4. signal' \in [Events -> Payloads \cup {None}]
    BY <2>3 DEF StoreTypeOK
  <2>5. \A e \in Events : signal'[e] = None => signal[e] = None
    BY <2>3
  <2>6. \A s \in Sinks, e \in Events :
          (row'[s][e].status = "delivered")
            = (row[s][e].status = "delivered" /\ signal'[e] = signal[e])
    BY <2>3, AckedUnlessChanged DEF FreshRow
  <2>7. Acked' = [s \in Sinks |-> [e \in Events |-> Acked[s][e] /\ signal'[e] = signal[e]]]
    BY <2>6 DEF Acked
  <2>8. received' = received
    BY <1>2 DEF SourceWrite, consumerVars
  <2> QED
    BY <2>4, <2>5, <2>7, <2>8 DEF Promise!Next, Promise!Publish, Acked
<1>3. ASSUME NEW s \in Sinks, NEW e \in Events, NEW v \in Payloads,
             Receive(s, e, v), UNCHANGED storeVars
      PROVE  Promise!Next
  <2>1. UNCHANGED <<signal, Acked>>
    BY <1>3 DEF storeVars, Acked
  <2>2. Promise!Deliver(s, e, v)
    BY <1>3, <2>1 DEF Receive, Promise!Deliver, Acked
  <2> QED
    BY <2>2 DEF Promise!Next
<1>4. CASE ArriveLate
  <2>1. PICK l \in late : Receive(l.sink, l.event, l.payload)
    BY <1>4 DEF ArriveLate
  <2>2. l.sink \in Sinks /\ l.event \in Events /\ l.payload \in Payloads
    BY DEF Inv, TypeOK, Letter
  <2> QED
    BY <1>3, <1>4, <2>1, <2>2 DEF ArriveLate
<1>5. ASSUME NEW s \in Sinks, worker[s] = "sending"
      PROVE  flight[s].event \in Events /\ flight[s].payload \in Payloads
  BY <1>5 DEF Inv, FlightsMatchWorkers, TypeOK, Request
<1>6. ASSUME NEW s \in Sinks, Accept(s)
      PROVE  Promise!Next
  BY <1>3, <1>5, <1>6 DEF Accept
<1>7. ASSUME NEW s \in Sinks, Acknowledge(s)
      PROVE  Promise!Next
  <2>1. worker[s] = "sending" /\ received' = received
    BY <1>7 DEF Acknowledge, consumerVars
  <2>2. PICK e \in Events : e = flight[s].event
    BY <1>5, <2>1
  <2>3. MarkSuccess(s, e) /\ signal[e] \in received[s][e]
    BY <1>7, <2>2 DEF Acknowledge, Inv, FlightsMatchWorkers, MarkSuccess
  <2>4. /\ signal' = signal
        /\ row'[s][e].status = "delivered"
        /\ \A t \in Sinks, f \in Events : t # s \/ f # e => row'[t][f] = row[t][f]
    BY <1>0, <2>3, MarkSuccessEffect
  <2>5. Acked' = [Acked EXCEPT ![s][e] = TRUE]
    <3> DEFINE marked == [t \in Sinks |-> [f \in Events |->
                            IF t = s /\ f = e THEN TRUE ELSE row[t][f].status = "delivered"]]
    <3>1. Acked' = marked
      BY <2>4 DEF Acked
    <3>2. [Acked EXCEPT ![s][e] = TRUE] = marked
      BY DEF Acked
    <3> QED
      BY <3>1, <3>2
  <2>6. Promise!Ack(s, e)
    BY <2>1, <2>3, <2>4, <2>5 DEF Promise!Ack, Acked
  <2> QED
    BY <2>6 DEF Promise!Next
<1>8. ASSUME NEW s \in Sinks, FailRetryably(s) \/ FailPermanently(s)
      PROVE  UNCHANGED <<signal, received, Acked>>
  <2>1. worker[s] = "sending" /\ received' = received
    BY <1>8 DEF FailRetryably, FailPermanently, consumerVars
  <2>2. Exhausted(s, flight[s].event) \in BOOLEAN
    BY DEF Exhausted
  <2>3. PICK dead \in BOOLEAN : MarkFailure(s, flight[s].event, dead)
    BY <1>8, <2>2 DEF FailRetryably, FailPermanently
  <2>4. /\ signal' = signal
        /\ row'[s][flight[s].event].status # "delivered"
        /\ \A t \in Sinks, f \in Events :
             t # s \/ f # flight[s].event => row'[t][f] = row[t][f]
    BY <1>0, <1>5, <2>1, <2>3, MarkFailureEffect
  <2> QED
    BY <2>1, <2>4, StutterStep
<1>9. ASSUME NEW s \in Sinks, ReplayDead(s)
      PROVE  UNCHANGED <<signal, received, Acked>>
  <2>1. /\ signal' = signal /\ received' = received
        /\ \A t \in Sinks, e \in Events :
             row'[t][e] = row[t][e] \/ row'[t][e] = FreshRow
    BY <1>0, <1>9, RetryDeadEffect DEF ReplayDead, consumerVars
  <2> QED
    BY <2>1, StutterStep DEF FreshRow
<1>10. ASSUME NEW s \in Sinks, NEW e \in Events, TimePasses(s, e)
       PROVE  UNCHANGED <<signal, received, Acked>>
  <2>1. /\ signal' = signal /\ received' = received
        /\ \A t \in Sinks, f \in Events : row'[t][f].status = row[t][f].status
    BY <1>0, <1>10, ComeDueEffect DEF TimePasses, consumerVars
  <2> QED
    BY <2>1, StutterStep
<1>11. ASSUME \/ Halt \/ UNCHANGED vars
              \/ \E s \in Sinks : Poll(s) \/ Supersede(s) \/ LockedOut(s)
       PROVE  UNCHANGED <<signal, received, Acked>>
  <2>1. UNCHANGED storeVars /\ received' = received
    BY <1>11 DEF Halt, Poll, Supersede, LockedOut, vars, consumerVars
  <2> QED
    BY <2>1 DEF storeVars, Acked
<1> QED
  BY <1>1, <1>2, <1>4, <1>6, <1>7, <1>8, <1>9, <1>10, <1>11 DEF Next

(* The engine, its store and its environment implement what the consumers  *)
(* were promised.                                                          *)
THEOREM Implements == Spec => ImplementsAtLeastOnce
<1>1. Inv /\ [Next]_vars => [Promise!Next]_<<signal, received, Acked>>
  BY ImplementsNext
<1> QED
  BY <1>1, ImplementsInit, InvHolds, PTL DEF Spec, ImplementsAtLeastOnce, Promise!Spec, Acked
-----------------------------------------------------------------------------
(* What a consumer holds is what the outbox says it has, of consumers that *)
(* apply every request, on a network that delays none past its attempt.    *)

(* Alone, DeliveredIsHeld is not inductive: the payload a worker is about  *)
(* to acknowledge must be the one its consumer applied last.               *)
HeldInv ==
  /\ late = {}
  /\ \A s \in Sinks : flight[s].accepted => held[s][flight[s].event] = flight[s].payload
  /\ DeliveredIsHeld

(* With no room on the network for a request that was given up, none stays. *)
LEMMA NothingLingers ==
  ASSUME MaxLate = 0, late = {}, NEW letters, IsFiniteSet(letters), MayLinger(letters)
  PROVE  late' = {}
<1>1. PICK L \in SUBSET letters :
        /\ L # {} => Cardinality(late \cup L) <= MaxLate
        /\ late' = late \cup L
  BY DEF MayLinger
<1>2. late \cup L = L /\ IsFiniteSet(L)
  BY FS_Subset
<1>3. Cardinality(L) \in Nat /\ (Cardinality(L) = 0 <=> L = {})
  BY <1>2, FS_CardinalityType, FS_EmptySet
<1> QED
  BY <1>1, <1>2, <1>3

(* A set of workers leaves at most one request each. *)
LEMMA UnansweredFinite ==
  ASSUME NEW S, IsFiniteSet(S)
  PROVE  IsFiniteSet(Unanswered(S))
<1> DEFINE T == {t \in S : flight[t] # NoFlight /\ ~flight[t].accepted}
           letter(s) == [sink |-> s, event |-> flight[s].event, payload |-> flight[s].payload]
<1>1. IsFiniteSet(T)
  BY FS_Subset
<1>2. Unanswered(S) = {letter(s) : s \in T}
  BY DEF Unanswered
<1> HIDE DEF T, letter
<1> DEFINE letters == {letter(s) : s \in T}
           write == [s \in T |-> letter(s)]
<1>3. write \in Surjection(T, letters)
  BY DEF Surjection
<1> HIDE DEF letters, write
<1>4. IsFiniteSet(letters)
  BY <1>1, <1>3, FS_Surjection
<1> QED
  BY <1>2, <1>4 DEF letters

(* Nothing that a worker takes up has been accepted yet. *)
LEMMA TryNextFlight ==
  ASSUME flight \in [Sinks -> Request \cup {NoFlight}], NEW s \in Sinks, NEW rest,
         TryNext(s, rest)
  PROVE  /\ ~flight'[s].accepted
         /\ \A t \in Sinks : t # s => flight'[t] = flight[t]
<1>1. PICK req : flight' = [flight EXCEPT ![s] = req] /\ ~req.accepted
  <2>1. CASE flight' = [flight EXCEPT ![s] = NoFlight]
    <3>1. ~NoFlight.accepted
      BY DEF NoFlight
    <3> QED
      BY <2>1, <3>1
  <2>2. ASSUME NEW e, flight' = [flight EXCEPT ![s] =
                             [event |-> e, payload |-> signal[e], accepted |-> FALSE]]
        PROVE  \E req : flight' = [flight EXCEPT ![s] = req] /\ ~req.accepted
    <3>1. ~[event |-> e, payload |-> signal[e], accepted |-> FALSE].accepted
      OBVIOUS
    <3> QED
      BY <2>2, <3>1
  <2> QED
    BY <2>1, <2>2 DEF TryNext
<1> QED
  BY <1>1

(* A row becomes "delivered" when a worker acknowledges the version that   *)
(* was sent, and by no other step.                                         *)
LEMMA NewlyDelivered ==
  ASSUME Inv, [Next]_vars, NEW s \in Sinks, NEW e \in Events,
         row'[s][e].status = "delivered", row[s][e].status # "delivered"
  PROVE  /\ Acknowledge(s) /\ e = flight[s].event
         /\ signal'[e] = signal[e] /\ signal[e] = flight[s].payload
         /\ flight[s].accepted /\ held' = held
<1>0. StoreTypeOK
  BY DEF Inv, TypeOK
<1>1. FreshRow.status = "pending"
  BY DEF FreshRow
<1>2. ASSUME NEW t \in Sinks, worker[t] = "sending"
      PROVE  flight[t].event \in Events
  BY <1>2 DEF Inv, FlightsMatchWorkers, TypeOK, Request
<1>3. ASSUME NEW t \in Sinks, Acknowledge(t)
      PROVE  /\ t = s /\ e = flight[s].event
             /\ signal'[e] = signal[e] /\ signal[e] = flight[s].payload
             /\ flight[s].accepted /\ held' = held
  <2>1. worker[t] = "sending" /\ MarkSuccess(t, flight[t].event)
    BY <1>3 DEF Acknowledge
  <2>2. /\ signal' = signal
        /\ \A u \in Sinks, f \in Events :
             u # t \/ f # flight[t].event => row'[u][f] = row[u][f]
    BY <1>0, <1>2, <2>1, MarkSuccessEffect
  <2>3. t = s /\ e = flight[t].event
    BY <2>2
  <2> QED
    BY <1>3, <2>2, <2>3 DEF Acknowledge, consumerVars
<1>4. ASSUME NEW t \in Sinks, FailRetryably(t) \/ FailPermanently(t)
      PROVE  FALSE
  <2>1. worker[t] = "sending"
    BY <1>4 DEF FailRetryably, FailPermanently
  <2>2. Exhausted(t, flight[t].event) \in BOOLEAN
    BY DEF Exhausted
  <2>3. PICK dead \in BOOLEAN : MarkFailure(t, flight[t].event, dead)
    BY <1>4, <2>2 DEF FailRetryably, FailPermanently
  <2>4. /\ row'[t][flight[t].event].status # "delivered"
        /\ \A u \in Sinks, f \in Events :
             u # t \/ f # flight[t].event => row'[u][f] = row[u][f]
    BY <1>0, <1>2, <2>1, <2>3, MarkFailureEffect
  <2> QED
    BY <2>4
<1>5. ASSUME NEW S \in SUBSET Sinks, Start(S) PROVE FALSE
  <2>1. RegisterSinks(S, Backfill)
    BY <1>5 DEF Start
  <2> QED
    BY <1>0, <1>1, <2>1, RegisterSinksEffect
<1>6. CASE SourceWrite
  <2>1. PICK E \in SUBSET Events : \E batch \in [E -> Payloads] : WriteMany(batch)
    BY <1>6 DEF SourceWrite
  <2>2. PICK batch \in [E -> Payloads] : WriteMany(batch)
    BY <2>1
  <2>3. row'[s][e] = FreshRow \/ row'[s][e] = row[s][e]
    BY <1>0, <2>2, WriteManyEffect
  <2> QED
    BY <1>1, <2>3
<1>7. ASSUME NEW t \in Sinks, ReplayDead(t) PROVE FALSE
  BY <1>0, <1>1, <1>7, RetryDeadEffect DEF ReplayDead
<1>8. ASSUME NEW t \in Sinks, NEW f \in Events, TimePasses(t, f) PROVE FALSE
  BY <1>0, <1>8, ComeDueEffect DEF TimePasses
<1>9. ASSUME \/ Halt \/ ArriveLate \/ UNCHANGED vars
             \/ \E t \in Sinks : Poll(t) \/ Accept(t) \/ Supersede(t) \/ LockedOut(t)
      PROVE  FALSE
  BY <1>9 DEF Halt, ArriveLate, Poll, Accept, Supersede, LockedOut, vars, storeVars
<1> QED
  BY <1>3, <1>4, <1>5, <1>6, <1>7, <1>8, <1>9 DEF Next

(* The three parts of HeldInv are kept together by every step. *)
LEMMA HeldInvNext ==
  ASSUME MaxLate = 0, Dedup = FALSE, IsFiniteSet(Sinks), Inv, HeldInv, [Next]_vars
  PROVE  HeldInv'
<1> DEFINE FlightHeld(s) == flight[s].accepted
                              => held[s][flight[s].event] = flight[s].payload
<1>1. /\ late = {}
      /\ \A s \in Sinks : FlightHeld(s)
      /\ flight \in [Sinks -> Request \cup {NoFlight}]
      /\ held \in [Sinks -> [Events -> Payloads \cup {None}]]
      /\ ~NoFlight.accepted
  BY DEF HeldInv, Inv, TypeOK, NoFlight
<1>2. ASSUME NEW s \in Sinks, worker[s] = "sending"
      PROVE  /\ flight[s] \in Request /\ flight[s].event \in Events
             /\ Open(s, flight[s].event)
  BY <1>2 DEF Inv, FlightsMatchWorkers, TypeOK, Request, BusyRowsAreOpen, Busy
(* The network stays empty, and a consumer applies only what is accepted. *)
<1>3. ASSUME NEW S \in SUBSET Sinks, IsFiniteSet(S), MayLinger(Unanswered(S))
      PROVE  late' = {}
  BY <1>1, <1>3, NothingLingers, UnansweredFinite
<1>4. ASSUME ~ \E s \in Sinks : Accept(s)
      PROVE  late' = {} /\ held' = held
  <2>1. ASSUME NEW s \in Sinks, FailRetryably(s) \/ LockedOut(s)
        PROVE  late' = {} /\ held' = held
    <3>1. IsFiniteSet({s}) /\ {s} \in SUBSET Sinks
      BY FS_Singleton
    <3> QED
      BY <1>3, <2>1, <3>1 DEF FailRetryably, LockedOut
  <2>2. CASE Halt
    BY <1>3, <2>2 DEF Halt
  <2>3. ~ArriveLate
    BY <1>1 DEF ArriveLate
  <2>4. ASSUME \/ \E S \in SUBSET Sinks : Start(S)
               \/ SourceWrite \/ UNCHANGED vars
               \/ \E s \in Sinks :
                    \/ Poll(s) \/ Acknowledge(s) \/ Supersede(s) \/ FailPermanently(s)
                    \/ ReplayDead(s) \/ \E e \in Events : TimePasses(s, e)
        PROVE  late' = {} /\ held' = held
    BY <1>1, <2>4 DEF Start, SourceWrite, Poll, Acknowledge, Supersede, FailPermanently,
       ReplayDead, TimePasses, vars, consumerVars
  <2> QED
    BY <1>4, <2>1, <2>2, <2>3, <2>4 DEF Next
<1>5. ASSUME NEW s \in Sinks, Accept(s)
      PROVE  /\ late' = {} /\ UNCHANGED <<row, signal>>
             /\ held'[s][flight[s].event] = flight[s].payload
             /\ flight'[s].event = flight[s].event /\ flight'[s].payload = flight[s].payload
             /\ \A t \in Sinks : t # s => flight'[t] = flight[t] /\ held'[t] = held[t]
             /\ \A e \in Events : e # flight[s].event => held'[s][e] = held[s][e]
  <2>1. flight[s] \in Request /\ flight[s].event \in Events
    BY <1>2, <1>5 DEF Accept
  <2>2. held' = [held EXCEPT ![s][flight[s].event] = flight[s].payload]
    BY <1>5 DEF Accept, Receive
  <2>3. flight' = [flight EXCEPT ![s].accepted = TRUE]
    BY <1>5 DEF Accept
  <2>4. late' = {} /\ UNCHANGED <<row, signal>>
    BY <1>1, <1>5 DEF Accept, storeVars
  <2>5. flight'[s].event = flight[s].event /\ flight'[s].payload = flight[s].payload
    BY <1>1, <2>1, <2>3 DEF Request
  <2>6. held'[s][flight[s].event] = flight[s].payload
    BY <1>1, <2>1, <2>2
  <2>7. \A t \in Sinks : t # s => flight'[t] = flight[t] /\ held'[t] = held[t]
    BY <1>1, <2>2, <2>3
  <2>8. \A e \in Events : e # flight[s].event => held'[s][e] = held[s][e]
    BY <1>1, <2>2
  <2> QED
    BY <2>4, <2>5, <2>6, <2>7, <2>8
(* What is in flight and accepted is held. *)
<1>6. ASSUME ~ \E s \in Sinks : Accept(s), NEW t \in Sinks
      PROVE  flight'[t] = flight[t] \/ ~flight'[t].accepted
  <2>1. CASE Halt
    BY <1>1, <2>1 DEF Halt
  <2>2. ASSUME NEW s \in Sinks, \E rest : TryNext(s, rest)
        PROVE  flight'[t] = flight[t] \/ ~flight'[t].accepted
    <3>1. PICK rest : TryNext(s, rest)
      BY <2>2
    <3>2. ~flight'[s].accepted /\ \A u \in Sinks : u # s => flight'[u] = flight[u]
      BY <1>1, <3>1, TryNextFlight
    <3> QED
      BY <3>2
  <2>3. ASSUME NEW s \in Sinks,
               \/ Poll(s) \/ Acknowledge(s) \/ Supersede(s)
               \/ FailRetryably(s) \/ FailPermanently(s)
        PROVE  \E rest : TryNext(s, rest)
    BY <2>3 DEF Poll, Acknowledge, Supersede, FailRetryably, FailPermanently, Finish
  <2>4. ASSUME NEW s \in Sinks, LockedOut(s)
        PROVE  flight'[t] = flight[t] \/ ~flight'[t].accepted
    BY <1>1, <2>4 DEF LockedOut
  <2>5. ASSUME \/ \E S \in SUBSET Sinks : Start(S)
               \/ SourceWrite \/ ArriveLate \/ UNCHANGED vars
               \/ \E s \in Sinks : ReplayDead(s) \/ \E e \in Events : TimePasses(s, e)
        PROVE  flight'[t] = flight[t]
    BY <2>5 DEF Start, SourceWrite, ArriveLate, ReplayDead, TimePasses, vars, engineVars
  <2> QED
    BY <1>6, <2>1, <2>2, <2>3, <2>4, <2>5 DEF Next
<1>7. ASSUME NEW t \in Sinks PROVE FlightHeld(t)'
  <2>1. CASE \E s \in Sinks : Accept(s)
    <3>1. PICK s \in Sinks : Accept(s)
      BY <2>1
    <3> QED
      BY <1>1, <1>5, <3>1
  <2>2. CASE ~ \E s \in Sinks : Accept(s)
    BY <1>1, <1>4, <1>6, <2>2
  <2> QED
    BY <2>1, <2>2
(* What is delivered is held. *)
<1>8. ASSUME NEW s \in Sinks, NEW e \in Events, row'[s][e].status = "delivered"
      PROVE  held'[s][e] = signal'[e]
  <2>1. CASE row[s][e].status # "delivered"
    BY <1>1, <1>8, <2>1, NewlyDelivered
  <2>2. CASE row[s][e].status = "delivered"
    <3>1. signal'[e] = signal[e] /\ held[s][e] = signal[e]
      BY <1>8, <2>2, AckedUnlessChanged DEF HeldInv, DeliveredIsHeld
    <3>2. ~Open(s, e)
      BY <2>2 DEF Open
    <3>3. ASSUME NEW t \in Sinks, Accept(t)
          PROVE  held'[s][e] = held[s][e]
      <4>1. s # t \/ e # flight[t].event
        BY <1>2, <3>2, <3>3 DEF Accept
      <4> QED
        BY <1>5, <3>3, <4>1
    <3> QED
      BY <1>4, <3>1, <3>3
  <2> QED
    BY <2>1, <2>2
<1>9. late' = {}
  BY <1>4, <1>5
<1> QED
  BY <1>7, <1>8, <1>9 DEF HeldInv, DeliveredIsHeld

(* Consumers that apply every request they get, in a system where no       *)
(* request outlives its attempt, end with the newest version: a row is     *)
(* "delivered" only while the consumer holds the stored version, for any   *)
(* finite number of sinks, and whatever is in flight when an event changes,*)
(* a worker fails or the process stops.                                    *)
THEOREM NewestIsHeld ==
  ASSUME MaxLate = 0, Dedup = FALSE, IsFiniteSet(Sinks)
  PROVE  Spec => []DeliveredIsHeld
<1>1. Init => HeldInv
  BY DEF Init, StoreInit, HeldInv, DeliveredIsHeld, NoFlight, NoRow
<1>2. Inv /\ HeldInv /\ [Next]_vars => HeldInv'
  BY HeldInvNext
<1>3. HeldInv => DeliveredIsHeld
  BY DEF HeldInv
<1> QED
  BY <1>1, <1>2, <1>3, InvHolds, PTL DEF Spec
=============================================================================
