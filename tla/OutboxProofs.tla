---------------------------- MODULE OutboxProofs ----------------------------
(***************************************************************************)
(* What the transactions of the store do to its tables: the lemmas that    *)
(* the proofs about the users of the store rest on.                        *)
(***************************************************************************)
EXTENDS Outbox, TLAPS

USE OutboxAssumption

-----------------------------------------------------------------------------
(* What the store transactions do to the tables. *)

(* Restamping rows orders events of the outbox and nothing else. *)
LEMMA RestampType ==
  ASSUME older \in [Sinks -> SUBSET (Events \X Events)],
         NEW s \in Sinks, NEW C \in SUBSET Events, NEW behind \in SUBSET Events
  PROVE  Restamp(s, C, behind) \in SUBSET (Events \X Events)
<1>1. older[s] \in SUBSET (Events \X Events)
  OBVIOUS
<1>2. {p \in older[s] : p[1] \in Events \ C /\ p[2] \in Events \ C}
        \in SUBSET (Events \X Events)
  BY <1>1
<1>3. ((Events \ C) \ behind) \X C \in SUBSET (Events \X Events)
  OBVIOUS
<1>4. C \X behind \in SUBSET (Events \X Events)
  OBVIOUS
<1> QED
  BY <1>2, <1>3, <1>4 DEF Restamp

(* A fresh row is a row. *)
LEMMA FreshRowType == FreshRow \in Row /\ NoRow \in Row
  BY DEF FreshRow, Row, NoRow, Status

(* Marking a delivered row changes that row alone. *)
LEMMA MarkSuccessEffect ==
  ASSUME StoreTypeOK, NEW s \in Sinks, NEW e \in Events, MarkSuccess(s, e)
  PROVE  /\ StoreTypeOK'
         /\ signal' = signal /\ enabled' = enabled
         /\ row'[s][e].status = "delivered"
         /\ row'[s][e].attempts = row[s][e].attempts + 1
         /\ \A t \in Sinks, f \in Events : t # s \/ f # e => row'[t][f] = row[t][f]
<1> DEFINE new == [status |-> "delivered", attempts |-> row[s][e].attempts + 1, due |-> TRUE]
<1>1. row[s][e] \in Row
  BY DEF StoreTypeOK
<1>2. new \in Row
  BY <1>1 DEF Row, NoRow, Status
<1>3. row' = [row EXCEPT ![s][e] = new]
  BY DEF MarkSuccess
<1>4. row' \in [Sinks -> [Events -> Row]]
  BY <1>2, <1>3 DEF StoreTypeOK
<1>5. older' \in [Sinks -> SUBSET (Events \X Events)]
  BY RestampType DEF MarkSuccess, StampNow, StoreTypeOK
<1>6. row'[s][e] = new
  BY <1>3 DEF StoreTypeOK
<1>7. \A t \in Sinks, f \in Events : t # s \/ f # e => row'[t][f] = row[t][f]
  BY <1>3 DEF StoreTypeOK
<1> QED
  BY <1>4, <1>5, <1>6, <1>7 DEF MarkSuccess, StoreTypeOK

(* So does marking a failed one. *)
LEMMA MarkFailureEffect ==
  ASSUME StoreTypeOK, NEW s \in Sinks, NEW e \in Events, NEW dead \in BOOLEAN,
         MarkFailure(s, e, dead)
  PROVE  /\ StoreTypeOK'
         /\ signal' = signal /\ enabled' = enabled
         /\ row'[s][e].status = IF dead THEN "dead" ELSE "failed"
         /\ row'[s][e].attempts = row[s][e].attempts + 1
         /\ \A t \in Sinks, f \in Events : t # s \/ f # e => row'[t][f] = row[t][f]
<1> DEFINE new == [status   |-> IF dead THEN "dead" ELSE "failed",
                   attempts |-> row[s][e].attempts + 1,
                   due      |-> dead]
<1>1. row[s][e] \in Row
  BY DEF StoreTypeOK
<1>2. new \in Row
  BY <1>1 DEF Row, NoRow, Status
<1>3. row' = [row EXCEPT ![s][e] = new]
  BY DEF MarkFailure
<1>4. row' \in [Sinks -> [Events -> Row]]
  BY <1>2, <1>3 DEF StoreTypeOK
<1>5. older' \in [Sinks -> SUBSET (Events \X Events)]
  BY RestampType DEF MarkFailure, StampNow, StoreTypeOK
<1>6. row'[s][e] = new
  BY <1>3 DEF StoreTypeOK
<1>7. \A t \in Sinks, f \in Events : t # s \/ f # e => row'[t][f] = row[t][f]
  BY <1>3 DEF StoreTypeOK
<1> QED
  BY <1>4, <1>5, <1>6, <1>7 DEF MarkFailure, StoreTypeOK

(* A commit changes the signals of its batch and requeues those that changed. *)
LEMMA WriteManyEffect ==
  ASSUME StoreTypeOK, NEW E \in SUBSET Events, NEW batch \in [E -> Payloads],
         WriteMany(batch)
  PROVE  /\ StoreTypeOK'
         /\ enabled' = enabled
         /\ \A e \in E : signal'[e] = batch[e]
         /\ \A e \in Events : signal'[e] = signal[e] \/ signal'[e] \in Payloads
         /\ \A s \in Sinks, e \in Events :
              IF s \in enabled /\ signal'[e] # signal[e]
              THEN row'[s][e] = FreshRow
              ELSE row'[s][e] = row[s][e]
<1> DEFINE changed == {e \in DOMAIN batch : signal[e] # batch[e]}
<1>1. changed \in SUBSET Events
  OBVIOUS
<1>2. signal' = [e \in Events |-> IF e \in changed THEN batch[e] ELSE signal[e]]
  BY DEF WriteMany
<1>3. row' = [s \in Sinks |-> [e \in Events |->
                IF s \in enabled /\ e \in changed THEN FreshRow ELSE row[s][e]]]
  BY DEF WriteMany
<1>4. PICK behind \in [Sinks -> SUBSET Events] :
        older' = [s \in Sinks |-> IF s \in enabled THEN Restamp(s, changed, behind[s])
                                                   ELSE older[s]]
  BY DEF WriteMany
<1>5. older' \in [Sinks -> SUBSET (Events \X Events)]
  <2>1. \A s \in Sinks : Restamp(s, changed, behind[s]) \in SUBSET (Events \X Events)
    BY <1>1, RestampType DEF StoreTypeOK
  <2> QED
    BY <1>4, <2>1 DEF StoreTypeOK
<1>6. \A e \in Events : e \in changed <=> signal'[e] # signal[e]
  BY <1>2 DEF StoreTypeOK
<1>7. signal' \in [Events -> Payloads \cup {None}]
  BY <1>2 DEF StoreTypeOK
<1>8. row' \in [Sinks -> [Events -> Row]]
  BY <1>3, FreshRowType DEF StoreTypeOK
<1>9. enabled' = enabled
  BY DEF WriteMany
<1>12. \A e \in E : signal'[e] = batch[e]
  BY <1>2
<1> HIDE DEF changed
<1>10. \A e \in Events : signal'[e] = signal[e] \/ signal'[e] \in Payloads
  BY <1>2 DEF changed
<1>11. \A s \in Sinks, e \in Events :
         IF s \in enabled /\ signal'[e] # signal[e]
         THEN row'[s][e] = FreshRow
         ELSE row'[s][e] = row[s][e]
  BY <1>3, <1>6
<1> QED
  BY <1>5, <1>7, <1>8, <1>9, <1>10, <1>11, <1>12 DEF StoreTypeOK

(* Registration only adds sinks, and fresh rows for stored events. *)
LEMMA RegisterSinksEffect ==
  ASSUME StoreTypeOK, NEW S \in SUBSET Sinks, NEW backfill \in SUBSET Sinks,
         RegisterSinks(S, backfill)
  PROVE  /\ StoreTypeOK'
         /\ signal' = signal
         /\ enabled' = enabled \cup S
         /\ \A s \in S \cap backfill, e \in Events :
              signal[e] # None => row'[s][e].status # "none"
         /\ \A s \in Sinks, e \in Events :
              \/ row'[s][e] = row[s][e]
              \/ /\ row[s][e].status = "none"
                 /\ row'[s][e] = FreshRow
                 /\ s \in enabled'
                 /\ signal[e] # None
<1> DEFINE missing(s) == IF s \in S \cap backfill
                         THEN {e \in Stored : row[s][e].status = "none"}
                         ELSE {}
<1>1. \A s \in Sinks : missing(s) \in SUBSET Events
  BY DEF Stored
<1>2. row' = [s \in Sinks |-> [e \in Events |->
                IF e \in missing(s) THEN FreshRow ELSE row[s][e]]]
  BY DEF RegisterSinks
<1>3. older' = [s \in Sinks |-> StampNow(s, missing(s))]
  BY DEF RegisterSinks
<1>4. enabled' = enabled \cup S /\ signal' = signal
  BY DEF RegisterSinks
<1>5. \A s \in Sinks : \A e \in missing(s) :
        row[s][e].status = "none" /\ s \in S /\ signal[e] # None
  BY DEF Stored
<1> HIDE DEF missing
<1>6. older' \in [Sinks -> SUBSET (Events \X Events)]
  <2>1. \A s \in Sinks : StampNow(s, missing(s)) \in SUBSET (Events \X Events)
    BY <1>1, RestampType DEF StampNow, StoreTypeOK
  <2> QED
    BY <1>3, <2>1
<1>7. row' \in [Sinks -> [Events -> Row]]
  BY <1>2, FreshRowType DEF StoreTypeOK
<1>8. StoreTypeOK'
  BY <1>4, <1>6, <1>7 DEF StoreTypeOK
<1>9. ASSUME NEW s \in Sinks, NEW e \in Events
      PROVE  \/ row'[s][e] = row[s][e]
             \/ /\ row[s][e].status = "none"
                /\ row'[s][e] = FreshRow
                /\ s \in enabled'
                /\ signal[e] # None
  <2>1. CASE e \in missing(s)
    BY <2>1, <1>2, <1>4, <1>5
  <2>2. CASE e \notin missing(s)
    BY <2>2, <1>2
  <2> QED
    BY <2>1, <2>2
<1>10. ASSUME NEW s \in S \cap backfill, NEW e \in Events, signal[e] # None
       PROVE  row'[s][e].status # "none"
  <2>1. e \in Stored /\ s \in Sinks
    BY <1>10 DEF Stored
  <2>2. CASE e \in missing(s)
    BY <2>1, <2>2, <1>2 DEF FreshRow
  <2>3. CASE e \notin missing(s)
    BY <2>1, <2>3, <1>2 DEF missing
  <2> QED
    BY <2>2, <2>3
<1> QED
  BY <1>4, <1>8, <1>9, <1>10

(* A replay makes the dead rows of one sink fresh. *)
LEMMA RetryDeadEffect ==
  ASSUME StoreTypeOK, NEW s \in Sinks, RetryDead(s)
  PROVE  /\ StoreTypeOK'
         /\ signal' = signal /\ enabled' = enabled
         /\ \A t \in Sinks, e \in Events :
              IF t = s /\ row[t][e].status = "dead"
              THEN row'[t][e] = FreshRow
              ELSE row'[t][e] = row[t][e]
<1> DEFINE dead == {e \in Events : row[s][e].status = "dead"}
           new == [e \in Events |-> IF e \in dead THEN FreshRow ELSE row[s][e]]
<1>1. row' = [row EXCEPT ![s] = new]
  BY DEF RetryDead
<1>2. new \in [Events -> Row]
  BY FreshRowType DEF StoreTypeOK
<1>3. row' \in [Sinks -> [Events -> Row]]
  BY <1>1, <1>2 DEF StoreTypeOK
<1>4. older' \in [Sinks -> SUBSET (Events \X Events)]
  <2>1. dead \in SUBSET Events
    OBVIOUS
  <2>2. StampNow(s, dead) \in SUBSET (Events \X Events)
    BY <2>1, RestampType DEF StampNow, StoreTypeOK
  <2> QED
    BY <2>2 DEF RetryDead, StoreTypeOK
<1>5. ASSUME NEW t \in Sinks, NEW e \in Events
      PROVE  IF t = s /\ row[t][e].status = "dead"
             THEN row'[t][e] = FreshRow
             ELSE row'[t][e] = row[t][e]
  <2>1. CASE t = s
    <3>1. row'[t][e] = new[e]
      BY <2>1, <1>1 DEF StoreTypeOK
    <3> QED
      BY <2>1, <3>1
  <2>2. CASE t # s
    BY <2>2, <1>1 DEF StoreTypeOK
  <2> QED
    BY <2>1, <2>2
<1> QED
  BY <1>3, <1>4, <1>5 DEF RetryDead, StoreTypeOK

(* The clock changes neither the status nor the attempts of a row. *)
LEMMA ComeDueEffect ==
  ASSUME StoreTypeOK, NEW s \in Sinks, NEW e \in Events, ComeDue(s, e)
  PROVE  /\ StoreTypeOK'
         /\ signal' = signal /\ enabled' = enabled
         /\ \A t \in Sinks, f \in Events :
              /\ row'[t][f].status = row[t][f].status
              /\ row'[t][f].attempts = row[t][f].attempts
<1> DEFINE new == [row[s][e] EXCEPT !.due = TRUE]
<1>1. row' = [row EXCEPT ![s][e] = new]
  BY DEF ComeDue
<1>2. row[s][e] \in Row
  BY DEF StoreTypeOK
<1>3. new \in Row /\ new.status = row[s][e].status /\ new.attempts = row[s][e].attempts
  <2>1. ~row[s][e].due
    BY DEF ComeDue
  <2>2. row[s][e] \in [status : Status, attempts : Nat, due : BOOLEAN]
    BY <1>2, <2>1 DEF Row, NoRow
  <2> QED
    BY <2>2 DEF Row
<1>4. row' \in [Sinks -> [Events -> Row]]
  BY <1>1, <1>3 DEF StoreTypeOK
<1>5. ASSUME NEW t \in Sinks, NEW f \in Events
      PROVE  row'[t][f].status = row[t][f].status /\ row'[t][f].attempts = row[t][f].attempts
  <2>1. CASE t = s /\ f = e
    BY <2>1, <1>1, <1>3 DEF StoreTypeOK
  <2>2. CASE ~(t = s /\ f = e)
    BY <2>2, <1>1 DEF StoreTypeOK
  <2> QED
    BY <2>1, <2>2
<1> QED
  BY <1>4, <1>5 DEF ComeDue, StoreTypeOK
=============================================================================
