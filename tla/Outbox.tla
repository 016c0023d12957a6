------------------------------- MODULE Outbox -------------------------------
(***************************************************************************)
(* The transactional outbox of the SQLite store: the tables signals,       *)
(* delivery_sinks and deliveries, the two triggers that couple them, and   *)
(* the store methods that read or write them.  One operator is one SQLite  *)
(* transaction; the modules that use the store conjoin these operators     *)
(* with the state of their own callers.                                    *)
(*                                                                         *)
(* What is abstracted.  A signal is its fingerprint (the columns that      *)
(* event_hash covers), so "the payload changed" is "the value changed".    *)
(* A next_attempt_at is reduced to whether it has been reached (due).      *)
(* updated_at is reduced to the order it induces on the rows of a sink.    *)
(***************************************************************************)
EXTENDS Naturals, FiniteSets

CONSTANTS
  Events,    \* stable event ids
  Payloads,  \* fingerprints an event can take at its source
  Sinks,     \* sink keys
  None       \* no value: an event that is not stored

ASSUME OutboxAssumption == None \notin Events \cup Payloads

VARIABLES
  signal,    \* signals: the stored fingerprint of each event
  enabled,   \* delivery_sinks: the sinks whose enabled column is 1
  row,       \* deliveries: one row for each sink and event
  older      \* older[s]: the pairs <<f, e>> where row f has the older updated_at

storeVars == <<signal, enabled, row, older>>

-----------------------------------------------------------------------------
(* "none" stands for a key that has no row in the table. *)
NoRow == [status |-> "none", attempts |-> 0, due |-> TRUE]

Status == {"pending", "failed", "delivered", "dead"}

Row == [status : Status, attempts : Nat, due : BOOLEAN] \cup {NoRow}

FreshRow == [status |-> "pending", attempts |-> 0, due |-> TRUE]

StoreTypeOK ==
  /\ signal \in [Events -> Payloads \cup {None}]
  /\ enabled \in SUBSET Sinks
  /\ row \in [Sinks -> [Events -> Row]]
  /\ older \in [Sinks -> SUBSET (Events \X Events)]

Stored == {e \in Events : signal[e] # None}

(* The statuses from which the engine will try a row again. *)
Open(s, e) == row[s][e].status \in {"pending", "failed"}

(***************************************************************************)
(* Restamping the rows of C.  The rows in "behind" keep a newer stamp; a   *)
(* write that stamps with the current time leaves nothing behind.          *)
(***************************************************************************)
Restamp(s, C, behind) ==
  LET others == Events \ C
  IN  {p \in older[s] : p[1] \in others /\ p[2] \in others}
        \cup ((others \ behind) \X C) \cup (C \X behind)

StampNow(s, C) == Restamp(s, C, {})

(* Sets of rows that can be the ones stamped after some past instant. *)
Suffixes(s, C) ==
  {B \in SUBSET (Events \ C) :
     \A p \in older[s] : p[1] \in B /\ p[2] \notin C => p[2] \in B}

-----------------------------------------------------------------------------
StoreInit ==
  /\ signal = [e \in Events |-> None]
  /\ enabled = {}
  /\ row = [s \in Sinks |-> [e \in Events |-> NoRow]]
  /\ older = [s \in Sinks |-> {}]

(* Variant: the insert trigger queues new events, the update trigger is    *)
(* missing.                                                                *)
WriteManyWithoutRequeue(batch) ==
  LET new == {e \in DOMAIN batch : signal[e] = None}
  IN  /\ signal' = [e \in Events |-> IF e \in DOMAIN batch THEN batch[e] ELSE signal[e]]
      /\ row' = [s \in Sinks |-> [e \in Events |->
                   IF s \in enabled /\ e \in new THEN FreshRow ELSE row[s][e]]]
      /\ older' = [s \in Sinks |-> IF s \in enabled THEN StampNow(s, new) ELSE older[s]]
      /\ UNCHANGED enabled

(***************************************************************************)
(* _write_many of a batch of events (a function from event ids to          *)
(* payloads), with the triggers it fires: an event that is new or whose    *)
(* hash changed gets a fresh pending row at every enabled sink, whatever   *)
(* the row held before; an event with the stored hash is left alone.       *)
(* The triggers stamp the row with the event's collected_at, a moment      *)
(* before the commit, so rows attempted in between sort behind it.         *)
(***************************************************************************)
WriteMany(batch) ==
  LET changed == {e \in DOMAIN batch : signal[e] # batch[e]}
  IN  /\ signal' = [e \in Events |-> IF e \in changed THEN batch[e] ELSE signal[e]]
      /\ row' = [s \in Sinks |-> [e \in Events |->
                   IF s \in enabled /\ e \in changed THEN FreshRow ELSE row[s][e]]]
      /\ \E behind \in [Sinks -> SUBSET Events] :
           /\ \A s \in Sinks : behind[s] \in Suffixes(s, changed)
           /\ older' = [s \in Sinks |->
                          IF s \in enabled THEN Restamp(s, changed, behind[s])
                                           ELSE older[s]]
      /\ UNCHANGED enabled

(* Variant: the backfill does not look at which events are stored.         *)
RegisterSinksUnjoined(S, backfill) ==
  /\ enabled' = enabled \cup S
  /\ row' = [s \in Sinks |-> [e \in Events |->
               IF s \in S \cap backfill /\ row[s][e] = NoRow THEN FreshRow ELSE row[s][e]]]
  /\ UNCHANGED <<signal, older>>

(* Variant: the backfill flag is ignored.                                  *)
RegisterSinksWithoutBackfill(S, backfill) ==
  /\ enabled' = enabled \cup S
  /\ UNCHANGED <<signal, row, older>>

(* Variant: the backfill replaces the rows it finds instead of keeping     *)
(* them.                                                                   *)
RegisterSinksReplacing(S, backfill) ==
  LET missing(s) == IF s \in S \cap backfill
                    THEN {e \in Stored : row[s][e].status # "delivered"}
                    ELSE {}
  IN  /\ enabled' = enabled \cup S
      /\ row' = [s \in Sinks |-> [e \in Events |->
                   IF e \in missing(s) THEN FreshRow ELSE row[s][e]]]
      /\ older' = [s \in Sinks |-> StampNow(s, missing(s))]
      /\ UNCHANGED signal

(***************************************************************************)
(* register_delivery_sink for the sinks of S: they become enabled, and     *)
(* those of "backfill" get a row for every stored event that has none.     *)
(***************************************************************************)
RegisterSinks(S, backfill) ==
  LET missing(s) == IF s \in S \cap backfill
                    THEN {e \in Stored : row[s][e].status = "none"}
                    ELSE {}
  IN  /\ enabled' = enabled \cup S
      /\ row' = [s \in Sinks |-> [e \in Events |->
                   IF e \in missing(s) THEN FreshRow ELSE row[s][e]]]
      /\ older' = [s \in Sinks |-> StampNow(s, missing(s))]
      /\ UNCHANGED signal

(* Variant: dead rows are not excluded. *)
ReadyOrDead(s) ==
  {e \in Events : row[s][e].status \in {"pending", "failed", "dead"} /\ row[s][e].due}

(* The rows list_ready_deliveries selects before its LIMIT. *)
Ready(s) == {e \in Events : Open(s, e) /\ row[s][e].due}

(* Variant: newest first. *)
ReadyBatchesNewestFirst(s, limit) ==
  {B \in SUBSET Ready(s) :
     /\ Cardinality(B) <= limit
     /\ Cardinality(B) < limit => B = Ready(s)
     /\ \A e \in B, f \in Ready(s) \ B : <<e, f>> \notin older[s]}

(***************************************************************************)
(* The results list_ready_deliveries can return: as many ready rows as the *)
(* limit allows, none of them newer than a ready row left out.             *)
(***************************************************************************)
ReadyBatches(s, limit) ==
  {B \in SUBSET Ready(s) :
     /\ Cardinality(B) <= limit
     /\ Cardinality(B) < limit => B = Ready(s)
     /\ \A e \in B, f \in Ready(s) \ B : <<f, e>> \notin older[s]}

(* The UPDATEs below match the row by its key alone. *)
MarkSuccess(s, e) ==
  /\ row' = [row EXCEPT ![s][e] =
               [status |-> "delivered", attempts |-> @.attempts + 1, due |-> TRUE]]
  /\ older' = [older EXCEPT ![s] = StampNow(s, {e})]
  /\ UNCHANGED <<signal, enabled>>

MarkFailure(s, e, dead) ==
  /\ row' = [row EXCEPT ![s][e] =
               [status   |-> IF dead THEN "dead" ELSE "failed",
                attempts |-> @.attempts + 1,
                due      |-> dead]]
  /\ older' = [older EXCEPT ![s] = StampNow(s, {e})]
  /\ UNCHANGED <<signal, enabled>>

(* retry_dead_deliveries, from the command line or the dashboard. *)
RetryDead(s) ==
  LET dead == {e \in Events : row[s][e].status = "dead"}
  IN  /\ dead # {}
      /\ row' = [row EXCEPT ![s] =
                   [e \in Events |-> IF e \in dead THEN FreshRow ELSE row[s][e]]]
      /\ older' = [older EXCEPT ![s] = StampNow(s, dead)]
      /\ UNCHANGED <<signal, enabled>>

(* The clock reaches the next_attempt_at of a row. *)
ComeDue(s, e) ==
  /\ ~row[s][e].due
  /\ row' = [row EXCEPT ![s][e].due = TRUE]
  /\ UNCHANGED <<signal, enabled, older>>
=============================================================================
