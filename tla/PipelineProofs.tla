--------------------------- MODULE PipelineProofs ---------------------------
(***************************************************************************)
(* Proofs about Pipeline for any number of items, runs and sinks.  Inv is  *)
(* the inductive invariant: besides NoGap it says of every run that what   *)
(* lies behind its cursor is committed, and that the page it holds closes  *)
(* the distance to the page's cursor.                                      *)
(***************************************************************************)
EXTENDS Pipeline, OutboxProofs, FiniteSetTheorems

USE OutboxAssumption, PipelineAssumption

-----------------------------------------------------------------------------
(* Commits keep what is covered covered; other steps leave the tables.      *)
LEMMA CoveredKept ==
  ASSUME StoreTypeOK, NEW c \in Nat, Covered(c),
         \/ UNCHANGED storeVars
         \/ \E E \in SUBSET Events : \E batch \in [E -> Payloads] : WriteMany(batch)
  PROVE  Covered(c)'
<1>1. CASE UNCHANGED storeVars
  BY <1>1 DEF storeVars, Covered
<1>2. ASSUME NEW E \in SUBSET Events, NEW batch \in [E -> Payloads], WriteMany(batch)
      PROVE  Covered(c)'
  <2>1. /\ enabled' = enabled
        /\ \A e \in Events : signal'[e] = signal[e] \/ signal'[e] \in Payloads
        /\ \A s \in Sinks, e \in Events :
             row'[s][e] = FreshRow \/ row'[s][e] = row[s][e]
    BY <1>2, WriteManyEffect
  <2>2. enabled \subseteq Sinks
    BY DEF StoreTypeOK
  <2> QED
    BY <2>1, <2>2 DEF Covered, Visible, FreshRow
<1> QED
  BY <1>1, <1>2

(* After a commit the items of its batch are stored and queued.             *)
LEMMA BatchCovered ==
  ASSUME StoreTypeOK, StoredIsQueued,
         NEW E \in SUBSET Events, NEW batch \in [E -> Payloads], WriteMany(batch)
  PROVE  /\ StoreTypeOK'
         /\ StoredIsQueued'
         /\ \A e \in E : signal'[e] # None /\ \A s \in enabled' : row'[s][e].status # "none"
<1>1. /\ StoreTypeOK'
      /\ enabled' = enabled
      /\ \A e \in E : signal'[e] = batch[e]
      /\ \A s \in Sinks, e \in Events :
           IF s \in enabled /\ signal'[e] # signal[e]
           THEN row'[s][e] = FreshRow
           ELSE row'[s][e] = row[s][e]
  BY WriteManyEffect
<1>2. enabled \subseteq Sinks
  BY DEF StoreTypeOK
<1>3. StoredIsQueued'
  BY <1>1, <1>2 DEF StoredIsQueued, Stored, FreshRow
<1>4. \A e \in E : signal'[e] # None
  BY <1>1
<1>5. E \subseteq Stored'
  BY <1>4 DEF Stored
<1> QED
  BY <1>1, <1>3, <1>4, <1>5 DEF StoredIsQueued

(* The types of the variables of the runs. *)
RunsTypeOK ==
  /\ phase \in [Runs -> {"idle", "asking", "holding"}]
  /\ cursor \in [Runs -> Nat]
  /\ taken \in [Runs -> Nat]
  /\ pages \in [Runs -> Nat]
  /\ page \in [Runs -> Page]

(* A step of one run leaves the others alone. *)
Others(r) ==
  \A q \in Runs \ {r} :
    /\ phase'[q] = phase[q]
    /\ cursor'[q] = cursor[q]
    /\ taken'[q] = taken[q]
    /\ page'[q] = page[q]

(* The empty page has the type of a page. *)
LEMMA NoPageType == NoPage \in Page
<1>1. EmptyBatch \in [{} -> Payloads]
  BY DEF EmptyBatch
<1>2. EmptyBatch \in Batch
  BY <1>1 DEF Batch
<1> QED
  BY <1>2 DEF NoPage, Page

(* A run that ends is idle. *)
LEMMA EndEffect ==
  ASSUME RunsTypeOK, NEW r \in Runs, End(r)
  PROVE  RunsTypeOK' /\ Others(r) /\ phase'[r] = "idle"
BY NoPageType DEF End, RunsTypeOK, Others

(* A run that goes on asks with the cursor of the page it committed. *)
LEMMA ContinueEffect ==
  ASSUME RunsTypeOK, NEW r \in Runs, Continue(r), page[r].to # None
  PROVE  /\ RunsTypeOK' /\ Others(r)
         /\ phase'[r] = "asking" /\ cursor'[r] = page[r].to
<1>1. page[r].to \in Nat /\ page[r].primary \in Nat
  BY DEF RunsTypeOK, Page
<1> QED
  BY <1>1, NoPageType DEF Continue, RunsTypeOK, Others

(* Runs that a step leaves alone stay covered, if it keeps what is covered. *)
LEMMA OthersCovered ==
  ASSUME Inv, NEW r \in Runs, Others(r),
         \/ UNCHANGED storeVars
         \/ \E E \in SUBSET Events : \E batch \in [E -> Payloads] : WriteMany(batch)
  PROVE  \A q \in Runs \ {r} : RunCovered(q)'
<1> SUFFICES ASSUME NEW q \in Runs \ {r} PROVE RunCovered(q)'
  OBVIOUS
<1>1. /\ phase'[q] = phase[q] /\ cursor'[q] = cursor[q]
      /\ taken'[q] = taken[q] /\ page'[q] = page[q]
  BY DEF Others
<1>2. RunCovered(q) /\ StoreTypeOK /\ cursor[q] \in Nat
  BY DEF Inv, TypeOK
<1>3. Acceptable(q)' <=> Acceptable(q)
  BY <1>1 DEF Acceptable
<1>4. Covered(cursor[q]) => Covered(cursor[q])'
  <2>1. \A c \in Nat : Covered(c) => Covered(c)'
    BY <1>2, CoveredKept
  <2>2. Covered(cursor[q]) => \A e \in Visible(Events) : e <= cursor[q] =>
          signal'[e] # None /\ \A s \in enabled' : row'[s][e].status # "none"
    BY <1>2, <2>1 DEF Covered
  <2> QED
    BY <1>1, <2>2 DEF Covered
<1> QED
  BY <1>1, <1>2, <1>3, <1>4 DEF RunCovered

-----------------------------------------------------------------------------
(* The invariant holds before anything is collected. *)
LEMMA InvInit == Init => Inv
<1> SUFFICES ASSUME Init PROVE Inv
  OBVIOUS
<1>1. StoreTypeOK
  BY FreshRowType DEF Init, StoreTypeOK
<1>2. TypeOK
  <2>1. calm \in BOOLEAN
    BY Zenon DEF Init
  <2>2. /\ published \in 0..Horizon /\ content \in [Events -> Payloads]
        /\ checkpoint \in [cursor : Nat, failed : BOOLEAN]
    BY DEF Init
  <2>3. /\ phase \in [Runs -> {"idle", "asking", "holding"}]
        /\ cursor \in [Runs -> Nat] /\ taken \in [Runs -> Nat]
        /\ pages \in [Runs -> Nat] /\ page \in [Runs -> Page]
    BY NoPageType DEF Init
  <2> QED
    BY <1>1, <2>1, <2>2, <2>3, Zenon DEF TypeOK
<1>3. NoGap
  BY DEF Init, NoGap, Covered, Visible
<1>4. StoredIsQueued
  BY DEF Init, StoredIsQueued, Stored
<1>5. \A r \in Runs : RunCovered(r)
  BY DEF Init, RunCovered
<1> QED
  BY <1>2, <1>3, <1>4, <1>5 DEF Inv

(* The steps of the source touch neither the tables nor a run. *)
LEMMA SourceInv ==
  ASSUME Inv, Publish \/ Edit \/ CalmDown
  PROVE  Inv'
<1>1. UNCHANGED <<storeVars, checkpoint, runVars>>
  BY DEF Publish, Edit, CalmDown
<1>2. TypeOK'
  <2>1. published' \in 0..Horizon
    BY DEF Publish, Edit, CalmDown, Inv, TypeOK
  <2>2. content' \in [Events -> Payloads]
    BY DEF Publish, Edit, CalmDown, Inv, TypeOK
  <2>3. calm' \in BOOLEAN
    BY Zenon DEF Publish, Edit, CalmDown, Inv, TypeOK
  <2> QED
    BY <1>1, <2>1, <2>2, <2>3 DEF Inv, TypeOK, StoreTypeOK, storeVars, runVars
<1> QED
  BY <1>1, <1>2
     DEF Inv, NoGap, Covered, StoredIsQueued, Stored, RunCovered, Acceptable,
         storeVars, runVars

(* A run starts from the checkpoint or from nothing: both are covered.      *)
LEMMA BeginInv ==
  ASSUME Inv, NEW r \in Runs, NEW resume \in BOOLEAN, Begin(r, resume)
  PROVE  Inv'
<1> USE DEF Inv
<1>1. UNCHANGED <<storeVars, sourceVars, checkpoint, taken, pages, page>>
  BY DEF Begin
<1>2. checkpoint.cursor \in Nat
  BY DEF TypeOK
<1>3. /\ phase' = [phase EXCEPT ![r] = "asking"]
      /\ cursor' = [cursor EXCEPT ![r] = IF resume THEN checkpoint.cursor ELSE 0]
  BY DEF Begin
<1>4. phase'[r] = "asking" /\ cursor'[r] = IF resume THEN checkpoint.cursor ELSE 0
  BY <1>3 DEF TypeOK
<1>5. TypeOK'
  BY <1>1, <1>2, <1>3 DEF TypeOK, StoreTypeOK, storeVars, sourceVars
<1>6. NoGap' /\ StoredIsQueued'
  BY <1>1 DEF NoGap, Covered, StoredIsQueued, Stored, storeVars
<1>7. RunCovered(r)'
  <2>1. Covered(cursor[r])'
    BY <1>1, <1>4 DEF NoGap, Covered, Visible, storeVars
  <2>2. taken'[r] < Limit
    BY <1>1 DEF RunCovered
  <2> QED
    BY <1>4, <2>1, <2>2 DEF RunCovered
<1>8. \A q \in Runs \ {r} : RunCovered(q)'
  BY <1>1, <1>3, OthersCovered DEF Others, TypeOK
<1> QED
  BY <1>5, <1>6, <1>7, <1>8

(* The items between two positions can be counted.                          *)
LEMMA VisibleFinite ==
  ASSUME NEW a \in Nat, NEW b \in Nat, NEW E \in SUBSET Visible(a..b)
  PROVE  IsFiniteSet(E) /\ Cardinality(E) \in Nat
<1>1. IsFiniteSet(a..b)
  BY FS_Interval
<1>2. E \in SUBSET (a..b)
  BY DEF Visible
<1>3. IsFiniteSet(E)
  BY <1>1, <1>2, FS_Subset
<1> QED
  BY <1>3, FS_CardinalityType

(* A run that receives a page stays covered, if its page closes the gap.    *)
LEMMA HoldInv ==
  ASSUME Inv, NEW r \in Runs, NEW p \in Page, Hold(r, p),
         Acceptable(r)' /\ p.to # None =>
           /\ cursor[r] <= p.to
           /\ \A e \in Visible(Events) : cursor[r] < e /\ e <= p.to => e \in DOMAIN p.batch
  PROVE  Inv'
<1> USE DEF Inv
<1>1. UNCHANGED <<storeVars, sourceVars, checkpoint, cursor, taken, pages>>
  BY DEF Hold
<1>2. /\ phase[r] = "asking"
      /\ phase' = [phase EXCEPT ![r] = "holding"]
      /\ page' = [page EXCEPT ![r] = p]
  BY DEF Hold
<1>3. page'[r] = p
  BY <1>2 DEF TypeOK
<1>4. TypeOK'
  BY <1>1, <1>2 DEF TypeOK, StoreTypeOK, storeVars, sourceVars
<1>5. NoGap' /\ StoredIsQueued'
  BY <1>1 DEF NoGap, Covered, StoredIsQueued, Stored, storeVars
<1>6. RunCovered(r)'
  <2>1. Covered(cursor[r])'
    BY <1>1, <1>2 DEF RunCovered, Covered, storeVars
  <2> QED
    BY <1>1, <1>3, <2>1 DEF RunCovered
<1>7. \A q \in Runs \ {r} : RunCovered(q)'
  BY <1>1, <1>2, OthersCovered DEF Others, TypeOK
<1> QED
  BY <1>4, <1>5, <1>6, <1>7

(* A batch of some items with what they say now is a batch.                 *)
LEMMA BatchType ==
  ASSUME TypeOK, NEW E \in SUBSET Events
  PROVE  [e \in E |-> content[e]] \in Batch
<1>1. [e \in E |-> content[e]] \in [E -> Payloads]
  BY DEF TypeOK
<1> QED
  BY <1>1 DEF Batch

(* The page of a collector that keeps the contract closes the gap.          *)
LEMMA CollectInv ==
  ASSUME Inv, NEW r \in Runs, Collect(r)
  PROVE  Inv'
<1>1. PICK to \in cursor[r]..published, more \in BOOLEAN :
        \E again \in SUBSET Visible(1..cursor[r]) :
          LET new == Visible((cursor[r] + 1)..to)
          IN  Hold(r, [batch   |-> [e \in new \cup again |-> content[e]],
                       primary |-> Cardinality(new),
                       to      |-> to,
                       more    |-> more,
                       sound   |-> TRUE])
  BY DEF Collect
<1> DEFINE new == Visible((cursor[r] + 1)..to)
<1>2. PICK again \in SUBSET Visible(1..cursor[r]) :
        Hold(r, [batch   |-> [e \in new \cup again |-> content[e]],
                 primary |-> Cardinality(new),
                 to      |-> to,
                 more    |-> more,
                 sound   |-> TRUE])
  BY <1>1
<1>3. cursor[r] \in Nat /\ published \in 0..Horizon /\ to \in Nat
  BY DEF Inv, TypeOK
<1>4. cursor[r] <= to /\ to <= Horizon
  BY <1>3
<1>5. new \in SUBSET Events /\ again \in SUBSET Events
  BY <1>3, <1>4 DEF Visible
<1>6. [e \in new \cup again |-> content[e]] \in Batch
  BY <1>5, BatchType DEF Inv
<1>7. Cardinality(new) \in Nat
  BY <1>3, VisibleFinite
<1>8. \A e \in Visible(Events) : cursor[r] < e /\ e <= to => e \in new \cup again
  BY <1>3 DEF Visible
<1> HIDE DEF new
<1> DEFINE p == [batch   |-> [e \in new \cup again |-> content[e]],
                 primary |-> Cardinality(new),
                 to      |-> to,
                 more    |-> more,
                 sound   |-> TRUE]
<1>9. p \in Page
  BY <1>3, <1>6, <1>7 DEF Page
<1>10. \A e \in Visible(Events) : cursor[r] < e /\ e <= p.to => e \in DOMAIN p.batch
  BY <1>8
<1>11. cursor[r] <= p.to /\ Hold(r, p)
  BY <1>2, <1>4
<1> HIDE DEF p
<1> QED
  BY <1>9, <1>10, <1>11, HoldInv

(* A page without a cursor moves no cursor.                                 *)
LEMMA CollectWithoutCursorInv ==
  ASSUME Inv, NEW r \in Runs, CollectWithoutCursor(r)
  PROVE  Inv'
<1>1. PICK E \in SUBSET Visible(1..published) :
        Hold(r, [batch   |-> [e \in E |-> content[e]],
                 primary |-> Cardinality(E),
                 to      |-> None,
                 more    |-> FALSE,
                 sound   |-> TRUE])
  BY DEF CollectWithoutCursor
<1>2. published \in 0..Horizon
  BY DEF Inv, TypeOK
<1>3. E \in SUBSET Events
  BY <1>2 DEF Visible
<1>4. [e \in E |-> content[e]] \in Batch
  BY <1>3, BatchType DEF Inv
<1>5. Cardinality(E) \in Nat
  BY <1>2, VisibleFinite
<1> DEFINE p == [batch   |-> [e \in E |-> content[e]],
                 primary |-> Cardinality(E),
                 to      |-> None,
                 more    |-> FALSE,
                 sound   |-> TRUE]
<1>6. p \in Page /\ p.to = None
  BY <1>4, <1>5 DEF Page
<1>7. Hold(r, p)
  BY <1>1
<1> HIDE DEF p
<1> QED
  BY <1>6, <1>7, HoldInv

(* A page that breaks the contract is not acceptable.                       *)
LEMMA CollectUnsoundInv ==
  ASSUME Inv, NEW r \in Runs, CollectUnsound(r)
  PROVE  Inv'
<1> DEFINE claim == [NoPage EXCEPT !.to = published]
<1>1. published \in Nat /\ taken[r] \in Nat
  BY DEF Inv, TypeOK
<1>2. ASSUME NEW p \in Page, Hold(r, p),
             \/ ~p.sound
             \/ p.more /\ p.to = None
             \/ p.primary > Limit - taken[r]
      PROVE  Inv'
  <2>1. page'[r] = p /\ taken'[r] = taken[r]
    BY <1>2 DEF Hold, Inv, TypeOK
  <2>2. p.primary \in Nat
    BY DEF Page
  <2>3. ~Acceptable(r)'
    BY <1>1, <1>2, <2>1, <2>2 DEF Acceptable
  <2> QED
    BY <1>2, <2>3, HoldInv
<1>3. CASE Hold(r, [claim EXCEPT !.sound = FALSE])
  BY <1>1, <1>2, <1>3, NoPageType DEF Page, NoPage
<1>4. CASE Hold(r, [claim EXCEPT !.primary = Limit - taken[r] + 1])
  <2>1. Limit - taken[r] + 1 \in Nat
    BY <1>1 DEF Inv, RunCovered
  <2> DEFINE p == [claim EXCEPT !.primary = Limit - taken[r] + 1]
  <2>2. p \in Page /\ p.primary = Limit - taken[r] + 1
    BY <1>1, <2>1, NoPageType DEF Page, NoPage
  <2>3. p.primary > Limit - taken[r] /\ Hold(r, p)
    BY <1>1, <1>4, <2>2
  <2> HIDE DEF p
  <2> QED
    BY <1>2, <2>2, <2>3
<1>5. CASE Hold(r, [claim EXCEPT !.to = None, !.more = TRUE])
  BY <1>1, <1>2, <1>5, NoPageType DEF Page, NoPage
<1> QED
  BY <1>3, <1>4, <1>5 DEF CollectUnsound

(* A run that ends without a commit leaves the cursor of the checkpoint.    *)
LEMMA FailureInv ==
  ASSUME Inv, NEW r \in Runs, CollectFails(r) \/ Refuse(r) \/ CommitFails(r)
  PROVE  Inv' /\ checkpoint'.cursor = checkpoint.cursor
<1> USE DEF Inv
<1>1. End(r) /\ UNCHANGED <<storeVars, sourceVars>>
  BY DEF CollectFails, Refuse, CommitFails
<1>2. /\ checkpoint' \in [cursor : Nat, failed : BOOLEAN]
      /\ checkpoint'.cursor = checkpoint.cursor
  BY DEF CollectFails, Refuse, CommitFails, RecordFailure, TypeOK
<1>3. RunsTypeOK' /\ Others(r) /\ phase'[r] = "idle"
  BY <1>1, EndEffect DEF TypeOK, RunsTypeOK
<1>4. TypeOK'
  BY <1>1, <1>2, <1>3 DEF TypeOK, StoreTypeOK, RunsTypeOK, storeVars, sourceVars
<1>5. NoGap' /\ StoredIsQueued'
  BY <1>1, <1>2 DEF NoGap, Covered, StoredIsQueued, Stored, storeVars
<1>6. RunCovered(r)'
  BY <1>1, <1>3 DEF RunCovered, End, TypeOK
<1>7. \A q \in Runs \ {r} : RunCovered(q)'
  BY <1>1, <1>3, OthersCovered
<1> QED
  BY <1>2, <1>4, <1>5, <1>6, <1>7

(* A commit covers what lies behind its cursor: the run had covered the     *)
(* items up to its own, and the page has the rest.                          *)
LEMMA CommitInv ==
  ASSUME Inv, NEW r \in Runs, Commit(r)
  PROVE  /\ Inv'
         /\ checkpoint'.cursor < checkpoint.cursor => cursor[r] < checkpoint.cursor
<1> DEFINE p == page[r]
<1>1. /\ phase[r] = "holding" /\ Acceptable(r) /\ WriteMany(p.batch)
      /\ UNCHANGED sourceVars
      /\ IF GoesOn(r) THEN Continue(r) ELSE End(r)
      /\ checkpoint' = IF p.to = None THEN checkpoint
                       ELSE [cursor |-> p.to, failed |-> FALSE]
  BY DEF Commit
<1>2. p \in Page /\ cursor[r] \in Nat /\ taken[r] \in Nat
  BY DEF Inv, TypeOK
<1>3. PICK E \in SUBSET Events : p.batch \in [E -> Payloads]
  BY <1>2 DEF Page, Batch
<1>4. StoreTypeOK /\ StoredIsQueued
  BY DEF Inv, TypeOK
<1>5. /\ StoreTypeOK' /\ StoredIsQueued'
      /\ \A e \in E : signal'[e] # None /\ \A s \in enabled' : row'[s][e].status # "none"
  BY <1>1, <1>3, <1>4, BatchCovered
<1>6. \A c \in Nat : Covered(c) => Covered(c)'
  BY <1>1, <1>3, <1>4, CoveredKept
<1>7. Covered(cursor[r]) /\ (p.to # None => cursor[r] <= p.to)
  BY <1>1 DEF Inv, RunCovered
<1>8. \A c \in Nat : c = p.to => Covered(c)'
  <2> SUFFICES ASSUME NEW c \in Nat, c = p.to, NEW e \in Visible(Events), e <= c
               PROVE  signal'[e] # None /\ \A s \in enabled' : row'[s][e].status # "none"
    BY DEF Covered
  <2>1. e \in Nat /\ p.to # None
    BY DEF Visible
  <2>2. CASE e <= cursor[r]
    BY <1>2, <1>6, <1>7, <2>2 DEF Covered
  <2>3. CASE cursor[r] < e
    <3>1. e \in DOMAIN p.batch
      BY <1>1, <2>1, <2>3 DEF Inv, RunCovered
    <3> QED
      BY <1>3, <1>5, <3>1
  <2> QED
    BY <1>2, <2>1, <2>2, <2>3
<1>9. NoGap'
  <2>1. CASE p.to = None
    BY <1>1, <1>6, <2>1 DEF Inv, NoGap, TypeOK
  <2>2. CASE p.to # None
    BY <1>1, <1>2, <1>8, <2>2 DEF NoGap, Page
  <2> QED
    BY <2>1, <2>2
<1>10. /\ RunsTypeOK' /\ Others(r) /\ taken'[r] < Limit
       /\ \/ phase'[r] = "idle"
          \/ phase'[r] = "asking" /\ p.to # None /\ cursor'[r] = p.to
  <2>1. RunsTypeOK /\ p.primary \in Nat
    BY <1>2 DEF Inv, TypeOK, RunsTypeOK, Page
  <2>2. CASE GoesOn(r)
    <3>1. p.to # None /\ taken[r] + p.primary < Limit
      BY <1>1, <2>2 DEF GoesOn, Acceptable
    <3>2. Continue(r)
      BY <1>1, <2>2
    <3>3. taken'[r] = taken[r] + p.primary
      BY <3>2, <2>1 DEF Continue, RunsTypeOK
    <3> QED
      BY <2>1, <3>1, <3>2, <3>3, ContinueEffect
  <2>3. CASE ~GoesOn(r)
    <3>1. End(r)
      BY <1>1, <2>3
    <3>2. taken'[r] = 0
      BY <3>1, <2>1 DEF End, RunsTypeOK
    <3> QED
      BY <2>1, <3>1, <3>2, EndEffect
  <2> QED
    BY <2>2, <2>3
<1>11. TypeOK'
  <2>1. checkpoint' \in [cursor : Nat, failed : BOOLEAN]
    BY <1>1, <1>2 DEF Inv, TypeOK, Page
  <2> QED
    BY <1>1, <1>5, <1>10, <2>1 DEF Inv, TypeOK, RunsTypeOK, sourceVars
<1>12. RunCovered(r)'
  <2>1. CASE phase'[r] = "idle"
    BY <1>10, <2>1 DEF RunCovered
  <2>2. CASE phase'[r] = "asking" /\ p.to # None /\ cursor'[r] = p.to
    <3>1. Covered(cursor[r])'
      BY <1>2, <1>8, <2>2 DEF Covered, Page
    <3> QED
      BY <1>10, <2>2, <3>1 DEF RunCovered
  <2> QED
    BY <1>10, <2>1, <2>2
<1>13. \A q \in Runs \ {r} : RunCovered(q)'
  BY <1>1, <1>3, <1>10, OthersCovered
<1>14. checkpoint'.cursor < checkpoint.cursor => cursor[r] < checkpoint.cursor
  <2>1. checkpoint.cursor \in Nat
    BY DEF Inv, TypeOK
  <2>2. CASE p.to = None
    BY <1>1, <2>1, <2>2
  <2>3. CASE p.to # None
    <3>1. checkpoint'.cursor = p.to /\ p.to \in Nat
      BY <1>1, <1>2, <2>3 DEF Page
    <3> QED
      BY <1>2, <1>7, <2>1, <2>3, <3>1
  <2> QED
    BY <2>2, <2>3
<1> QED
  BY <1>5, <1>9, <1>11, <1>12, <1>13, <1>14 DEF Inv

(* A kill forgets the runs and nothing else.                                *)
LEMMA KillInv ==
  ASSUME Inv, Kill
  PROVE  Inv' /\ checkpoint' = checkpoint
<1>1. UNCHANGED <<storeVars, sourceVars, checkpoint>>
  BY DEF Kill
<1>2. RunsTypeOK' /\ \A r \in Runs : phase'[r] = "idle" /\ taken'[r] = 0
  BY NoPageType DEF Kill, RunsTypeOK
<1>3. TypeOK'
  BY <1>1, <1>2 DEF Inv, TypeOK, StoreTypeOK, RunsTypeOK, storeVars, sourceVars
<1>4. NoGap' /\ StoredIsQueued'
  BY <1>1 DEF Inv, NoGap, Covered, StoredIsQueued, Stored, storeVars
<1>5. \A r \in Runs : RunCovered(r)'
  BY <1>2 DEF RunCovered
<1> QED
  BY <1>1, <1>3, <1>4, <1>5 DEF Inv

-----------------------------------------------------------------------------
(* Every step keeps the invariant, and the checkpoint as CheckpointKept says. *)
LEMMA InvNext ==
  ASSUME Inv, [Next]_vars
  PROVE  /\ Inv'
         /\ checkpoint'.cursor < checkpoint.cursor =>
              \E r \in Runs : phase[r] = "holding" /\ cursor[r] < checkpoint.cursor
<1> DEFINE Kept == checkpoint'.cursor < checkpoint.cursor =>
                     \E r \in Runs : phase[r] = "holding" /\ cursor[r] < checkpoint.cursor
<1>1. UNCHANGED checkpoint \/ checkpoint'.cursor = checkpoint.cursor => Kept
  BY DEF Inv, TypeOK
<1>2. CASE Publish \/ Edit \/ CalmDown
  BY <1>1, <1>2, SourceInv DEF Publish, Edit, CalmDown
<1>3. CASE Kill
  BY <1>1, <1>3, KillInv
<1>4. ASSUME NEW r \in Runs, Begin(r, TRUE) \/ Begin(r, FALSE)
      PROVE  Inv' /\ Kept
  BY <1>1, <1>4, BeginInv DEF Begin
<1>5. ASSUME NEW r \in Runs,
             Collect(r) \/ CollectWithoutCursor(r) \/ CollectUnsound(r)
      PROVE  Inv' /\ Kept
  <2>1. UNCHANGED checkpoint
    BY <1>5 DEF Collect, CollectWithoutCursor, CollectUnsound, Hold
  <2> QED
    BY <1>1, <1>5, <2>1, CollectInv, CollectWithoutCursorInv, CollectUnsoundInv
<1>6. ASSUME NEW r \in Runs, Commit(r) PROVE Inv' /\ Kept
  <2>1. phase[r] = "holding"
    BY <1>6 DEF Commit
  <2> QED
    BY <1>6, <2>1, CommitInv
<1>7. ASSUME NEW r \in Runs, CollectFails(r) \/ Refuse(r) \/ CommitFails(r)
      PROVE  Inv' /\ Kept
  BY <1>1, <1>7, FailureInv
<1>8. CASE UNCHANGED vars
  <2> USE <1>8 DEF vars, storeVars, sourceVars, runVars
  <2>1. TypeOK'
    BY DEF Inv, TypeOK, StoreTypeOK
  <2>2. NoGap' /\ StoredIsQueued' /\ \A r \in Runs : RunCovered(r)'
    BY DEF Inv, NoGap, Covered, StoredIsQueued, Stored, RunCovered, Acceptable
  <2> QED
    BY <1>1, <2>1, <2>2 DEF Inv
<1> HIDE DEF Kept
<1> QED
  BY <1>2, <1>3, <1>4, <1>5, <1>6, <1>7, <1>8 DEF Next, Kept

(* The inductive invariant holds in every reachable state. *)
THEOREM PipelineInv == Spec => []Inv
<1>1. Inv /\ [Next]_vars => Inv'
  BY InvNext
<1> QED
  BY <1>1, InvInit, PTL DEF Spec

(* No gap behind the checkpoint, for any number of items, runs and sinks,   *)
(* whatever fails, is killed, refused or overlaps.                          *)
THEOREM NothingSkipped == Spec => []NoGap
<1>1. Inv => NoGap
  BY DEF Inv
<1> QED
  BY <1>1, PipelineInv, PTL

(* Failures, refused pages and kills do not move the checkpoint back.       *)
THEOREM CheckpointSurvives == Spec => CheckpointKept
<1>1. Inv /\ [Next]_vars =>
        (checkpoint'.cursor < checkpoint.cursor =>
           \E r \in Runs : phase[r] = "holding" /\ cursor[r] < checkpoint.cursor)
  BY InvNext
<1> QED
  BY <1>1, PipelineInv, PTL DEF Spec, CheckpointKept
=============================================================================
