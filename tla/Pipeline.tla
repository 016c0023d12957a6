------------------------------ MODULE Pipeline ------------------------------
(***************************************************************************)
(* run_collector: a collection run asks a collector for page after page,   *)
(* validates each one, and commits its events together with the cursor     *)
(* that follows them.  Runs fail, are killed and start again from the      *)
(* checkpoint.                                                             *)
(*                                                                         *)
(* The source is a list of items, numbered in the order the collector      *)
(* walks them; a cursor is the number of items that lie behind it.  What   *)
(* a particular collector does to find its way through a feed is not       *)
(* modelled here, only the contract that run_collector relies on.          *)
(***************************************************************************)
EXTENDS Outbox

CONSTANTS
  Runs,      \* collection runs that may overlap: the worker, a one-shot collect
  Horizon,   \* how many items the source ever publishes
  Filtered,  \* items the collector walks past without making events of them
  Limit,     \* the primary items a run may take
  MaxPages   \* the pages a run may ask for

ASSUME PipelineAssumption ==
  /\ Horizon \in Nat
  /\ Events = 1..Horizon
  /\ None \notin Nat
  /\ Filtered \subseteq Events
  /\ Limit \in Nat \ {0}
  /\ MaxPages \in Nat \ {0}

VARIABLES
  published,   \* the source has published the items up to this one
  content,     \* what each item says now
  calm,        \* from now on nothing fails, interrupts or misleads a run
  checkpoint,  \* the row of the source in checkpoints: cursor, and whether last_error is set
  phase,       \* what each run is at: "idle", "asking" the collector or "holding" its page
  cursor,      \* the cursor a run asks with
  taken,       \* primary_count so far
  pages,       \* pages so far
  page         \* the page a run holds

sourceVars == <<published, content, calm>>
runVars    == <<phase, cursor, taken, pages, page>>
vars       == <<storeVars, sourceVars, checkpoint, runVars>>

Batch == UNION {[E -> Payloads] : E \in SUBSET Events}

(* "to" is the page's cursor (None when it has none); "sound" says that its *)
(* events have this source's key, distinct ids and timezones.               *)
Page == [batch : Batch, primary : Nat, to : Nat \cup {None}, more : BOOLEAN, sound : BOOLEAN]

EmptyBatch == [e \in {} |-> None]

NoPage == [batch |-> EmptyBatch, primary |-> 0, to |-> None, more |-> FALSE, sound |-> TRUE]

Visible(I) == I \ Filtered

-----------------------------------------------------------------------------
(* The sinks are registered before the first run starts. *)
Init ==
  /\ signal = [e \in Events |-> None]
  /\ enabled \in SUBSET Sinks
  /\ row = [s \in Sinks |-> [e \in Events |-> NoRow]]
  /\ older = [s \in Sinks |-> {}]
  /\ published = 0
  /\ content \in [Events -> Payloads]
  /\ calm = FALSE
  /\ checkpoint = [cursor |-> 0, failed |-> FALSE]
  /\ phase = [r \in Runs |-> "idle"]
  /\ cursor = [r \in Runs |-> 0]
  /\ taken = [r \in Runs |-> 0]
  /\ pages = [r \in Runs |-> 0]
  /\ page = [r \in Runs |-> NoPage]

(* The source publishes its next item, or edits one it has published. *)
Publish ==
  /\ published < Horizon
  /\ published' = published + 1
  /\ UNCHANGED <<storeVars, content, calm, checkpoint, runVars>>

Edit ==
  /\ \E e \in 1..published, v \in Payloads :
       /\ v # content[e]
       /\ content' = [content EXCEPT ![e] = v]
  /\ UNCHANGED <<storeVars, published, calm, checkpoint, runVars>>

(***************************************************************************)
(* The disturbances cease.  Nothing is ever stored of a source that always *)
(* fails, so the liveness property speaks of calm weather; an assumption   *)
(* on steps would not do, for a commit that stores nothing new and one     *)
(* that fails are the same step.                                           *)
(***************************************************************************)
CalmDown ==
  /\ ~calm
  /\ calm' = TRUE
  /\ UNCHANGED <<storeVars, published, content, checkpoint, runVars>>

-----------------------------------------------------------------------------
(* A run starts from the checkpoint, or from nothing with --fresh.  (The   *)
(* empty cursor that record_failure writes for a source without a          *)
(* checkpoint is a start from nothing as well.)                            *)
Begin(r, resume) ==
  /\ phase[r] = "idle"
  /\ calm => resume
  /\ phase' = [phase EXCEPT ![r] = "asking"]
  /\ cursor' = [cursor EXCEPT ![r] = IF resume THEN checkpoint.cursor ELSE 0]
  /\ UNCHANGED <<storeVars, sourceVars, checkpoint, taken, pages, page>>

Hold(r, p) ==
  /\ phase[r] = "asking"
  /\ phase' = [phase EXCEPT ![r] = "holding"]
  /\ page' = [page EXCEPT ![r] = p]
  /\ UNCHANGED <<storeVars, sourceVars, checkpoint, cursor, taken, pages>>

(***************************************************************************)
(* A collector that keeps the contract: the page holds the visible items   *)
(* from the run's cursor to its own, within the limit, and perhaps earlier *)
(* items again (refreshed threads).  It gets past at least one item if     *)
(* there is one; has_more is a guess.                                      *)
(***************************************************************************)
Collect(r) ==
  \E to \in cursor[r]..published, more \in BOOLEAN :
    \E again \in SUBSET Visible(1..cursor[r]) :
      LET new == Visible((cursor[r] + 1)..to)
      IN  /\ to = cursor[r] => cursor[r] >= published
          /\ Cardinality(new) <= Limit - taken[r]
          /\ Hold(r, [batch   |-> [e \in new \cup again |-> content[e]],
                      primary |-> Cardinality(new),
                      to      |-> to,
                      more    |-> more,
                      sound   |-> TRUE])

(* A collector that keeps no cursor: a snapshot of what it sees. *)
CollectWithoutCursor(r) ==
  \E E \in SUBSET Visible(1..published) :
    /\ ~calm
    /\ Cardinality(E) <= Limit - taken[r]
    /\ Hold(r, [batch   |-> [e \in E |-> content[e]],
                primary |-> Cardinality(E),
                to      |-> None,
                more    |-> FALSE,
                sound   |-> TRUE])

(* A collector that breaks the contract in one of the ways that            *)
(* validate_collector_result looks for, and claims to be at the end.       *)
CollectUnsound(r) ==
  LET claim == [NoPage EXCEPT !.to = published]
  IN  /\ ~calm
      /\ \/ Hold(r, [claim EXCEPT !.sound = FALSE])
         \/ Hold(r, [claim EXCEPT !.primary = Limit - taken[r] + 1])
         \/ Hold(r, [claim EXCEPT !.to = None, !.more = TRUE])

-----------------------------------------------------------------------------
(* Variant: only the shape of the events is looked at. *)
AcceptableWithoutCounts(r) == page[r].sound

(* validate_collector_result. *)
Acceptable(r) ==
  /\ page[r].primary <= Limit - taken[r]
  /\ page[r].more => page[r].to # None
  /\ page[r].sound

(* The run is over, one way or the other; what it knew is forgotten. *)
End(r) ==
  /\ phase' = [phase EXCEPT ![r] = "idle"]
  /\ cursor' = [cursor EXCEPT ![r] = 0]
  /\ taken' = [taken EXCEPT ![r] = 0]
  /\ pages' = [pages EXCEPT ![r] = 0]
  /\ page' = [page EXCEPT ![r] = NoPage]

(* The conditions on which the loop asks for another page. *)
GoesOn(r) ==
  LET p == page[r]
  IN  /\ p.more
      /\ p.primary > 0
      /\ p.to # cursor[r]
      /\ taken[r] + p.primary < Limit
      /\ pages[r] + 1 < MaxPages

Continue(r) ==
  /\ phase' = [phase EXCEPT ![r] = "asking"]
  /\ cursor' = [cursor EXCEPT ![r] = page[r].to]
  /\ taken' = [taken EXCEPT ![r] = @ + page[r].primary]
  /\ pages' = [pages EXCEPT ![r] = @ + 1]
  /\ page' = [page EXCEPT ![r] = NoPage]

(* Variant: the checks that stop the loop come before the commit. *)
CommitIfAny(r) ==
  /\ phase[r] = "holding"
  /\ Acceptable(r)
  /\ IF page[r].primary > 0
     THEN /\ WriteMany(page[r].batch)
          /\ checkpoint' = IF page[r].to = None THEN checkpoint
                           ELSE [cursor |-> page[r].to, failed |-> FALSE]
     ELSE UNCHANGED <<storeVars, checkpoint>>
  /\ IF GoesOn(r) THEN Continue(r) ELSE End(r)
  /\ UNCHANGED sourceVars

(* commit_batch: one transaction for the events, what the triggers queue,  *)
(* and the cursor. *)
Commit(r) ==
  /\ phase[r] = "holding"
  /\ Acceptable(r)
  /\ WriteMany(page[r].batch)
  /\ checkpoint' = IF page[r].to = None THEN checkpoint
                   ELSE [cursor |-> page[r].to, failed |-> FALSE]
  /\ IF GoesOn(r) THEN Continue(r) ELSE End(r)
  /\ UNCHANGED sourceVars

(* Variant: the failure is booked with a new, empty cursor. *)
RecordFailureAnew == checkpoint' = [cursor |-> 0, failed |-> TRUE]

(* record_failure keeps the cursor that is there.  It may meet a locked    *)
(* database itself.                                                        *)
RecordFailure ==
  \/ checkpoint' = [checkpoint EXCEPT !.failed = TRUE]
  \/ UNCHANGED checkpoint

(* The collector raises. *)
CollectFails(r) ==
  /\ ~calm
  /\ phase[r] = "asking"
  /\ RecordFailure
  /\ End(r)
  /\ UNCHANGED <<storeVars, sourceVars>>

(* The page is refused before anything of it is stored. *)
Refuse(r) ==
  /\ phase[r] = "holding"
  /\ ~Acceptable(r)
  /\ RecordFailure
  /\ End(r)
  /\ UNCHANGED <<storeVars, sourceVars>>

(* Variant: the cursor is stored by a transaction of its own, first. *)
CommitFailsHalfway(r) ==
  /\ ~calm
  /\ phase[r] = "holding"
  /\ Acceptable(r)
  /\ checkpoint' = IF page[r].to = None THEN checkpoint
                   ELSE [cursor |-> page[r].to, failed |-> TRUE]
  /\ End(r)
  /\ UNCHANGED <<storeVars, sourceVars>>

(* commit_batch meets a locked database and rolls back. *)
CommitFails(r) ==
  /\ ~calm
  /\ phase[r] = "holding"
  /\ Acceptable(r)
  /\ RecordFailure
  /\ End(r)
  /\ UNCHANGED <<storeVars, sourceVars>>

(* Cancellation or a kill: no handler of run_collector sees it. *)
Kill ==
  /\ ~calm
  /\ \E r \in Runs : phase[r] # "idle"
  /\ phase' = [r \in Runs |-> "idle"]
  /\ cursor' = [r \in Runs |-> 0]
  /\ taken' = [r \in Runs |-> 0]
  /\ pages' = [r \in Runs |-> 0]
  /\ page' = [r \in Runs |-> NoPage]
  /\ UNCHANGED <<storeVars, sourceVars, checkpoint>>

-----------------------------------------------------------------------------
Next ==
  \/ Publish
  \/ Edit
  \/ CalmDown
  \/ Kill
  \/ \E r \in Runs :
       \/ Begin(r, TRUE)
       \/ Begin(r, FALSE)
       \/ Collect(r)
       \/ CollectWithoutCursor(r)
       \/ CollectUnsound(r)
       \/ Commit(r)
       \/ CollectFails(r)
       \/ Refuse(r)
       \/ CommitFails(r)

Spec == Init /\ [][Next]_vars

(***************************************************************************)
(* The worker of a source starts run after run, and a run that holds a     *)
(* page goes on without waiting for anyone.  Requests time out and are     *)
(* retried a bounded number of times, so a collector answers or raises.    *)
(***************************************************************************)
Fairness ==
  \A r \in Runs :
    /\ WF_vars(Begin(r, TRUE))
    /\ WF_vars(Collect(r) \/ CollectFails(r))
    /\ WF_vars(Commit(r) \/ CommitFails(r))
    /\ WF_vars(Refuse(r))

FairSpec == Spec /\ Fairness

-----------------------------------------------------------------------------
(* Every variable has its type. *)
TypeOK ==
  /\ StoreTypeOK
  /\ published \in 0..Horizon
  /\ content \in [Events -> Payloads]
  /\ calm \in BOOLEAN
  /\ checkpoint \in [cursor : Nat, failed : BOOLEAN]
  /\ phase \in [Runs -> {"idle", "asking", "holding"}]
  /\ cursor \in [Runs -> Nat]
  /\ taken \in [Runs -> Nat]
  /\ pages \in [Runs -> Nat]
  /\ page \in [Runs -> Page]

(* Everything before the cursor c is stored, and queued for every sink. *)
Covered(c) ==
  \A e \in Visible(Events) : e <= c =>
    signal[e] # None /\ \A s \in enabled : row[s][e].status # "none"

(* No gap behind the checkpoint: whatever failed, was killed, refused or   *)
(* overlapped, a run that resumes from the checkpoint skips no item that   *)
(* is not in the store and in the outbox.                                  *)
NoGap == Covered(checkpoint.cursor)

(* The rows of deliveries keep up with signals. *)
StoredIsQueued == \A e \in Stored, s \in enabled : row[s][e].status # "none"

(* A run has some of its limit left, is not further than its commits, and  *)
(* a page it may still commit has the items between its cursor and the     *)
(* run's.                                                                  *)
RunCovered(r) ==
  /\ taken[r] < Limit
  /\ phase[r] # "idle" => Covered(cursor[r])
  /\ phase[r] = "holding" /\ Acceptable(r) /\ page[r].to # None =>
       /\ cursor[r] <= page[r].to
       /\ \A e \in Visible(Events) :
            cursor[r] < e /\ e <= page[r].to => e \in DOMAIN page[r].batch

(* The strengthening under which NoGap is inductive. *)
Inv ==
  /\ TypeOK
  /\ NoGap
  /\ StoredIsQueued
  /\ \A r \in Runs : RunCovered(r)

(* Only a run that itself started behind the checkpoint (--fresh) moves it *)
(* back; failures, refused pages and kills do not.                         *)
CheckpointKept ==
  [][checkpoint'.cursor < checkpoint.cursor =>
       \E r \in Runs : phase[r] = "holding" /\ cursor[r] < checkpoint.cursor]_vars

(* Every published item is stored once the disturbances cease, unless the  *)
(* collector filters it: wherever earlier runs were stopped, and although  *)
(* a page of filtered items ends a run.                                    *)
EverythingCollected ==
  \A e \in Events :
    (calm /\ e <= published /\ e \notin Filtered) ~> signal[e] # None
=============================================================================
