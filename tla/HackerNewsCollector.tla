------------------------ MODULE HackerNewsCollector ------------------------
(***************************************************************************)
(* HackerNewsCollector.collect: the ids on a front page that were not seen *)
(* yet, and, once none is left, another look at the comments of recent     *)
(* stories.                                                                *)
(***************************************************************************)
EXTENDS Listing

CONSTANT Refresh  \* comment_refresh: how many stories are revisited

Fresh == [seen |-> << >>, refresh |-> << >>]

CursorOK(cursor) ==
  /\ Remembered(cursor.seen)
  /\ cursor.refresh \in Seq(Nat) /\ Len(cursor.refresh) <= Refresh
  /\ Distinct(cursor.refresh)

(* Deleted and dead stories, and those the API returns as null. *)
Readable(items) == Kept(items, {k \in DOMAIN items : ~items[k].dead})

(* Variant: no story is revisited. *)
RevisitNone(cursor, processed) == << >>

(* The stories revisited by a call that caught up with the list. *)
Revisit(cursor, processed) ==
  First(Omit(Merged(cursor.refresh, cursor.seen), processed), Refresh)

(* The stories whose comments are read, the most recent ones first, so     *)
(* that a new comment is among them.                                       *)
ThreadsRead(stories, revisited, listing) ==
  LET Answers(x) == \A k \in DOMAIN listing : listing[k].id = x => ~listing[k].dead
      open == {k \in DOMAIN revisited : Answers(revisited[k])}
  IN IdsIn(stories) \cup {revisited[k] : k \in open}

(* A story; every item of the API has its time. *)
Event(item) == EventOf(item, "source")

Collect(cursor, listing, limit) ==
  LET candidates == Without(listing, cursor.seen)
      taken == First(candidates, limit)
      processed == IdSeq(taken)
      more == Len(candidates) > Len(taken)
      stories == Readable(taken)
      revisited == IF more THEN << >> ELSE Revisit(cursor, processed)
  IN Result([k \in DOMAIN stories |-> Event(stories[k])],
            ThreadsRead(stories, revisited, listing),
            [seen |-> Remember(processed, cursor.seen),
             refresh |-> First(Merged(processed,
                                      Merged(cursor.refresh, cursor.seen)),
                               Refresh)],
            more)
=============================================================================
