-------------------------- MODULE RedditCollector --------------------------
(***************************************************************************)
(* RedditCollector.collect: a walk through a listing with the native after *)
(* cursor, down to the first post that was known when it began, and then   *)
(* another look at the comments of recent posts.                           *)
(***************************************************************************)
EXTENDS Listing

CONSTANTS None, Refresh

Fresh == [after |-> None, seen |-> << >>, watermark |-> << >>]

CursorOK(cursor) ==
  /\ cursor.after \in Nat \cup {None}
  /\ Remembered(cursor.seen) /\ Remembered(cursor.watermark)
  /\ cursor.after = None => cursor.watermark = << >>

Walking(cursor) == cursor.after # None

Watermark(cursor) == IF Walking(cursor) THEN cursor.watermark ELSE cursor.seen

(* The listing is asked for at most limit posts behind the anchor. *)
Ahead(cursor, listing) ==
  IF Walking(cursor) THEN Following(listing, cursor.after) ELSE listing

(* The posts revisited by the last call of a walk. *)
Revisit(cursor, processed) == First(Omit(cursor.seen, processed), Refresh)

(* The posts whose comments are read, newest first. *)
ThreadsRead(posts, revisited) ==
  IdsIn(posts) \cup {revisited[k] : k \in DOMAIN revisited}

(* A post; the API gives the time of its creation. *)
Event(post) == EventOf(post, "source")

Collect(cursor, listing, limit) ==
  LET ahead == Ahead(cursor, listing)
      children == First(ahead, limit)
      open == Before(children, Watermark(cursor))
      reached == Len(open) < Len(children)
      posts == Without(open, cursor.seen)
      processed == IdSeq(posts)
      more == ~reached /\ Len(children) < Len(ahead)
      revisited == IF more THEN << >> ELSE Revisit(cursor, processed)
  IN Result([k \in DOMAIN posts |-> Event(posts[k])],
            ThreadsRead(posts, revisited),
            [after |-> IF more THEN children[Len(children)].id ELSE None,
             seen |-> IF Walking(cursor)
                      THEN Remember(cursor.seen, processed)
                      ELSE Remember(processed, cursor.seen),
             watermark |-> IF more THEN Watermark(cursor) ELSE << >>],
            more)
=============================================================================
