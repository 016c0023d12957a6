------------------------- MODULE JSONFeedCollector -------------------------
(***************************************************************************)
(* JSONFeedCollector.collect: a walk through the pages of a feed, linked   *)
(* by next_url, down to the first item that was known when it began.       *)
(***************************************************************************)
EXTENDS Listing

CONSTANTS None, PageSize

(* page is page_url: 0 for none, otherwise the number of the page. *)
Fresh == [page |-> 0, offset |-> 0, seen |-> << >>, watermark |-> << >>,
          etag |-> None]

CursorOK(cursor) ==
  /\ {cursor.page, cursor.offset} \subseteq Nat
  /\ cursor.page = 0 => cursor.offset = 0 /\ cursor.watermark = << >>
  /\ Remembered(cursor.seen) /\ Remembered(cursor.watermark)
  /\ cursor.etag # None => cursor.etag \in Seq(Item)

Walking(cursor) == cursor.page # 0

(* Variant: a walk stops at whatever was collected before, in it or not. *)
WatermarkMoving(cursor) == cursor.seen

(* The ids at which a walk from this cursor stops. *)
Watermark(cursor) == IF Walking(cursor) THEN cursor.watermark ELSE cursor.seen

Asked(cursor) == IF Walking(cursor) THEN cursor.page ELSE 1

Body(cursor, feed) == ServedPage(feed, PageSize, Asked(cursor))

(* Variant: the validators are sent with every request. *)
NotModifiedAnywhere(cursor, feed) == cursor.etag = Body(cursor, feed)

NotModified(cursor, feed) == ~Walking(cursor) /\ cursor.etag = Body(cursor, feed)

(* An offset behind the end of the page is a CURSOR error, which is final. *)
Serves(cursor, feed) ==
  NotModified(cursor, feed) \/ cursor.offset <= Len(Body(cursor, feed))

(* The validators are those of the first page of the walk. *)
Etag(cursor, body) == IF Walking(cursor) THEN cursor.etag ELSE body

(* An item without a date is dated now. *)
Event(conf, item) == EventOf(item, IF conf.dated THEN "source" ELSE "clock")

Collect(conf, cursor, feed, limit) ==
  IF NotModified(cursor, feed)
  THEN Result(<< >>, {},
              [cursor EXCEPT !.page = 0, !.offset = 0, !.watermark = << >>],
              FALSE)
  ELSE LET body == Body(cursor, feed)
           rest == Beyond(body, cursor.offset)
           open == Before(rest, Watermark(cursor))
           counted == First(open, limit)
           reached == Len(open) < Len(rest) /\ Len(open) < limit
           new == Without(counted, cursor.seen)
           end == cursor.offset + Len(counted)
           linked == Asked(cursor) * PageSize < Len(feed)
           page == IF reached THEN 0
                   ELSE IF end < Len(body) THEN Asked(cursor)
                   ELSE IF linked THEN Asked(cursor) + 1
                   ELSE 0
           seen == IF Walking(cursor)
                   THEN Remember(cursor.seen, IdSeq(new))
                   ELSE Remember(IdSeq(new), cursor.seen)
       IN Result([k \in DOMAIN new |-> Event(conf, new[k])], {},
                 [page |-> page,
                  offset |-> IF page # 0 /\ end < Len(body) THEN end ELSE 0,
                  seen |-> seen,
                  watermark |-> IF page # 0 THEN Watermark(cursor) ELSE << >>,
                  etag |-> Etag(cursor, body)],
                 page # 0)
=============================================================================
