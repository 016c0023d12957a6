---------------------------- MODULE RSSCollector ----------------------------
(***************************************************************************)
(* RSSCollector.collect: one request for the whole feed, of which a call   *)
(* emits the entries at offset .. offset + limit - 1.                      *)
(***************************************************************************)
EXTENDS Listing

CONSTANT None

(* A validator (ETag, Last-Modified) stands for the document it came with, *)
(* so a conditional request is answered 304 when the document is the same. *)
Fresh == [offset |-> 0, anchor |-> None, etag |-> None]

CursorOK(cursor) ==
  /\ cursor.offset \in Nat
  /\ cursor.offset = 0 <=> cursor.anchor = None
  /\ cursor.etag # None => cursor.etag \in Seq(Item)

Walking(cursor) == cursor.offset # 0

(* Validators are sent between walks only. *)
NotModified(cursor, feed) == ~Walking(cursor) /\ cursor.etag = feed

(* Variant: only the length of the feed is looked at. *)
ResumeAtOffset(cursor, feed) ==
  IF cursor.offset > Len(feed) THEN 0 ELSE cursor.offset

(* The walk goes on where it was if the last entry of the previous batch   *)
(* still has its place, and restarts otherwise.                            *)
Resume(cursor, feed) ==
  IF \/ /\ cursor.offset # 0 /\ cursor.anchor # None
        /\ \/ cursor.offset > Len(feed)
           \/ feed[cursor.offset].id # cursor.anchor
     \/ cursor.anchor = None /\ cursor.offset > Len(feed)
  THEN 0
  ELSE cursor.offset

(* An entry without a publication date is dated now. *)
Event(conf, item) == EventOf(item, IF conf.dated THEN "source" ELSE "clock")

Collect(conf, cursor, feed, limit) ==
  IF NotModified(cursor, feed)
  THEN Result(<< >>, {}, cursor, FALSE)
  ELSE LET offset == Resume(cursor, feed)
           selected == First(Beyond(feed, offset), limit)
           end == offset + Len(selected)
           more == end < Len(feed)
       IN Result([k \in DOMAIN selected |-> Event(conf, selected[k])], {},
                 [offset |-> IF more THEN end ELSE 0,
                  anchor |-> IF more THEN feed[end].id ELSE None,
                  etag |-> feed],
                 more)
=============================================================================
