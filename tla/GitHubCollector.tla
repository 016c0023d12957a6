-------------------------- MODULE GitHubCollector --------------------------
(***************************************************************************)
(* GitHubCollector.collect: a search sorted by the second of the last      *)
(* update, oldest first, from the committed watermark on, walked by page   *)
(* number.                                                                 *)
(***************************************************************************)
EXTENDS Listing

CONSTANTS
  SearchCap,  \* how many results the search API serves: 1000
  MaxPerPage  \* and how many of them on one page: 100

(* watermark 0: none yet. per_page 0: not chosen yet. *)
Fresh == [page |-> 1, offset |-> 0, perPage |-> 0, watermark |-> 0]

CursorOK(cursor) ==
  /\ {cursor.offset, cursor.watermark} \subseteq Nat
  /\ cursor.perPage \in 0..MaxPerPage
  /\ cursor.page \in Nat \ {0}
  /\ cursor.offset # 0 => cursor.offset < cursor.perPage

Walking(cursor) == cursor.page # 1 \/ cursor.offset # 0

(* Variant: the query excludes the second of the watermark. *)
MatchesAfter(cursor, listing) ==
  LET oldestFirst == [k \in DOMAIN listing |-> listing[Len(listing) + 1 - k]]
  IN Kept(oldestFirst, {k \in DOMAIN oldestFirst : oldestFirst[k].at > cursor.watermark})

(* What the query updated:>=watermark finds, in the order asked for. *)
Matches(cursor, listing) ==
  LET oldestFirst == [k \in DOMAIN listing |-> listing[Len(listing) + 1 - k]]
  IN Kept(oldestFirst, {k \in DOMAIN oldestFirst : oldestFirst[k].at >= cursor.watermark})

Latest(items, watermark) ==
  LET times == {items[k].at : k \in DOMAIN items} \cup {watermark}
  IN CHOOSE t \in times : \A u \in times : u <= t

Lesser(a, b) == IF a <= b THEN a ELSE b

(* The cursor of a walk that goes on keeps the watermark it began with. *)
WalkOn(cursor, page, offset, perPage) ==
  [page |-> page, offset |-> offset, perPage |-> perPage,
   watermark |-> cursor.watermark]

(* An issue or pull request; both dates come from the search. *)
Event(item) == EventOf(item, "source")

Collect(cursor, listing, limit) ==
  LET perPage == Lesser(MaxPerPage, IF cursor.perPage = 0 THEN limit ELSE cursor.perPage)
      found == Matches(cursor, listing)
      items == ServedPage(First(found, SearchCap), perPage, cursor.page)
      selected == First(Beyond(items, cursor.offset), limit)
      end == cursor.offset + Len(selected)
      rest == end < Len(items)
      another == /\ items # << >>
                 /\ Len(items) = perPage
                 /\ cursor.page * perPage < Lesser(Len(found), SearchCap)
  IN Result([k \in DOMAIN selected |-> Event(selected[k])], {},
            IF rest
            THEN WalkOn(cursor, cursor.page, end, perPage)
            ELSE IF another
            THEN WalkOn(cursor, cursor.page + 1, 0, perPage)
            ELSE [page |-> 1, offset |-> 0, perPage |-> perPage,
                  watermark |-> Latest(selected, cursor.watermark)],
            rest \/ another)
=============================================================================
