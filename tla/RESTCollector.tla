--------------------------- MODULE RESTCollector ---------------------------
(***************************************************************************)
(* GenericRESTCollector.collect: a walk through an endpoint that serves    *)
(* one document, numbered pages or pages behind an opaque cursor, down to  *)
(* the first item that was known when it began.                            *)
(*                                                                         *)
(* conf.pagination is "none", "page" or "cursor"; conf.backfill is         *)
(* initial_backfill; conf.sized says that a limit_param is configured, and *)
(* conf.validator which validators the endpoint sends: an ETag of every    *)
(* response ("body"), of the first page only ("first"), or the time when   *)
(* anything in the listing last changed, with every response ("listing").  *)
(* The opaque cursor of the server is the id of the last item it served.   *)
(***************************************************************************)
EXTENDS Listing

CONSTANTS None, PageSize

Fresh == [initialized |-> FALSE, seen |-> << >>, cycle |-> << >>, page |-> 1,
          after |-> None, etag |-> None, modified |-> None,
          pendingEtag |-> None, pendingModified |-> None]

Validators == Seq(Item) \cup {None}
CursorOK(cursor) ==
  /\ cursor \in [initialized : BOOLEAN, seen : Seq(Nat), cycle : Seq(Nat),
                 page : Nat \ {0}, after : Nat \cup {None}, etag : Validators,
                 modified : Validators, pendingEtag : Validators,
                 pendingModified : Validators]
  /\ Remembered(cursor.seen) /\ Distinct(cursor.cycle)

Walking(cursor) ==
  cursor.cycle # << >> \/ cursor.page # 1 \/ cursor.after # None

(* The size of the pages a call asks for: with a limit_param its own limit. *)
Size(conf, limit) == IF conf.sized THEN limit ELSE PageSize

(* What the endpoint has from the position of the cursor on. *)
Ahead(conf, cursor, listing, size) ==
  CASE conf.pagination = "none" -> listing
    [] conf.pagination = "page" -> Beyond(listing, (cursor.page - 1) * size)
    [] conf.pagination = "cursor" ->
         IF cursor.after = None THEN listing ELSE Following(listing, cursor.after)

Body(conf, cursor, listing, size) ==
  IF conf.pagination = "none" /\ ~conf.sized
  THEN listing
  ELSE First(Ahead(conf, cursor, listing, size), size)

(* _next_transport returns None: numbered pages end with an empty one. *)
Exhausted(conf, cursor, listing, size) ==
  CASE conf.pagination = "none" -> TRUE
    [] conf.pagination = "page" -> Body(conf, cursor, listing, size) = << >>
    [] conf.pagination = "cursor" -> Len(Ahead(conf, cursor, listing, size)) <= size

(* The ETag and Last-Modified of a response stand for what they identify.  *)
Etag(conf, cursor, listing, size) ==
  IF \/ conf.validator = "body"
     \/ conf.validator = "first" /\ cursor.page = 1 /\ cursor.after = None
  THEN Body(conf, cursor, listing, size)
  ELSE None
Modified(conf, listing) == IF conf.validator = "listing" THEN listing ELSE None

(* Validators are sent between walks only; If-None-Match has precedence.   *)
NotModified(conf, cursor, listing, size) ==
  /\ ~Walking(cursor)
  /\ IF cursor.etag # None
     THEN cursor.etag = Etag(conf, cursor, listing, size)
     ELSE cursor.modified # None /\ cursor.modified = Modified(conf, listing)

(* A header of the response or, without it, the one that is pending. *)
OrPending(header, pending) == IF header # None THEN header ELSE pending

(* Variant: the position does not move on. *)
WalkOnInPlace(conf, cursor, body, scanned) == cursor

(* The position moves on only when the page was scanned to its end. *)
WalkOn(conf, cursor, body, scanned) ==
  [cursor EXCEPT
     !.page = IF scanned /\ conf.pagination = "page" THEN @ + 1 ELSE @,
     !.after = IF scanned /\ conf.pagination = "cursor"
               THEN body[Len(body)].id ELSE @]

(* An item without a date is dated 1970. *)
Event(conf, item) == EventOf(item, IF conf.dated THEN "source" ELSE "epoch")

Collect(conf, cursor, listing, limit) ==
  LET size == Size(conf, limit)
  IN IF NotModified(conf, cursor, listing, size)
     THEN Result(<< >>, {}, cursor, FALSE)
     ELSE LET body == Body(conf, cursor, listing, size)
              known == IF cursor.initialized THEN cursor.seen ELSE << >>
              pending == Without(body, cursor.cycle)
              open == Before(pending, known)
              new == First(open, limit)
              reached == Len(open) < Len(pending) /\ Len(open) <= limit
              scanned == Len(open) <= limit
              cycle == cursor.cycle \o IdSeq(new)
              complete == \/ ~cursor.initialized /\ ~conf.backfill
                          \/ reached
                          \/ scanned /\ Exhausted(conf, cursor, listing, size)
              etag == OrPending(Etag(conf, cursor, listing, size), cursor.pendingEtag)
              modified == OrPending(Modified(conf, listing), cursor.pendingModified)
          IN Result([k \in DOMAIN new |-> Event(conf, new[k])], {},
                    IF complete
                    THEN [Fresh EXCEPT !.initialized = TRUE,
                                       !.seen = Remember(cycle, cursor.seen),
                                       !.etag = etag, !.modified = modified]
                    ELSE WalkOn(conf,
                                [cursor EXCEPT !.cycle = cycle,
                                               !.pendingEtag = etag,
                                               !.pendingModified = modified],
                                body, scanned),
                    ~complete)

-----------------------------------------------------------------------------
(* Every call of a walk asks for pages of one size, or has no page numbers *)
(* to count them with; one document is asked for as a whole.               *)
Steady(conf) == conf.sized => conf.pagination = "cursor"

(* Validators tell one response from another: one that stands for the      *)
(* whole listing comes with the whole listing.                             *)
Distinctive(conf) == conf.validator = "listing" => conf.pagination = "none"
=============================================================================
