---------------------------- MODULE MCCollectors ----------------------------
(* Model-checking instances of Collectors: see the .cfg files for the sizes. *)
EXTENDS Collectors

Plain(type) == [type |-> type, pagination |-> "none", validator |-> "body",
                sized |-> FALSE, backfill |-> TRUE, dated |-> TRUE,
                partial |-> FALSE, items |-> MaxItems]
Rest(mode, validator, backfill) ==
  [Plain("rest") EXCEPT !.pagination = mode, !.validator = validator,
                        !.backfill = backfill, !.dated = FALSE]

(* Newest-first listings: REST in its three modes, with every kind of      *)
(* validator a mode can bear, with and without backfill and limit_param.   *)
Listings ==
  {Plain(type) : type \in {"jsonfeed", "hackernews", "reddit"}}
    \cup {Rest("none", "listing", TRUE), Rest("none", "body", FALSE),
          Rest("page", "body", TRUE), Rest("page", "first", FALSE),
          Rest("cursor", "first", TRUE),
          [Rest("cursor", "body", TRUE) EXCEPT !.sized = TRUE]}

(* Sources whose items change: a feed, and searches that are complete and  *)
(* that need not be.                                                       *)
Revised ==
  {[feed EXCEPT !.items = 3] :
     feed \in {Plain("rss"), Plain("github"), [Plain("github") EXCEPT !.partial = TRUE]}}

AllCollectors == Listings \cup Revised

UndatedFeed == {[Plain("rss") EXCEPT !.dated = FALSE]}

Feed == {Plain("rss")}

(* Endpoints with one Last-Modified for all their pages. *)
OneValidator == {Rest("page", "listing", TRUE), Rest("cursor", "listing", TRUE)}

(* Numbered pages of the size that limit_param asks for. *)
SizedPages == {[Rest("page", "body", TRUE) EXCEPT !.sized = TRUE]}
=============================================================================
