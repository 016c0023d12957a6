----------------------------- MODULE Collectors -----------------------------
(***************************************************************************)
(* One collector polling one source that changes under it.                 *)
(*                                                                         *)
(* The six first-party collectors are functions of their cursor and of     *)
(* what the source serves; this module composes each of them with such a   *)
(* source and with the checkpoint: a step of Collect is one call of        *)
(* collect() whose page and cursor the pipeline committed.  A call that    *)
(* fails, or whose commit does, leaves no trace, and a restart resumes     *)
(* from the same cursor, so neither is a step.                             *)
(***************************************************************************)
EXTENDS Listing

CONSTANTS
  Configs,    \* the collectors to check, and what their sources are like
  MaxItems,   \* ids a source can publish, at most
  Backlog,    \* how many items it may have at the start
  Cap,        \* how many items its listing shows
  MaxRev,     \* how often an item changes, at most
  MaxTime,    \* seconds that pass, at most
  Limits,     \* the limits the pipeline passes to collect()
  MidWalk,    \* types whose sources lose or reorder any item during a walk
  MaxMissing, \* how many matches an incomplete search leaves out, at most
  PageSize, MaxPerPage, SearchCap, Refresh, None

ASSUME CollectorsAssumption ==
  /\ Configs \subseteq [type : {"rss", "jsonfeed", "github", "hackernews",
                                "reddit", "rest"},
                        pagination : {"none", "page", "cursor"},
                        validator : {"body", "first", "listing"},
                        sized : BOOLEAN, backfill : BOOLEAN, dated : BOOLEAN,
                        partial : BOOLEAN, items : Backlog..MaxItems]
  /\ {MaxItems, Cap, MaxRev, MaxTime, Window, PageSize, MaxPerPage, SearchCap}
       \subseteq Nat \ {0}
  /\ Limits \subseteq Nat \ {0} /\ Limits # {}
  /\ Backlog \in 0..Cap /\ Backlog <= MaxItems
  /\ {MaxMissing, Refresh} \subseteq Nat
  /\ None \notin Nat /\ None \notin Seq(Item)

VARIABLES
  conf,       \* the collector in use
  live,       \* what the source lists, newest or last updated first
  published,  \* how many ids it used
  now,        \* its clock, in seconds
  cursor,     \* the committed checkpoint
  poll,       \* flips with every call, also with one that changes nothing
  more,       \* has_more of the last call
  got,        \* the revision of each item that was last committed
  redated,    \* unchanged items whose event the last call changed
  unread,     \* items with a comment nobody collected yet
  waived      \* items that an initial poll without backfill, or a search
              \* that called itself incomplete, may have left behind

vars == <<conf, live, published, now, cursor, poll, more, got, redated,
          unread, waived>>

RSS == INSTANCE RSSCollector
JSONFeed == INSTANCE JSONFeedCollector
GitHub == INSTANCE GitHubCollector
HackerNews == INSTANCE HackerNewsCollector
Reddit == INSTANCE RedditCollector
REST == INSTANCE RESTCollector

ToSet(seq) == {seq[k] : k \in DOMAIN seq}

Ids == 1..MaxItems

-----------------------------------------------------------------------------
Fresh(type) ==
  CASE type = "rss" -> RSS!Fresh
    [] type = "jsonfeed" -> JSONFeed!Fresh
    [] type = "github" -> GitHub!Fresh
    [] type = "hackernews" -> HackerNews!Fresh
    [] type = "reddit" -> Reddit!Fresh
    [] type = "rest" -> REST!Fresh

(* The collector is in the middle of a walk through the listing. *)
Walking ==
  CASE conf.type = "rss" -> RSS!Walking(cursor)
    [] conf.type = "jsonfeed" -> JSONFeed!Walking(cursor)
    [] conf.type = "github" -> GitHub!Walking(cursor)
    [] conf.type = "hackernews" -> FALSE
    [] conf.type = "reddit" -> Reddit!Walking(cursor)
    [] conf.type = "rest" -> REST!Walking(cursor)

(* What an incomplete answer shows of the listing. *)
Left(missing) == Kept(live, {k \in DOMAIN live : live[k].id \notin missing})

(* The matches a search may leave out, calling itself incomplete. *)
Incomplete == IF conf.type = "github" /\ conf.partial
              THEN {missing \in SUBSET IdsIn(GitHub!Matches(cursor, live)) :
                      Cardinality(missing) <= MaxMissing}
              ELSE {{}}

(* What the next call returns, if it is not an error; a search that took   *)
(* too long is answered without some of its matches.                       *)
Page(limit, missing) ==
  CASE conf.type = "rss" -> RSS!Collect(conf, cursor, live, limit)
    [] conf.type = "jsonfeed" -> JSONFeed!Collect(conf, cursor, live, limit)
    [] conf.type = "github" -> GitHub!Collect(cursor, Left(missing), limit)
    [] conf.type = "hackernews" -> HackerNews!Collect(cursor, live, limit)
    [] conf.type = "reddit" -> Reddit!Collect(cursor, live, limit)
    [] conf.type = "rest" -> REST!Collect(conf, cursor, live, limit)

Serves == conf.type = "jsonfeed" => JSONFeed!Serves(cursor, live)

(* The source would answer the next request, or one with some limit,       *)
(* 304 Not Modified.                                                       *)
NotModified ==
  CASE conf.type = "rss" -> RSS!NotModified(cursor, live)
    [] conf.type = "jsonfeed" -> JSONFeed!NotModified(cursor, live)
    [] conf.type = "rest" ->
         \E limit \in Limits : REST!NotModified(conf, cursor, live, REST!Size(conf, limit))
    [] OTHER -> FALSE

(* The ids the collector takes for collected. *)
Known ==
  CASE conf.type = "jsonfeed" -> JSONFeed!Watermark(cursor)
    [] conf.type = "reddit" -> Reddit!Watermark(cursor)
    [] conf.type \in {"hackernews", "rest"} -> cursor.seen
    [] OTHER -> << >>

-----------------------------------------------------------------------------
NewItem(id, time) == [id |-> id, rev |-> 1, at |-> time, dead |-> FALSE]

Init ==
  /\ conf \in Configs
  /\ published \in 0..Backlog
  /\ live = [k \in 1..published |-> NewItem(published + 1 - k, 1)]
  /\ now = 1
  /\ cursor = Fresh(conf.type)
  /\ poll = FALSE
  /\ more = FALSE
  /\ got = [i \in Ids |-> 0]
  /\ redated = {}
  /\ unread = {}
  /\ waived = {}

SourceStep == UNCHANGED <<conf, cursor, poll, more, got, redated>>

(* Of all sources only a search on GitHub is asked about time. *)
Later(time) ==
  /\ time \in now..(IF conf.type = "github" THEN now + 1 ELSE now)
  /\ now' = time

(* A new item; a listing of fixed length loses its oldest one. *)
Publish(time) ==
  /\ published < conf.items
  /\ Later(time)
  /\ published' = published + 1
  /\ live' = LET all == <<NewItem(published + 1, time)>> \o live
             IN IF conf.type = "github" THEN all ELSE First(all, Cap)
  /\ UNCHANGED <<unread, waived>>
  /\ SourceStep

(* What a source does to the items its collector has to find again: between *)
(* two calls of a walk nothing, but for an RSS feed, which may change from  *)
(* the anchor of the walk on, and for the sources of MidWalk.               *)
Loose(k) ==
  \/ ~Walking
  \/ conf.type \in MidWalk
  \/ conf.type = "rss" /\ \A j \in DOMAIN live : live[j].id = cursor.anchor => j <= k

(* An item changes: in its place, or, where the listing is sorted by the   *)
(* time of the last update, it becomes the last updated one.               *)
Update(k, time) ==
  /\ conf.type \in {"rss", "github"}
  /\ live[k].rev < MaxRev
  /\ Later(time)
  /\ LET item == [live[k] EXCEPT !.rev = @ + 1, !.at = time]
     IN IF conf.type = "github"
        THEN /\ Loose(k)
             /\ live' = <<item>> \o First(live, k - 1) \o Beyond(live, k)
        ELSE live' = [live EXCEPT ![k] = item]
  /\ waived' = waived \ {live[k].id}
  /\ UNCHANGED <<published, unread>>
  /\ SourceStep

(* An item disappears from the listing. *)
Remove(k) ==
  /\ Loose(k)
  /\ live' = First(live, k - 1) \o Beyond(live, k)
  /\ UNCHANGED <<published, now, unread, waived>>
  /\ SourceStep

(* A publisher puts two entries of its feed in another order. *)
Reorder(j, k) ==
  /\ conf.type = "rss"
  /\ j < k
  /\ Loose(j)
  /\ live' = [live EXCEPT ![j] = live[k], ![k] = live[j]]
  /\ UNCHANGED <<published, now, unread, waived>>
  /\ SourceStep

(* A story is deleted or flagged while it is still listed. *)
Kill(k) ==
  /\ conf.type = "hackernews"
  /\ ~live[k].dead
  /\ live' = [live EXCEPT ![k].dead = TRUE]
  /\ UNCHANGED <<published, now, unread, waived>>
  /\ SourceStep

(* Somebody comments on a story or post.  A comment that is older than the *)
(* collection of its thread is read with it.                               *)
Comment(k) ==
  /\ conf.type \in {"hackernews", "reddit"}
  /\ got[live[k].id] # 0
  /\ unread' = unread \cup {live[k].id}
  /\ UNCHANGED <<published, now, live, waived>>
  /\ SourceStep

(* The items listed in a revision that was not collected. *)
Outdated(collected) == {live[k].id : k \in {j \in DOMAIN live :
                                             collected[live[j].id] # live[j].rev}}

Collect(limit, missing) ==
  /\ Serves
  /\ poll' = ~poll
  /\ LET page == Page(limit, missing)
         new == IdsIn(page.new)
     IN /\ cursor' = page.cursor
        /\ more' = page.more
        /\ got' = [i \in Ids |->
                     IF i \in new
                     THEN page.new[CHOOSE k \in DOMAIN page.new :
                                     page.new[k].id = i].rev
                     ELSE got[i]]
        /\ redated' = {event.id : event \in
                         {e \in ToSet(page.new) : Refilled(e) /\ got[e.id] = e.rev}}
        /\ unread' = unread \ page.threads
        /\ waived' = IF /\ conf.type = "rest" /\ ~conf.backfill
                        /\ ~cursor.initialized
                     THEN IdsIn(live) \ new
                     ELSE IF missing # {}
                     THEN waived \cup Outdated(got')
                     ELSE waived
  /\ UNCHANGED <<conf, live, published, now>>

Next ==
  \/ \E time \in 1..MaxTime : Publish(time)
  \/ \E k \in DOMAIN live, time \in 1..MaxTime : Update(k, time)
  \/ \E k \in DOMAIN live : Remove(k)
  \/ \E j, k \in DOMAIN live : Reorder(j, k)
  \/ \E k \in DOMAIN live : Kill(k)
  \/ \E k \in DOMAIN live : Comment(k)
  \/ \E limit \in Limits, missing \in Incomplete : Collect(limit, missing)

Spec == Init /\ [][Next]_vars

(* The runtime polls every source for ever.  Only Collect changes poll, so *)
(* this is fairness of Collect with some limit.  A source owes nothing, but *)
(* a feed that is reordered before every call is begun again for ever.     *)
OrderSettles == <>[][~\E j, k \in DOMAIN live : Reorder(j, k)]_vars

FairSpec == Spec /\ WF_poll(Serves /\ poll' = ~poll) /\ OrderSettles

-----------------------------------------------------------------------------
CursorOK ==
  CASE conf.type = "rss" -> RSS!CursorOK(cursor)
    [] conf.type = "jsonfeed" -> JSONFeed!CursorOK(cursor)
    [] conf.type = "github" -> GitHub!CursorOK(cursor)
    [] conf.type = "hackernews" -> HackerNews!CursorOK(cursor)
    [] conf.type = "reddit" -> Reddit!CursorOK(cursor)
    [] conf.type = "rest" -> REST!CursorOK(cursor)

(* Every variable has its type; the stored cursor is one its collector     *)
(* can resume from.                                                        *)
TypeOK ==
  /\ conf \in Configs
  /\ CursorOK
  /\ live \in Seq([id : Ids, rev : 1..MaxRev, at : 1..MaxTime, dead : BOOLEAN])
  /\ \A j, k \in DOMAIN live : live[j].id = live[k].id => j = k
  /\ published \in 0..MaxItems
  /\ now \in 1..MaxTime
  /\ poll \in BOOLEAN
  /\ more \in BOOLEAN
  /\ got \in [Ids -> 0..MaxRev]
  /\ redated \in SUBSET Ids
  /\ unread \in SUBSET Ids
  /\ waived \in SUBSET Ids

(* An item that a collector owes nothing more than its identity, and one   *)
(* it owes no other revision.                                              *)
Settled(item) == got[item.id] # 0 \/ item.dead \/ item.id \in waived
Current(item) == got[item.id] = item.rev \/ item.id \in waived

(* A 304 Not Modified never hides an item that was not collected: the      *)
(* validators kept in a cursor are those of a document that was read to    *)
(* its end.                                                                *)
ValidatorHidesNothing ==
  NotModified => \A k \in DOMAIN live : Settled(live[k])

(* Every item a walk will not come back to was collected: what lies behind *)
(* the first id a collector remembers, and, on GitHub, whatever was last   *)
(* updated before the watermark, in that revision or unless a search was   *)
(* incomplete since.                                                       *)
NothingBehindWatermark ==
  \A k \in DOMAIN live :
    /\ (\E j \in 1..k : Among(Known, live[j].id)) /\ conf.type # "hackernews"
         => Settled(live[k])
    /\ Among(Known, live[k].id) => Settled(live[k])
    /\ conf.type = "github" /\ live[k].at < cursor.watermark => Current(live[k])

-----------------------------------------------------------------------------
(* A search is sorted by the last update, a feed as its publisher likes;   *)
(* every other listing has its newest item first.                          *)
ListingSorted ==
  /\ \A k \in DOMAIN live : live[k].id <= published /\ live[k].at <= now
  /\ \A j, k \in DOMAIN live :
       j < k => /\ conf.type = "github" => live[j].at >= live[k].at
                /\ conf.type \notin {"github", "rss"} => live[j].id > live[k].id

(* Of the items at some places, those that are not newer than m, and the   *)
(* one with the id m, are settled.                                         *)
SettledUpTo(m, places) == \A k \in places : live[k].id <= m => Settled(live[k])
SettledAt(m) == \A k \in DOMAIN live : live[k].id = m => Settled(live[k])

(* The items above a position, and those not below an anchor.  A listing   *)
(* drops its oldest items only, and with an anchor all that is below it.   *)
Above(n) == {k \in DOMAIN live : k <= n}
DownTo(anchor) == {k \in DOMAIN live : live[k].id >= anchor}
Anchored(anchor) ==
  /\ anchor \in 0..published
  /\ \/ \E k \in DOMAIN live : live[k].id = anchor
     \/ \A k \in DOMAIN live : live[k].id > anchor

(* As long as the anchor is where it was, everything down to it was read;  *)
(* and of a document that was read to its end, everything was.             *)
FeedRead ==
  /\ Walking =>
       /\ cursor.anchor \in 0..published
       /\ \A k \in DOMAIN live :
            live[k].id = cursor.anchor =>
              /\ cursor.offset <= k
              /\ cursor.offset = k => \A j \in 1..k : got[live[j].id] # 0
  /\ ~Walking /\ cursor.etag # None =>
       \A k \in DOMAIN cursor.etag :
         cursor.etag[k].id \in Ids /\ got[cursor.etag[k].id] # 0

(* What a walk through a JSON feed has read so far is settled down to the  *)
(* newest id it remembers, and what lies behind its watermark is anyhow.   *)
PagesRead ==
  LET passed == IF Walking THEN Above((cursor.page - 1) * PageSize + cursor.offset)
                           ELSE DOMAIN live
  IN /\ \A m \in ToSet(cursor.seen) :
          m <= published /\ SettledUpTo(m, passed) /\ SettledAt(m)
     /\ \A m \in ToSet(cursor.watermark) :
          m <= published /\ SettledUpTo(m, DOMAIN live)
     /\ cursor.etag # None /\ cursor.etag # << >> =>
          cursor.etag[1].id <= published /\ SettledUpTo(cursor.etag[1].id, passed)

(* The same of a walk that is resumed behind an anchor. *)
PostsRead ==
  LET passed == IF Walking THEN DownTo(cursor.after) ELSE DOMAIN live
  IN /\ Walking => Anchored(cursor.after)
     /\ \A m \in ToSet(cursor.seen) :
          m <= published /\ SettledUpTo(m, passed) /\ SettledAt(m)
     /\ \A m \in ToSet(cursor.watermark) :
          m <= published /\ SettledUpTo(m, DOMAIN live)

(* The document a validator was sent with begins with nothing newer than   *)
(* what is settled at some places.                                         *)
HeadSettled(document, places) ==
  document # None /\ document # << >> =>
    document[1].id <= published /\ SettledUpTo(document[1].id, places)

(* What a complete cycle read is settled and all that is older; of a cycle *)
(* that is not complete, what it has passed.                               *)
EndpointRead ==
  LET passed == IF conf.pagination = "page" THEN Above((cursor.page - 1) * PageSize)
                ELSE IF cursor.after # None THEN DownTo(cursor.after)
                ELSE {}
  IN /\ conf.pagination # "page" => cursor.page = 1
     /\ conf.pagination # "cursor" => cursor.after = None
     /\ cursor.after # None => Anchored(cursor.after)
     /\ \A m \in ToSet(cursor.seen) : m <= published /\ SettledUpTo(m, DOMAIN live)
     /\ \A m \in ToSet(cursor.cycle) :
          m <= published /\ SettledUpTo(m, passed) /\ SettledAt(m)
     /\ REST!Distinctive(conf) =>
          /\ HeadSettled(cursor.etag, DOMAIN live)
          /\ HeadSettled(cursor.modified, DOMAIN live)
          /\ HeadSettled(cursor.pendingEtag, passed)
          /\ HeadSettled(cursor.pendingModified, passed)

StoriesRead == \A m \in ToSet(cursor.seen) : m <= published /\ SettledAt(m)

(* What a search passed was collected in its last revision, and so was     *)
(* whatever was last updated before the watermark.                         *)
IssuesRead ==
  LET found == GitHub!Matches(cursor, live)
      passed == (cursor.page - 1) * cursor.perPage + cursor.offset
  IN /\ cursor.watermark <= now
     /\ Walking => cursor.perPage > 0
     /\ passed <= Len(found)
     /\ \A k \in 1..passed : Current(found[k])
     /\ \A k \in DOMAIN live : live[k].at < cursor.watermark => Current(live[k])
     /\ ~conf.partial => waived = {}

(* What the collectors rely on: a source keeps in place, during a walk,    *)
(* what was read, and a REST endpoint numbers pages of one size.           *)
Reliable ==
  /\ conf.type \notin MidWalk
  /\ conf.type = "rest" => REST!Steady(conf)

(* The inductive invariant.  Without what they rely on, the collectors     *)
(* keep their types only.                                                  *)
Inv ==
  /\ TypeOK
  /\ ListingSorted
  /\ Reliable =>
       /\ conf.type = "rss" => FeedRead
       /\ conf.type = "jsonfeed" => PagesRead
       /\ conf.type = "github" => IssuesRead
       /\ conf.type = "hackernews" => StoriesRead
       /\ conf.type = "reddit" => PostsRead
       /\ conf.type = "rest" => EndpointRead

-----------------------------------------------------------------------------
(* To poll an item that did not change is no update of its event: the      *)
(* fingerprint stays, so nothing is delivered again.                       *)
PollsAreIdempotent == redated = {}

(* An RSS walk goes on behind entries that were read; if others came       *)
(* between them, it begins again.                                          *)
ChangedFeedRestarts ==
  conf.type = "rss" /\ Walking =>
    \A k \in 1..RSS!Resume(cursor, live) : got[live[k].id] # 0

(* Nor does a 304 hide the last revision of an entry. *)
ValidatorHidesNoRevision ==
  conf.type = "rss" /\ NotModified =>
    \A k \in DOMAIN live : got[live[k].id] = live[k].rev

(* Once the source is quiet, what was collected is what it lists; on       *)
(* GitHub in its last revision, but for what a search left out that called *)
(* itself incomplete.                                                      *)
SourceIsMirrored ==
  <>[](\A k \in DOMAIN live :
         IF conf.type = "github"
         THEN Current(live[k])
         ELSE Settled(live[k]))

(* The threads a collector promises to revisit. *)
Revisited ==
  CASE conf.type = "hackernews" -> {cursor.refresh[k] : k \in DOMAIN cursor.refresh}
    [] conf.type = "reddit" -> LET recent == First(cursor.seen, Refresh)
                               IN {recent[k] : k \in DOMAIN recent}
    [] OTHER -> {}

(* Comments on threads within the refresh window are read again and again, *)
(* however long ago the thread itself was collected.                       *)
RecentThreadsAreRead ==
  []<>(\A k \in DOMAIN live :
         live[k].id \in Revisited \cap unread => live[k].dead)

(* Every walk comes to its end: a run that continues while has_more is     *)
(* reported catches up with a source that leaves it alone.                 *)
EveryWalkEnds == []<>(~more)
=============================================================================
