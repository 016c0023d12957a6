------------------------------ MODULE Listing ------------------------------
(***************************************************************************)
(* What the collectors of a newest-first listing share: the items of a     *)
(* listing as the source serves them, pages of it, the list of ids a       *)
(* collector remembers, and the batch that one call of collect() returns.  *)
(*                                                                         *)
(* An item is its id, how often it was changed (rev), the second of its    *)
(* last change (at) and whether the source calls it deleted (dead).  rev   *)
(* stands for all the fields a collector copies into an event.             *)
(***************************************************************************)
EXTENDS Integers, Sequences, FiniteSets

CONSTANT Window  \* seen_window: how many ids a collector remembers

Item == [id : Nat, rev : Nat, at : Nat, dead : BOOLEAN]

IdsIn(items) == {items[k].id : k \in DOMAIN items}

First(seq, n) == SubSeq(seq, 1, IF n < Len(seq) THEN n ELSE Len(seq))
Beyond(seq, n) == SubSeq(seq, n + 1, Len(seq))
IdSeq(items) == [k \in DOMAIN items |-> items[k].id]
Among(seq, x) == \E k \in DOMAIN seq : seq[k] = x

(* The leading part of items that ends before the first id of known. *)
Before(items, known) ==
  LET hits == {k \in DOMAIN items : Among(known, items[k].id)}
  IN IF hits = {}
     THEN items
     ELSE First(items, (CHOOSE k \in hits : \A j \in hits : k <= j) - 1)

(* The elements of seq at some of its places, in their order. *)
Kept(seq, places) ==
  LET Nth(n) == CHOOSE k \in places : Cardinality({j \in places : j <= k}) = n
  IN [n \in 1..Cardinality(places) |-> seq[Nth(n)]]

(* What is left of a list of ids, and of items, without those of known. *)
Omit(ids, known) == Kept(ids, {k \in DOMAIN ids : ~Among(known, ids[k])})
Without(items, known) == Kept(items, {k \in DOMAIN items : ~Among(known, items[k].id)})

(* Variant: the two lists are only put together. *)
MergedWithRepeats(front, back) == front \o back

(* list(dict.fromkeys([*front, *back])) *)
Merged(front, back) == front \o Omit(back, front)

Remember(front, back) == First(Merged(front, back), Window)

(* What the list of remembered ids looks like: no id twice, none too many. *)
Distinct(seq) == \A j, k \in DOMAIN seq : seq[j] = seq[k] => j = k
Remembered(seq) == seq \in Seq(Nat) /\ Len(seq) <= Window /\ Distinct(seq)

(* Page n of a listing that is served in pages of the given size. *)
ServedPage(listing, size, n) == First(Beyond(listing, (n - 1) * size), size)

(* What follows the item with id anchor; nothing when it is gone. *)
Following(listing, anchor) ==
  IF \E k \in DOMAIN listing : listing[k].id = anchor
  THEN Beyond(listing, CHOOSE k \in DOMAIN listing : listing[k].id = anchor)
  ELSE << >>

(* An event as its fingerprint tells it from others: created_at is the     *)
(* date of the source, the epoch or, where the collector fills it in with  *)
(* the time of day, a value no other event has.                            *)
EventOf(item, created) == [id |-> item.id, rev |-> item.rev, created |-> created]
Refilled(event) == event.created = "clock"

(* A CollectorResult: the events, the ids of the threads whose comments    *)
(* were read, the cursor and has_more.                                     *)
Result(new, threads, cursor, more) ==
  [new |-> new, threads |-> threads, cursor |-> cursor, more |-> more]
=============================================================================
