------------------------------- MODULE Lists -------------------------------
(***************************************************************************)
(* The kernel's lists (freertos/list.c) as values.                         *)
(*                                                                         *)
(* A ready list is a ring walked by its index: it is the sequence of its   *)
(* items, the end marker Mark among them, from the one after the index     *)
(* round to the index itself, which is therefore always LAST.              *)
(*                                                                         *)
(* A delayed or an event list is the sequence of its items, each with its  *)
(* owner and its value, in the order of the values; its index never moves. *)
(***************************************************************************)
EXTENDS Integers, Sequences, FiniteSets

CONSTANT Mark                       \* xListEnd, the end marker of every ring

(* vListInitialise: only the end marker, which is the index. *)
EmptyRing == <<Mark>>

RingIsEmpty(r) == r = EmptyRing

RingItems(r) == {r[i] : i \in DOMAIN r} \ {Mark}

(* vListInsertEnd: just before the index, so that the walk reaches it last. *)
InsertEnd(r, x) == SubSeq(r, 1, Len(r) - 1) \o <<x, r[Len(r)]>>

(* uxListRemove: the item leaves its place; when it was the index of a     *)
(* ring, the index moves back by one.                                      *)
Without(s, n) == SubSeq(s, 1, n - 1) \o SubSeq(s, n + 1, Len(s))

RingRemove(r, x) ==
    IF x \in RingItems(r) THEN Without(r, CHOOSE n \in DOMAIN r : r[n] = x) ELSE r

(* listGET_OWNER_OF_NEXT_ENTRY: the index moves on, over the end marker.   *)
Turned(r) == Tail(r) \o <<Head(r)>>
Advance(r) == IF Head(r) = Mark THEN Turned(Turned(r)) ELSE Turned(r)
Index(r) == r[Len(r)]

(***************************************************************************)
(* vListInsert: after the items whose value is not greater.                *)
(***************************************************************************)
Item(t, v) == [owner |-> t, value |-> v]

Insert(s, i) ==
    LET n == Cardinality({j \in DOMAIN s : s[j].value <= i.value})
    IN  SubSeq(s, 1, n) \o <<i>> \o SubSeq(s, n + 1, Len(s))

Items(s)  == {s[n] : n \in DOMAIN s}
Owners(s) == {s[n].owner : n \in DOMAIN s}

ListRemove(s, t) ==
    IF t \in Owners(s) THEN Without(s, CHOOSE n \in DOMAIN s : s[n].owner = t) ELSE s
=============================================================================
