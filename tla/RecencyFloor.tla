---------------------------- MODULE RecencyFloor ----------------------------
(***************************************************************************)
(* What the short-term tier promises of its recency floor, whatever store  *)
(* keeps it: a list of entries, most recent first, that changes by one     *)
(* entry at a time.  One entry may enter, and push out the entries beyond  *)
(* the cap; one id may leave; and entries whose row is no longer kept may  *)
(* drop out at any time.  No step loses the entry of another id whose row  *)
(* is kept.                                                                *)
(***************************************************************************)
EXTENDS Integers, Sequences

CONSTANTS Item, Cap

VARIABLES floor,   \* the entries, most recent first
          kept     \* the ids whose row is live and was indexed

Descending(s) == \A i, j \in 1..Len(s) : i < j => s[i].created >= s[j].created

Without(s, ids) ==
    LET rest[i \in 0..Len(s)] ==
          IF i = 0 THEN <<>>
          ELSE IF s[i].id \notin ids THEN Append(rest[i - 1], s[i]) ELSE rest[i - 1]
    IN  rest[Len(s)]

Insert(s, k, item) == SubSeq(s, 1, k) \o <<item>> \o SubSeq(s, k + 1, Len(s))

Capped(s) == IF Len(s) > Cap THEN SubSeq(s, 1, Cap) ELSE s

Ids == {item.id : item \in Item}

Init == floor = <<>> /\ kept = {}

Enter(item, gone) ==
    LET rest == Without(floor, gone \cup {item.id}) IN
    \E k \in 0..Len(rest) :
        /\ Descending(Insert(rest, k, item))
        /\ floor' \in {Insert(rest, k, item), Capped(Insert(rest, k, item))}

Leave(ids) == floor' = Without(floor, ids)

Unkept == Ids \ (kept \cap kept')

Next == /\ kept' \in SUBSET Ids
        /\ \/ \E ids \in SUBSET Unkept : Leave(ids)
           \/ \E id \in Ids : Leave({id})
           \/ \E item \in Item, gone \in SUBSET Unkept : Enter(item, gone)

Spec == Init /\ [][Next]_<<floor, kept>>
=============================================================================
