---------------------------- MODULE ReplayCache ----------------------------
(***************************************************************************)
(* The bounded memory of answered commands, class ReplayCache of           *)
(* protocol.py.  The ordered dictionary is the sequence of its keys, the   *)
(* oldest first, no key twice; the stored answers themselves are left out. *)
(***************************************************************************)
EXTENDS Naturals, Sequences

Remembered(cache) == {cache[i] : i \in 1..Len(cache)}

Position(cache, id) == CHOOSE i \in 1..Len(cache) : cache[i] = id

(***************************************************************************)
(* OrderedDict.move_to_end: the key becomes the last one, the others keep  *)
(* their order.                                                            *)
(***************************************************************************)
Without(cache, id) ==
    IF id \in Remembered(cache)
    THEN LET k == Position(cache, id)
         IN  [i \in 1..(Len(cache) - 1) |-> cache[IF i < k THEN i ELSE i + 1]]
    ELSE cache

MoveToEnd(cache, id) == Append(Without(cache, id), id)

(* get: a hit refreshes the key; a miss (no call here) changes nothing.    *)
Get(cache, id) == IF id \in Remembered(cache) THEN MoveToEnd(cache, id) ELSE cache

(* Faulty variants of the trimming, each to show that a property notices:  *)
(* one key too many is kept; popitem(last=True), so the newest goes.       *)
NewestAndOneMore(cache, limit) ==
    IF Len(cache) <= limit + 1 THEN cache
    ELSE [i \in 1..(limit + 1) |-> cache[Len(cache) - limit - 1 + i]]

OldestInstead(cache, limit) ==
    IF Len(cache) <= limit THEN cache ELSE [i \in 1..limit |-> cache[i]]

(* put: the key becomes the newest, then the oldest keys go until the      *)
(* dictionary is within its limit.                                         *)
Newest(cache, limit) ==
    IF Len(cache) <= limit THEN cache
    ELSE [i \in 1..limit |-> cache[Len(cache) - limit + i]]

Put(cache, id, limit) == Newest(MoveToEnd(cache, id), limit)

(* The keys the call to put has dropped. *)
DroppedBy(cache, id, limit) ==
    Remembered(cache) \ Remembered(Put(cache, id, limit))
=============================================================================
