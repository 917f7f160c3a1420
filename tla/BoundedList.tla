----------------------------- MODULE BoundedList -----------------------------
(***************************************************************************)
(* What CircularBuffer promises: a list with a capacity.  "When the buffer *)
(* is full, adding or inserting a new item removes the first item in the   *)
(* buffer." (CircularBuffer.cs:11-13)                                      *)
(***************************************************************************)
EXTENDS Integers, Sequences

S == INSTANCE SequencesExt

CONSTANTS Item, Capacity

VARIABLE list

IsFull == Len(list) = Capacity

Init == list = <<>>

Add(x) == list' = Append(IF IsFull THEN Tail(list) ELSE list, x)

\* The item is put at position index, and then the first one is removed: the
\* item itself when index is 0.
Insert(index, x) ==
    LET inserted == S!InsertAt(list, index + 1, x)
    IN  list' = IF IsFull THEN Tail(inserted) ELSE inserted

Clear == list' = <<>>

AppendNext ==
    \/ \E x \in Item : Add(x)
    \/ Clear

AppendSpec == Init /\ [][AppendNext]_list
=============================================================================
