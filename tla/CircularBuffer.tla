--------------------------- MODULE CircularBuffer ---------------------------
(***************************************************************************)
(* CircularBuffer keeps its items in a List, buffer, of at most Capacity   *)
(* items.  The first item is at position start; end is where the next item *)
(* is added.  Positions are those of the code and start at 0.              *)
(***************************************************************************)
EXTENDS Integers, Sequences

CONSTANTS
    Item,
    Capacity

ASSUME CapacityAssumption == Capacity \in Nat \ {0}

VARIABLES
    buffer,  \* _buffer
    start,   \* _start
    end      \* _end

vars == <<buffer, start, end>>

TypeOK ==
    /\ buffer \in Seq(Item) /\ Len(buffer) <= Capacity
    /\ start \in 0 .. Capacity - 1
    /\ end \in 0 .. Capacity - 1

Init ==
    /\ buffer = <<>>
    /\ start = 0
    /\ end = 0

Count == Len(buffer)

IsFull == Count = Capacity

InternalIndex(index) == (start + index) % Count

\* What the indexer, the enumerator and ToArray give.
ToArray == [i \in 1 .. Count |-> buffer[InternalIndex(i - 1) + 1]]

Increment(index) == IF index + 1 < Capacity THEN index + 1 ELSE 0

Decrement(index) == IF index <= 0 THEN Capacity - 2 ELSE index - 1

\* data.Slice(from, length).CopyTo(data.Slice(to))
Copy(data, from, length, to) ==
    [p \in DOMAIN data |-> IF p \in to + 1 .. to + length
                           THEN data[p - to + from] ELSE data[p]]

\* List<T>.Insert and List<T>.RemoveAt.
ListInsert(list, index, x) ==
    [p \in 1 .. Len(list) + 1 |->
        IF p <= index THEN list[p]
                      ELSE IF p = index + 1 THEN x ELSE list[p - 1]]
ListRemoveAt(list, index) ==
    [p \in 1 .. Len(list) - 1 |-> IF p <= index THEN list[p] ELSE list[p + 1]]

\* start after an item was put into a buffer that was not full: the buffer has
\* wrapped around unless the items end where the List ends.
StartAfter(newEnd, newCount) == IF newEnd # newCount THEN newEnd ELSE start

-----------------------------------------------------------------------------
(* Definitions marked "Faulty" are plausible mistakes in the definition    *)
(* that follows them; the runs show which property notices each.           *)

\* Faulty: the position of the first item does not follow the last one.
AddKeepsStart(x) ==
    /\ end' = Increment(end)
    /\ buffer' = IF IsFull THEN [buffer EXCEPT ![end + 1] = x]
                           ELSE ListInsert(buffer, end, x)
    /\ UNCHANGED start

Add(x) ==
    /\ end' = Increment(end)
    /\ IF IsFull
       THEN /\ buffer' = [buffer EXCEPT ![end + 1] = x]
            /\ start' = end'
       ELSE /\ buffer' = ListInsert(buffer, end, x)
            /\ start' = StartAfter(end', Count + 1)

\* Faulty: the item that is shifted out at the back is not put at the front.
ShiftedWithoutOverflow(i) ==
    IF i = 0 THEN Copy(buffer, 0, end, 1)
             ELSE Copy(buffer, i, Capacity - i - 1, i + 1)

\* Makes room at position i of the List of a full buffer.
Shifted(i) ==
    CASE i = 0 -> Copy(buffer, 0, end, 1)
      [] i > end ->
           LET overflowItem == buffer[Capacity]
               length == Capacity - i - 1
               moved == Copy(buffer, i, length, i + 1)
               data == IF length > 0 \/ i = Count - 1
                       THEN Copy(moved, 0, end, 1) ELSE moved
           IN  [data EXCEPT ![1] = overflowItem]
      [] OTHER -> Copy(buffer, i, Capacity - i - 1, i + 1)

\* An item inserted at the front of a full buffer is dropped.
InsertWhenFull(index, x) ==
    /\ IsFull
    /\ index \in 1 .. Count - 1
    /\ LET i == InternalIndex(index)
       IN  buffer' = [Shifted(i) EXCEPT ![i + 1] = x]
    /\ end' = Increment(end)
    /\ start' = end'

InsertWhenNotFull(index, x) ==
    /\ ~IsFull
    /\ index \in 0 .. Count - 1
    /\ LET i == IF index + start > Count THEN (index + start) % Count
                                         ELSE index + start
       IN  /\ buffer' = ListInsert(buffer, i, x)
           /\ IF i < end
              THEN /\ end' = Increment(end)
                   /\ start' = StartAfter(end', Count + 1)
              ELSE UNCHANGED <<start, end>>

Insert(index, x) ==
    \/ index = Count /\ Add(x)
    \/ InsertWhenFull(index, x)
    \/ InsertWhenNotFull(index, x)

RemoveAt(index) ==
    /\ index \in 0 .. Count - 1
    /\ LET i == InternalIndex(index)
       IN  /\ buffer' = ListRemoveAt(buffer, i)
           /\ IF i < end
              THEN /\ end' = Decrement(end)
                   /\ start' = IF start > 0 THEN end' ELSE start
              ELSE UNCHANGED <<start, end>>

\* The setter of the indexer.
SetItem(index, x) ==
    /\ index \in 0 .. Count - 1
    /\ buffer' = [buffer EXCEPT ![InternalIndex(index) + 1] = x]
    /\ UNCHANGED <<start, end>>

Clear ==
    /\ buffer' = <<>>
    /\ start' = 0
    /\ end' = 0

-----------------------------------------------------------------------------
(* Three ways to use the buffer.  The backlog of a resource's logs and the *)
(* values of a metric are only appended to and cleared; the dashboard's    *)
(* log entries are inserted in the order of their timestamps; its traces   *)
(* are also removed and inserted again when their first span changes.      *)

Position == 0 .. Capacity

AppendNext ==
    \/ \E x \in Item : Add(x)
    \/ Clear

InsertNext == \E index \in Position, x \in Item : Insert(index, x)

Next ==
    \/ AppendNext
    \/ InsertNext
    \/ \E index \in Position : RemoveAt(index)
    \/ \E index \in Position, x \in Item : SetItem(index, x)

AppendSpec == Init /\ [][AppendNext]_vars
InsertSpec == Init /\ [][InsertNext]_vars
Spec == Init /\ [][Next]_vars

-----------------------------------------------------------------------------
(* Properties.                                                             *)

Abstract == INSTANCE BoundedList WITH list <- ToArray

\* A buffer that is only added to and cleared, like the backlog of a
\* resource's logs, is a bounded list: what is read from it are the last
\* Capacity items, in order, at every position of start and end.
AppendImplements == Abstract!AppendSpec

\* Add appends to the list that is read from the buffer and removes the first
\* item of a full one, wherever start and end are by then.
AddImplements == [][\A x \in Item : Add(x) => Abstract!Add(x)]_vars

\* "When the buffer is full, adding or inserting a new item removes the first
\* item in the buffer." (CircularBuffer.cs:12): Insert shifts the right items,
\* on both sides of the point where the buffer wraps around.
InsertImplements ==
    [][\A index \in Position, x \in Item :
          Insert(index, x) => Abstract!Insert(index, x)]_vars
=============================================================================
