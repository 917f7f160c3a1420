------------------------ MODULE CircularBuffer_proofs ------------------------
(***************************************************************************)
(* A CircularBuffer that is only added to and cleared implements a bounded *)
(* list, whatever its capacity.                                            *)
(***************************************************************************)
EXTENDS CircularBuffer, SequenceTheorems, TLAPS

\* Until it is full the buffer is the list itself; then the next item
\* replaces the first one.
AppendInv ==
    /\ buffer \in Seq(Item)
    /\ Len(buffer) <= Capacity
    /\ start \in 0 .. Capacity - 1
    /\ end \in 0 .. Capacity - 1
    /\ Len(buffer) < Capacity => start = 0 /\ end = Len(buffer)
    /\ Len(buffer) = Capacity => start = end

-----------------------------------------------------------------------------
\* A position below the number of items is its own remainder.
LEMMA ModSmall == \A n \in Nat \ {0}, a \in Nat : a < n => a % n = a
  OBVIOUS

\* The position i places after s, which wraps around at most once.
LEMMA Wrapped ==
    ASSUME NEW n \in Nat \ {0}, NEW s \in 0 .. n - 1, NEW i \in 0 .. n
    PROVE  (s + i) % n = IF s + i < n THEN s + i ELSE s + i - n
  <1>1. CASE s + i < n
    BY <1>1, ModSmall
  <1>2. CASE s + i >= n
    <2> DEFINE a == s + i
    <2>1. a \in Nat /\ n <= a /\ a < n + n
      BY <1>2
    <2> HIDE DEF a
    <2>2. a % n = a - n
      BY <2>1
    <2> QED
      BY <1>2, <2>2 DEF a
  <1> QED
    BY <1>1, <1>2

\* A function over the first n numbers is a sequence of length n.
LEMMA FunctionIsSeq ==
    ASSUME NEW T, NEW n \in Nat, NEW f \in [1 .. n -> T]
    PROVE  f \in Seq(T) /\ Len(f) = n
  <1>1. f \in Seq(T)
    BY SeqDef
  <1>2. 1 .. Len(f) = 1 .. n /\ Len(f) \in Nat
    BY <1>1, LenProperties
  <1> QED
    BY <1>1, <1>2

\* List<T>.Insert at the end of a list appends to it.
LEMMA InsertAtEnd ==
    ASSUME NEW l \in Seq(Item), NEW x \in Item
    PROVE  ListInsert(l, Len(l), x) = Append(l, x)
  <1> DEFINE f == ListInsert(l, Len(l), x)
  <1>1. f \in [1 .. Len(l) + 1 -> Item]
    BY DEF ListInsert
  <1>2. f \in Seq(Item) /\ Len(f) = Len(l) + 1
    BY <1>1, FunctionIsSeq
  <1>3. ASSUME NEW i \in 1 .. Len(l) + 1 PROVE f[i] = Append(l, x)[i]
    BY DEF ListInsert
  <1>4. Append(l, x) \in Seq(Item) /\ Len(Append(l, x)) = Len(l) + 1
    OBVIOUS
  <1> HIDE DEF f
  <1>5. f = Append(l, x)
    BY <1>2, <1>3, <1>4, SeqEqual
  <1> QED
    BY <1>5 DEF f

\* An empty buffer satisfies the invariant.
LEMMA InitInv == Init => AppendInv
  BY CapacityAssumption DEF Init, AppendInv

\* Add and Clear keep the invariant.
LEMMA NextInv == AppendInv /\ [AppendNext]_vars => AppendInv'
  <1> SUFFICES ASSUME AppendInv, [AppendNext]_vars PROVE AppendInv'
    OBVIOUS
  <1> USE CapacityAssumption
  <1>1. ASSUME NEW x \in Item, Add(x), ~IsFull PROVE AppendInv'
    <2>1. buffer' = Append(buffer, x)
      BY <1>1, InsertAtEnd DEF Add, AppendInv, IsFull, Count
    <2> QED
      BY <1>1, <2>1 DEF Add, AppendInv, IsFull, Count, Increment, StartAfter
  <1>2. ASSUME NEW x \in Item, Add(x), IsFull PROVE AppendInv'
    <2>1. end + 1 \in 1 .. Len(buffer) /\ buffer \in Seq(Item)
      BY <1>2 DEF AppendInv, IsFull, Count
    <2>2. buffer' = [buffer EXCEPT ![end + 1] = x]
      BY <1>2 DEF Add
    <2>3. buffer' \in Seq(Item) /\ Len(buffer') = Len(buffer)
      BY <2>1, <2>2, ExceptSeq
    <2> QED
      BY <1>2, <2>3 DEF Add, AppendInv, IsFull, Count, Increment
  <1>3. CASE Clear
    BY <1>3 DEF Clear, AppendInv
  <1>4. CASE UNCHANGED vars
    BY <1>4 DEF vars, AppendInv
  <1> QED
    BY <1>1, <1>2, <1>3, <1>4 DEF AppendNext

-----------------------------------------------------------------------------
(* The list that is read from the buffer.                                  *)

\* ToArray is a sequence as long as the buffer.
LEMMA ArrayIsSeq ==
    ASSUME AppendInv
    PROVE  ToArray \in Seq(Item) /\ Len(ToArray) = Len(buffer)
  <1>1. ASSUME NEW i \in 1 .. Len(buffer)
        PROVE  buffer[InternalIndex(i - 1) + 1] \in Item
    <2>1. Len(buffer) \in Nat \ {0} /\ start + (i - 1) \in Nat
      BY DEF AppendInv
    <2>2. InternalIndex(i - 1) + 1 \in 1 .. Len(buffer)
      BY <2>1 DEF InternalIndex, Count
    <2> QED
      BY <2>2, ElementOfSeq DEF AppendInv
  <1>2. ToArray \in [1 .. Len(buffer) -> Item]
    BY <1>1 DEF ToArray, Count
  <1>3. Len(buffer) \in Nat
    BY DEF AppendInv
  <1> QED
    BY <1>2, <1>3, FunctionIsSeq

\* What is read from a buffer that starts at 0 is the buffer.
LEMMA ArrayFromZero ==
    ASSUME AppendInv, start = 0
    PROVE  ToArray = buffer
  <1>1. ASSUME NEW i \in 1 .. Len(buffer) PROVE ToArray[i] = buffer[i]
    <2>1. (i - 1) % Len(buffer) = i - 1
      BY ModSmall DEF AppendInv
    <2> QED
      BY <2>1 DEF ToArray, InternalIndex, Count
  <1>2. ToArray \in Seq(Item) /\ Len(ToArray) = Len(buffer)
    BY ArrayIsSeq
  <1>3. buffer \in Seq(Item)
    BY DEF AppendInv
  <1> QED
    BY <1>1, <1>2, <1>3, SeqEqual

\* An item added to a full buffer is read last, and every other item one
\* position earlier than before.
LEMMA ArrayShifts ==
    ASSUME AppendInv, AppendInv', IsFull, NEW x \in Item, Add(x)
    PROVE  ToArray' = Append(Tail(ToArray), x)
  <1> USE CapacityAssumption
  <1>1. /\ Len(buffer) = Capacity /\ buffer \in Seq(Item)
        /\ start = end /\ end \in 0 .. Capacity - 1
    BY DEF AppendInv, IsFull, Count
  <1>2. /\ buffer' = [buffer EXCEPT ![end + 1] = x]
        /\ start' = IF end + 1 < Capacity THEN end + 1 ELSE 0
    BY DEF Add, Increment
  <1>3. /\ Len(buffer') = Capacity
        /\ \A p \in 1 .. Capacity :
              buffer'[p] = IF p = end + 1 THEN x ELSE buffer[p]
    <2>1. end + 1 \in 1 .. Len(buffer)
      BY <1>1
    <2> QED
      BY <1>1, <1>2, <2>1, ExceptSeq
  <1>4. /\ ToArray \in Seq(Item) /\ Len(ToArray) = Capacity
        /\ ToArray' \in Seq(Item) /\ Len(ToArray') = Capacity
    <2>1. ToArray \in Seq(Item) /\ Len(ToArray) = Len(buffer)
      BY ArrayIsSeq
    <2>2. (ToArray \in Seq(Item) /\ Len(ToArray) = Len(buffer))'
      BY ArrayIsSeq, PTL
    <2> QED
      BY <1>1, <1>3, <2>1, <2>2
  <1> DEFINE shifted == Append(Tail(ToArray), x)
  <1>5. /\ shifted \in Seq(Item) /\ Len(shifted) = Capacity
        /\ \A i \in 1 .. Capacity :
              shifted[i] = IF i = Capacity THEN x ELSE ToArray[i + 1]
    <2>1. ToArray # <<>>
      BY <1>4
    <2>2. /\ Tail(ToArray) \in Seq(Item)
          /\ Len(Tail(ToArray)) = Capacity - 1
          /\ \A i \in 1 .. Capacity - 1 : Tail(ToArray)[i] = ToArray[i + 1]
      BY <1>4, <2>1, HeadTailProperties
    <2> QED
      BY <2>2
  <1> HIDE DEF shifted
  <1>6. ASSUME NEW i \in 1 .. Capacity PROVE ToArray'[i] = shifted[i]
    <2> DEFINE new == (start' + (i - 1)) % Capacity
               old == (start + i) % Capacity
    <2>1. ToArray'[i] = buffer'[new + 1]
      BY <1>3 DEF ToArray, InternalIndex, Count
    <2>2. i < Capacity => ToArray[i + 1] = buffer[old + 1]
      BY <1>1 DEF ToArray, InternalIndex, Count
    <2>3. /\ start \in 0 .. Capacity - 1 /\ start' \in 0 .. Capacity - 1
          /\ i \in 0 .. Capacity /\ i - 1 \in 0 .. Capacity
      BY <1>1, <1>2
    <2>4. old = IF start + i < Capacity THEN start + i ELSE start + i - Capacity
      BY <2>3, Wrapped, Zenon
    <2>5. new = IF start' + (i - 1) < Capacity THEN start' + (i - 1)
                                              ELSE start' + (i - 1) - Capacity
      BY <2>3, Wrapped, Zenon
    <2> HIDE DEF old, new
    <2>6. /\ new = IF i = Capacity THEN end ELSE old
          /\ i < Capacity => old # end /\ old \in 0 .. Capacity - 1
      BY <1>1, <1>2, <2>4, <2>5
    <2>7. CASE i = Capacity
      <3>1. new = end /\ end + 1 \in 1 .. Capacity /\ end + 1 = new + 1
        BY <1>1, <2>6, <2>7
      <3>2. buffer'[new + 1] = x
        BY <1>3, <3>1
      <3>3. shifted[i] = x
        BY <1>5, <2>7
      <3> QED
        BY <2>1, <3>2, <3>3
    <2>8. CASE i < Capacity
      <3>1. /\ new = old /\ old + 1 \in 1 .. Capacity /\ old + 1 # end + 1
        BY <1>1, <2>6, <2>8
      <3>2. buffer'[new + 1] = buffer[old + 1]
        BY <1>3, <3>1
      <3>3. shifted[i] = ToArray[i + 1]
        BY <1>5, <2>8
      <3> QED
        BY <2>1, <2>2, <2>8, <3>2, <3>3
    <2> QED
      BY <2>7, <2>8
  <1>7. ToArray' = shifted
    BY <1>4, <1>5, <1>6, SeqEqual
  <1> QED
    BY <1>7 DEF shifted

-----------------------------------------------------------------------------
\* An empty buffer is an empty list.
LEMMA InitImplements == Init => Abstract!Init
  <1>1. Init => ToArray = <<>>
    BY DEF Init, ToArray, Count
  <1> QED
    BY <1>1 DEF Abstract!Init

\* A step of the buffer is a step of the list, or leaves it as it is.
LEMMA StepImplements ==
    AppendInv /\ AppendInv' /\ [AppendNext]_vars
       => [Abstract!AppendNext]_ToArray
  <1> SUFFICES ASSUME AppendInv, AppendInv', [AppendNext]_vars
               PROVE  [Abstract!AppendNext]_ToArray
    OBVIOUS
  <1>1. Len(ToArray) = Len(buffer)
    BY ArrayIsSeq
  <1>2. ASSUME NEW x \in Item, Add(x), IsFull PROVE Abstract!Add(x)
    BY <1>1, <1>2, ArrayShifts DEF Abstract!Add, Abstract!IsFull, IsFull, Count
  <1>3. ASSUME NEW x \in Item, Add(x), ~IsFull PROVE Abstract!Add(x)
    <2>1. start = 0 /\ end = Len(buffer) /\ Len(buffer) < Capacity
      BY <1>3, CapacityAssumption DEF AppendInv, IsFull, Count
    <2>2. (start = 0)'
      BY <1>3, <2>1, CapacityAssumption
      DEF AppendInv, Add, IsFull, Count, Increment, StartAfter
    <2>3. buffer' = Append(buffer, x)
      BY <1>3, <2>1, InsertAtEnd DEF Add, AppendInv, IsFull, Count
    <2>4. ToArray = buffer
      BY <2>1, ArrayFromZero
    <2>5. (ToArray = buffer)'
      BY <2>2, ArrayFromZero, PTL
    <2> QED
      BY <1>1, <1>3, <2>3, <2>4, <2>5
      DEF Abstract!Add, Abstract!IsFull, IsFull, Count
  <1>4. CASE Clear
    <2>1. ToArray' = <<>>
      BY <1>4 DEF Clear, ToArray, Count
    <2> QED
      BY <2>1 DEF Abstract!Clear, Abstract!AppendNext
  <1>5. CASE UNCHANGED vars
    BY <1>5 DEF vars, ToArray, Count, InternalIndex
  <1> QED
    BY <1>2, <1>3, <1>4, <1>5 DEF AppendNext, Abstract!AppendNext

\* A buffer of any capacity that is only added to and cleared, like the
\* backlog of 10000 lines of a resource's logs, reads as a bounded list.
THEOREM AppendRefinement == AppendSpec => AppendImplements
  <1>1. Init => AppendInv
    BY InitInv
  <1>2. AppendInv /\ [AppendNext]_vars => AppendInv'
    BY NextInv
  <1>3. Init => Abstract!Init
    BY InitImplements
  <1>4. AppendInv /\ AppendInv' /\ [AppendNext]_vars
           => [Abstract!AppendNext]_ToArray
    BY StepImplements
  <1> QED
    BY <1>1, <1>2, <1>3, <1>4, PTL
    DEF AppendSpec, AppendImplements, Abstract!AppendSpec
=============================================================================
