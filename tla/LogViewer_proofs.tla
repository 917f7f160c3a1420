--------------------------- MODULE LogViewer_proofs ---------------------------
(***************************************************************************)
(* The order and the numbers of the rows of LogViewer, for any logs, any   *)
(* timestamps and any number of lines.                                     *)
(***************************************************************************)
EXTENDS LogViewer, FiniteSetTheorems, SequenceTheorems, WellFoundedInduction,
        TLAPS

-----------------------------------------------------------------------------
(* Types.                                                                  *)

Parser == [at : {"unopened", "clearing", "subscribing", "reading", "posted", "ended"},
           cancelled : BOOLEAN, parent : Nat, pstamp : Nat, index : Nat,
           read : Nat, left : Nat, batch : Nat]

Row == [id : Nat, source : Source, batch : Nat, stamp : Nat, number : Nat,
        parent : Nat, pstamp : Nat, index : Nat]

PageOK ==
    /\ viewer \in Source \cup {0} /\ subscription \in Source \cup {0}
    /\ leaving \in {"no", "stopped", "cancelled"}
    /\ circuit \in Source \cup {Handler, Nobody}

TypeOK ==
    /\ rows \in Seq(Row)
    /\ base \in Nat
    /\ loop \in [Source -> Parser]
    /\ ids \in Nat
    /\ arrived \in Seq(Nat)

\* The lines of a batch that is posted have been counted.
PostedIsRead ==
    \A k \in Source : /\ loop[k].left <= loop[k].read
                      /\ loop[k].at = "posted" <=> loop[k].left # 0

-----------------------------------------------------------------------------
(* The inductive invariant.                                                *)

\* The parent of a parser's next line has been created.
Sources == \A k \in Source : loop[k].parent <= ids

\* The rows are counted from _baseLineNumber, which the first line ever
\* inserted sets.
Numbered ==
    /\ base = 0 => rows = <<>>
    /\ ids = 0 => base = 0 /\ \A k \in Source : loop[k].read = loop[k].left
    /\ \A i \in DOMAIN rows :
         /\ rows[i].number = base + i - 1
         /\ rows[i].id = 1 => base = FirstNumber[rows[i].source]

\* A row is the first line of an entry or a further one, which has no
\* timestamp of its own.
RowFields ==
    \A i \in DOMAIN rows :
      /\ rows[i].id \in 1 .. ids /\ rows[i].parent <= ids
      /\ rows[i].parent = 0 => rows[i].pstamp = 0 /\ rows[i].index = 0
      /\ rows[i].parent # 0 => rows[i].stamp = 0 /\ rows[i].index > 0

UniqueIds == \A i, j \in DOMAIN rows : rows[i].id = rows[j].id => i = j

\* The parent of a row is a first line of the same log, and its timestamp is
\* the one the row is sorted by.
ParentRows ==
    \A i, j \in DOMAIN rows : rows[i].id = rows[j].parent =>
      /\ rows[i].source = rows[j].source
      /\ rows[i].parent = 0 /\ rows[i].stamp = rows[j].pstamp

\* So is the parent of a parser's next line,
ParserParent ==
    \A k \in Source : \A i \in DOMAIN rows : rows[i].id = loop[k].parent =>
      /\ rows[i].source = k
      /\ rows[i].parent = 0 /\ rows[i].stamp = loop[k].pstamp

\* whose lines the parser has counted.
ParserIndex ==
    \A k \in Source : \A i \in DOMAIN rows :
      rows[i].source = k /\ loop[k].parent # 0 =>
        /\ rows[i].parent = loop[k].parent => rows[i].index <= loop[k].index
        /\ rows[i].id > loop[k].parent => loop[k].index > 0

\* The lines of a log between the parent of a row and the row belong to the
\* same entry, and where an earlier line of the log is shown so is the parent.
EntryLines ==
    \A i, j \in DOMAIN rows :
      rows[i].source = rows[j].source /\ rows[j].parent # 0 =>
        /\ rows[j].parent < rows[i].id /\ rows[i].id < rows[j].id =>
             rows[i].parent = rows[j].parent
        /\ rows[i].parent = rows[j].parent => rows[i].pstamp = rows[j].pstamp
        /\ rows[i].id < rows[j].parent => \E h \in DOMAIN rows : rows[h].id = rows[j].parent

\* So it is with the parent of a parser's next line.
ParserLines ==
    \A k \in Source : \A i \in DOMAIN rows :
      rows[i].source = k /\ loop[k].parent # 0 =>
        /\ rows[i].id > loop[k].parent => rows[i].parent = loop[k].parent
        /\ rows[i].parent = loop[k].parent => rows[i].pstamp = loop[k].pstamp
        /\ rows[i].id < loop[k].parent => \E h \in DOMAIN rows : rows[h].id = loop[k].parent

\* A log that was closed posts no other batch.
StaleBatches ==
    \A k \in closed :
      /\ k \in Source /\ loop[k].cancelled
      /\ \A i \in DOMAIN rows : rows[i].source = k => rows[i].batch = loop[k].batch

\* The rows are those that arrived, whose Ids increase.
ArrivedRows ==
    /\ Len(arrived) = Len(rows)
    /\ \A n \in DOMAIN arrived :
         /\ arrived[n] <= ids
         /\ \A m \in 1 .. n - 1 : arrived[m] < arrived[n]
         /\ \E i \in DOMAIN rows : rows[i].id = arrived[n]
    /\ \A i \in DOMAIN rows : \E n \in DOMAIN arrived : arrived[n] = rows[i].id

\* What ArrivalOrderKept says of the lines in the order they arrived, said of
\* the rows: the lines came in order, and from one log,
Orderly ==
    \/ \A i \in DOMAIN rows : rows[i].stamp = 0
    \/ /\ \A i, j \in DOMAIN rows :
            rows[i].stamp # 0 /\ rows[j].stamp # 0 /\ rows[i].id < rows[j].id =>
              rows[i].stamp < rows[j].stamp
       /\ \A i \in DOMAIN rows : rows[i].stamp # 0 \/ rows[i].parent # 0

SameLog == \A i, j \in DOMAIN rows : rows[i].source = rows[j].source

\* so they are shown in that order.
RowsInOrder ==
    Orderly /\ SameLog => \A n \in DOMAIN arrived : rows[n].id = arrived[n]

IInv ==
    /\ TypeOK
    /\ PageOK
    /\ PostedIsRead
    /\ Sources
    /\ Numbered
    /\ RowFields
    /\ UniqueIds
    /\ ParentRows
    /\ ParserParent
    /\ ParserIndex
    /\ SecondLineFollows
    /\ EntryLines
    /\ ParserLines
    /\ StaleBatches
    /\ ArrivedRows
    /\ RowsInOrder

-----------------------------------------------------------------------------
(* Where an entry is inserted.                                             *)

\* A set of positions that is not empty has a greatest one.
LEMMA MaxOfPositions ==
    ASSUME NEW n \in Nat, NEW T \in SUBSET (1 .. n), T # {}
    PROVE  F!Max(T) \in T /\ \A y \in T : F!Max(T) >= y
<1> DEFINE R == OpToRel(<, Nat)
           U == {n - t : t \in T}
<1>1. \A x, y \in Nat : <<x, y>> \in R <=> x < y
  BY DEF OpToRel
<1>2. IsWellFoundedOn(R, Nat)
  BY NatLessThanWellFounded
<1> HIDE DEF R
<1>3. U \subseteq Nat /\ U # {}
  <2>1. \A t \in T : n - t \in Nat
    OBVIOUS
  <2> QED BY <2>1
<1>4. PICK u \in U : \A y \in U : ~(<<y, u>> \in R)
  BY <1>2, <1>3, WFMin
<1>5. PICK t \in T : u = n - t
  OBVIOUS
<1>6. \A y \in T : t >= y
  <2> SUFFICES ASSUME NEW y \in T, ~(t >= y) PROVE FALSE
    OBVIOUS
  <2>1. n - y \in U /\ n - y \in Nat /\ u \in Nat /\ n - y < u
    BY <1>3, <1>5
  <2> QED BY <1>1, <1>4, <2>1
<1> QED BY <1>6 DEF F!Max

\* The entry may stand behind the row.
GoesBehind(row, e) ==
    IF e.parent # 0
    THEN row.id = e.parent /\ e.index - 1 = row.index
    ELSE e.stamp # 0 /\ StampOf(row) # 0 /\ StampOf(row) < e.stamp

\* InsertSorted finds the last row the entry may stand behind, or takes the
\* end.
LEMMA SortedPlace ==
    ASSUME NEW entries \in Seq(Row), NEW e, NEW x, x = InsertSorted(entries, e)
    PROVE  \/ x = Len(entries) /\ \A i \in DOMAIN entries : ~GoesBehind(entries[i], e)
           \/ /\ x \in DOMAIN entries /\ GoesBehind(entries[x], e)
              /\ \A i \in DOMAIN entries : GoesBehind(entries[i], e) => i <= x
<1> DEFINE T == {i \in DOMAIN entries : GoesBehind(entries[i], e)}
<1>1. T \in SUBSET (1 .. Len(entries)) /\ Len(entries) \in Nat
  OBVIOUS
<1>2. x = LastOrEnd(T, entries)
  BY DEF InsertSorted, GoesBehind
<1>3. \A i \in DOMAIN entries : GoesBehind(entries[i], e) <=> i \in T
  OBVIOUS
<1> HIDE DEF T
<1>4. T # {} => F!Max(T) \in T /\ \A y \in T : F!Max(T) >= y
  BY <1>1, MaxOfPositions
<1>5. x = IF T = {} THEN Len(entries) ELSE F!Max(T)
  BY <1>2 DEF LastOrEnd
<1>6. CASE T = {}
  BY <1>3, <1>5, <1>6
<1>7. CASE T # {}
  <2>1. x \in T /\ \A y \in T : x >= y
    BY <1>4, <1>5, <1>7
  <2>2. x \in DOMAIN entries
    BY <1>1, <2>1
  <2>3. \A i \in DOMAIN entries : GoesBehind(entries[i], e) => i <= x
    BY <1>1, <1>3, <2>1, <2>2
  <2> QED BY <1>3, <2>1, <2>2, <2>3
<1> QED BY <1>6, <1>7

\* So it is a place among the rows.
LEMMA PlaceInRows ==
    ASSUME NEW entries \in Seq(Row), NEW e
    PROVE  InsertSorted(entries, e) \in 0 .. Len(entries)
<1>1. Len(entries) \in Nat /\ DOMAIN entries = 1 .. Len(entries)
  OBVIOUS
<1> QED BY <1>1, SortedPlace

\* Two rows show the same line, whatever their numbers.
SameLine(r, s) ==
    /\ r.id = s.id /\ r.source = s.source /\ r.batch = s.batch /\ r.stamp = s.stamp
    /\ r.parent = s.parent /\ r.pstamp = s.pstamp /\ r.index = s.index

\* Giving a row another number changes nothing else.
LEMMA Renumbered ==
    ASSUME NEW r \in Row, NEW n \in Nat
    PROVE  LET q == [r EXCEPT !.number = n]
           IN  q \in Row /\ SameLine(q, r) /\ q.number = n
BY DEF Row, SameLine

\* The rows before the x-th place are as they were, the entry is behind them,
\* numbered after the row before it, and the others are moved by one.
RowsAfter(entries, x, e, first, after) ==
    /\ after \in Seq(Row)
    /\ Len(after) = Len(entries) + 1
    /\ \A i \in 1 .. x : after[i] = entries[i]
    /\ SameLine(after[x + 1], e)
    /\ after[x + 1].number = IF x = 0 THEN first ELSE entries[x].number + 1
    /\ \A i \in x + 1 .. Len(entries) :
         /\ SameLine(after[i + 1], entries[i])
         /\ after[i + 1].number = entries[i].number + 1

\* That is what InsertLogEntry does.
LEMMA InsertRows ==
    ASSUME NEW entries \in Seq(Row), NEW e \in Row, NEW first \in Nat,
           NEW x \in 0 .. Len(entries)
    PROVE  RowsAfter(entries, x, e, first, InsertLogEntry(entries, x, e, first))
<1> DEFINE after == InsertLogEntry(entries, x, e, first)
<1> DEFINE number == IF x = 0 THEN first ELSE entries[x].number + 1
           A == SubSeq(entries, 1, x)
           B == <<[e EXCEPT !.number = number]>>
           C == [i \in 1 .. Len(entries) - x |->
                   [entries[x + i] EXCEPT !.number = @ + 1]]
<1>1. after = (A \o B) \o C
  BY DEF InsertLogEntry, Shift
<1>2. A \in Seq(Row) /\ Len(A) = x /\ \A i \in 1 .. x : A[i] = entries[i]
  OBVIOUS
<1>3. number \in Nat
  <2>1. x # 0 => entries[x] \in Row
    OBVIOUS
  <2>2. \A r \in Row : r.number \in Nat
    BY DEF Row
  <2> QED BY <2>1, <2>2
<1>4. B \in Seq(Row) /\ Len(B) = 1 /\ SameLine(B[1], e) /\ B[1].number = number
  <2> HIDE DEF number
  <2> DEFINE q == [e EXCEPT !.number = number]
  <2>1. q \in Row /\ SameLine(q, e) /\ q.number = number
    BY <1>3, Renumbered
  <2>2. B = <<q>>
    OBVIOUS
  <2> HIDE DEF q
  <2> QED BY <2>1, <2>2
<1>5. /\ C \in Seq(Row) /\ Len(C) = Len(entries) - x
      /\ \A i \in 1 .. Len(entries) - x :
           /\ SameLine(C[i], entries[x + i])
           /\ C[i].number = entries[x + i].number + 1
  <2>1. Len(entries) - x \in Nat
    OBVIOUS
  <2>2. ASSUME NEW i \in 1 .. Len(entries) - x
        PROVE  /\ C[i] \in Row /\ SameLine(C[i], entries[x + i])
               /\ C[i].number = entries[x + i].number + 1
    <3> DEFINE r == entries[x + i]
               n == r.number + 1
    <3>1. r \in Row
      OBVIOUS
    <3>2. n \in Nat
      <4>1. \A q \in Row : q.number \in Nat
        BY DEF Row
      <4> HIDE DEF r
      <4>2. r.number \in Nat
        BY <3>1, <4>1
      <4> QED BY <4>2
    <3>3. C[i] = [r EXCEPT !.number = n]
      OBVIOUS
    <3> HIDE DEF C, r, n
    <3>4. C[i] \in Row /\ SameLine(C[i], r) /\ C[i].number = n
      BY <3>1, <3>2, <3>3, Renumbered
    <3> QED BY <3>4 DEF r, n
  <2>3. DOMAIN C = 1 .. Len(entries) - x /\ C = [i \in 1 .. Len(entries) - x |-> C[i]]
    OBVIOUS
  <2> HIDE DEF C
  <2>4. C \in Seq(Row)
    <3>1. C \in [1 .. Len(entries) - x -> Row]
      BY <2>2, <2>3
    <3> QED BY <2>1, <3>1, SeqDef
  <2>5. Len(C) = Len(entries) - x
    BY <2>1, <2>3, <2>4, LenProperties
  <2> QED BY <2>2, <2>4, <2>5
<1> HIDE DEF number, A, B, C
<1>6. /\ A \o B \in Seq(Row) /\ Len(A \o B) = x + 1
      /\ \A i \in 1 .. x : (A \o B)[i] = entries[i]
      /\ (A \o B)[x + 1] = B[1]
  <2>1. /\ A \o B \in Seq(Row) /\ Len(A \o B) = Len(A) + Len(B)
        /\ \A i \in 1 .. Len(A) + Len(B) :
             (A \o B)[i] = IF i <= Len(A) THEN A[i] ELSE B[i - Len(A)]
    <3>1. A \in Seq(Row) /\ B \in Seq(Row)
      BY <1>2, <1>4
    <3> QED BY <3>1, ConcatProperties
  <2>2. Len(A) = x /\ Len(B) = 1 /\ x \in Nat /\ x + 1 - Len(A) = 1
    BY <1>2, <1>4
  <2>3. \A i \in 1 .. x : (A \o B)[i] = entries[i]
    BY <1>2, <2>1, <2>2
  <2>4. (A \o B)[x + 1] = B[1]
    BY <2>1, <2>2
  <2> QED BY <2>1, <2>2, <2>3, <2>4
<1> DEFINE D == A \o B
<1> HIDE DEF D
<1>7. /\ D \o C \in Seq(Row) /\ Len(D \o C) = Len(entries) + 1
      /\ \A i \in 1 .. x : (D \o C)[i] = entries[i]
      /\ (D \o C)[x + 1] = B[1]
      /\ \A i \in x + 1 .. Len(entries) : (D \o C)[i + 1] = C[i - x]
  <2>1. D \in Seq(Row) /\ Len(D) = x + 1 /\ Len(C) = Len(entries) - x
    BY <1>5, <1>6 DEF D
  <2>2. /\ D \o C \in Seq(Row) /\ Len(D \o C) = Len(D) + Len(C)
        /\ \A i \in 1 .. Len(D) + Len(C) :
             (D \o C)[i] = IF i <= Len(D) THEN D[i] ELSE C[i - Len(D)]
    <3>1. C \in Seq(Row)
      BY <1>5
    <3> QED BY <2>1, <3>1, ConcatProperties
  <2>3. Len(D) + Len(C) = Len(entries) + 1
    BY <2>1
  <2>4. \A i \in 1 .. x : (D \o C)[i] = entries[i]
    BY <1>6, <2>1, <2>2, <2>3 DEF D
  <2>5. (D \o C)[x + 1] = B[1]
    BY <1>6, <2>1, <2>2, <2>3 DEF D
  <2>6. ASSUME NEW i \in x + 1 .. Len(entries) PROVE (D \o C)[i + 1] = C[i - x]
    <3>1. i + 1 \in 1 .. Len(D) + Len(C) /\ ~(i + 1 <= Len(D)) /\ (i + 1) - Len(D) = i - x
      BY <2>1
    <3> QED BY <2>2, <3>1
  <2> QED BY <2>2, <2>3, <2>4, <2>5, <2>6
<1>8. ASSUME NEW i \in x + 1 .. Len(entries)
      PROVE  /\ SameLine((D \o C)[i + 1], entries[i])
             /\ (D \o C)[i + 1].number = entries[i].number + 1
  <2>1. i - x \in 1 .. Len(entries) - x /\ x + (i - x) = i
    OBVIOUS
  <2>2. (D \o C)[i + 1] = C[i - x]
    BY <1>7
  <2> QED BY <1>5, <2>1, <2>2
<1>9. after = D \o C
  BY <1>1 DEF D
<1> HIDE DEF after
<1>10. RowsAfter(entries, x, e, first, after)
  BY <1>4, <1>7, <1>8, <1>9 DEF number, RowsAfter
<1> QED BY <1>10 DEF after
-----------------------------------------------------------------------------
(* What a step does.                                                       *)

\* The timestamp of a line is a number, 0 for none.
LEMMA KindStamp ==
    ASSUME NEW kind \in Kind
    PROVE  kind.stamp \in Nat
<1>1. CASE kind \in [stamp : Stamp, header : {FALSE}]
  <2>1. kind.stamp \in Stamp
    BY <1>1
  <2> QED BY <2>1, StampAssumption
<1>2. CASE kind \in [stamp : {0}, header : BOOLEAN]
  BY <1>2
<1> QED BY <1>1, <1>2 DEF Kind

\* CreateLogEntry makes a first line or the next line of the parser's entry.
LEMMA EntryFields ==
    ASSUME TypeOK, NEW k \in Source, NEW kind \in Kind
    PROVE  LET e == CreateLogEntry(k, kind, ids + 1)
           IN  /\ e \in Row
               /\ e.id = ids + 1 /\ e.source = k /\ e.batch = loop[k].batch
               /\ e.stamp = kind.stamp
               /\ e.parent = IF ~IsFirstLine(kind) /\ loop[k].parent # 0
                             THEN loop[k].parent ELSE 0
               /\ e.parent # 0 => /\ e.parent = loop[k].parent /\ e.stamp = 0
                                  /\ e.pstamp = loop[k].pstamp
                                  /\ e.index = loop[k].index + 1
               /\ e.parent = 0 => e.pstamp = 0 /\ e.index = 0
<1> DEFINE p == loop[k]
           st == kind.stamp
           follows == ~IsFirstLine(kind) /\ p.parent # 0
<1>1. /\ p.parent \in Nat /\ p.pstamp \in Nat /\ p.index \in Nat /\ p.batch \in Nat
      /\ st \in Nat /\ ids \in Nat
  <2>1. p \in Parser
    BY DEF TypeOK
  <2>2. st \in Nat
    BY KindStamp
  <2> QED BY <2>1, <2>2 DEF Parser, TypeOK
<1>2. CreateLogEntry(k, kind, ids + 1) =
        [id |-> ids + 1, source |-> k, batch |-> p.batch, stamp |-> st, number |-> 0,
         parent |-> IF follows THEN p.parent ELSE 0,
         pstamp |-> IF follows THEN p.pstamp ELSE 0,
         index  |-> IF follows THEN p.index + 1 ELSE 0]
  BY DEF CreateLogEntry
<1>3. follows \in BOOLEAN
  OBVIOUS
<1>4. follows => st = 0 /\ p.parent # 0
  BY DEF IsFirstLine
<1>5. ~follows => IF ~IsFirstLine(kind) /\ p.parent # 0 THEN FALSE ELSE TRUE
  OBVIOUS
<1>6. CASE follows
  <2>1. ~IsFirstLine(kind) /\ p.parent # 0
    BY <1>6
  <2> HIDE DEF follows, p, st
  <2> QED BY <1>1, <1>2, <1>4, <1>6, <2>1 DEF Row, p, st
<1>7. CASE ~follows
  <2>1. ~(~IsFirstLine(kind) /\ p.parent # 0)
    BY <1>7
  <2> HIDE DEF follows, p, st
  <2> QED BY <1>1, <1>2, <1>7, <2>1 DEF Row, p, st
<1> QED BY <1>6, <1>7

\* What CreateLogEntry leaves in the parser: it stays with an entry, starts the
\* next one, or has found none yet.
LEMMA ParserFields ==
    ASSUME TypeOK, NEW k \in Source, NEW kind \in Kind
    PROVE  LET e == CreateLogEntry(k, kind, ids + 1)
               p == loop[k]
               q == ParserAfter(p, kind, ids + 1)
           IN  /\ q \in Parser /\ q.cancelled = p.cancelled /\ q.read = p.read
               /\ q.left = p.left /\ q.batch = p.batch
               /\ e.parent # 0 => /\ q.parent = p.parent /\ q.pstamp = p.pstamp
                                  /\ q.index = p.index + 1
               /\ e.parent = 0 =>
                    \/ q.parent = ids + 1 /\ q.pstamp = e.stamp /\ q.index = 0
                    \/ q.parent = 0 /\ p.parent = 0
<1> DEFINE p == loop[k]
           st == kind.stamp
           q == ParserAfter(p, kind, ids + 1)
           e == CreateLogEntry(k, kind, ids + 1)
<1>1. p \in Parser /\ ids + 1 \in Nat
  BY DEF TypeOK
<1>2. st \in Nat
  BY KindStamp
<1>3. /\ e.stamp = st
      /\ e.parent = IF ~IsFirstLine(kind) /\ p.parent # 0 THEN p.parent ELSE 0
  BY EntryFields
<1> HIDE DEF p, e
<1>4. CASE IsFirstLine(kind)
  <2>1. q = [p EXCEPT !.parent = ids + 1, !.pstamp = st, !.index = 0]
    BY <1>4 DEF ParserAfter
  <2>2. e.parent = 0
    BY <1>3, <1>4
  <2> HIDE DEF q, st
  <2>3. q \in Parser
    BY <1>1, <1>2, <2>1 DEF Parser
  <2>4. q.cancelled = p.cancelled /\ q.read = p.read /\ q.left = p.left /\ q.batch = p.batch
    BY <1>1, <1>2, <2>1 DEF Parser
  <2>5. q.parent = ids + 1 /\ q.pstamp = st /\ q.index = 0
    BY <1>1, <1>2, <2>1 DEF Parser
  <2> QED BY <1>3, <2>2, <2>3, <2>4, <2>5 DEF p, q, e, st
<1>5. CASE ~IsFirstLine(kind) /\ p.parent # 0
  <2>1. q = [p EXCEPT !.index = @ + 1]
    BY <1>5 DEF ParserAfter
  <2>2. e.parent # 0 /\ e.parent = p.parent
    BY <1>3, <1>5
  <2> HIDE DEF q
  <2> QED BY <1>1, <2>1, <2>2 DEF Parser, p, q, e
<1>6. CASE ~IsFirstLine(kind) /\ p.parent = 0
  <2>1. q = p
    BY <1>6 DEF ParserAfter
  <2>2. e.parent = 0
    BY <1>3, <1>6
  <2> HIDE DEF q
  <2> QED BY <1>1, <1>6, <2>1, <2>2 DEF p, q, e
<1> QED BY <1>4, <1>5, <1>6
\* Where a row goes when another is put behind the x-th, and where it was.
NewPlace(x, i) == IF i <= x THEN i ELSE i + 1
OldPlace(x, j) == IF j <= x THEN j ELSE j - 1

\* e was put behind the x-th row.
Inserted(e, x) ==
    /\ rows' \in Seq(Row) /\ DOMAIN rows' = 1 .. Len(rows) + 1
    /\ x \in 0 .. Len(rows)
    /\ SameLine(rows'[x + 1], e)
    /\ \A i \in DOMAIN rows : /\ NewPlace(x, i) \in DOMAIN rows' \ {x + 1}
                              /\ SameLine(rows'[NewPlace(x, i)], rows[i])
    /\ \A j \in DOMAIN rows' : j = x + 1 \/ /\ OldPlace(x, j) \in DOMAIN rows
                                            /\ j = NewPlace(x, OldPlace(x, j))

\* The number of a line that is posted is one, and the first is the log's.
LEMMA FirstIsNumber ==
    ASSUME TypeOK, PostedIsRead, NEW k \in Source
    PROVE  /\ LineNumber(k) \in Nat \ {0}
           /\ loop[k].read = loop[k].left => LineNumber(k) = FirstNumber[k]
<1>1. loop[k].read \in Nat /\ loop[k].left \in Nat /\ loop[k].left <= loop[k].read
  BY DEF TypeOK, Parser, PostedIsRead
<1>2. FirstNumber[k] \in Nat \ {0}
  BY NumberAssumption DEF Source
<1> QED BY <1>1, <1>2 DEF LineNumber

\* InsertLine puts the entry behind the row InsertSorted finds.
LEMMA InsertedRows ==
    ASSUME TypeOK, PostedIsRead, NEW k \in Source, NEW kind \in Kind, InsertLine(k, kind)
    PROVE  LET e == CreateLogEntry(k, kind, ids + 1)
           IN  Inserted(e, InsertSorted(rows, e))
<1> DEFINE e == CreateLogEntry(k, kind, ids + 1)
           x == InsertSorted(rows, e)
           first == IF base = 0 THEN LineNumber(k) ELSE base
           after == InsertLogEntry(rows, x, e, first)
<1>1. rows' = after
  BY DEF InsertLine
<1>2. rows \in Seq(Row) /\ e \in Row
  BY EntryFields DEF TypeOK
<1>3. x \in 0 .. Len(rows)
  BY <1>2, PlaceInRows
<1>4. first \in Nat
  BY FirstIsNumber DEF TypeOK
<1> HIDE DEF x, e, first
<1>5. RowsAfter(rows, x, e, first, after)
  BY <1>2, <1>3, <1>4, InsertRows
<1>6. /\ after \in Seq(Row)
      /\ Len(after) = Len(rows) + 1
      /\ \A i \in 1 .. x : after[i] = rows[i]
      /\ SameLine(after[x + 1], e)
      /\ \A i \in x + 1 .. Len(rows) : SameLine(after[i + 1], rows[i])
  BY <1>5 DEF RowsAfter
<1> HIDE DEF after
<1>7. SameLine(rows'[x + 1], e)
  BY <1>1, <1>6
<1>8. ASSUME NEW i \in DOMAIN rows
      PROVE  /\ NewPlace(x, i) \in 1 .. Len(rows) + 1 /\ NewPlace(x, i) # x + 1
             /\ SameLine(rows'[NewPlace(x, i)], rows[i])
  <2>1. rows[i] \in Row /\ i \in 1 .. Len(rows)
    BY <1>2
  <2>2. CASE i <= x
    <3>1. NewPlace(x, i) = i /\ i \in 1 .. x
      BY <1>3, <2>1, <2>2 DEF NewPlace
    <3>2. rows'[i] = rows[i]
      BY <1>1, <1>6, <3>1
    <3> QED BY <1>2, <1>3, <2>1, <3>1, <3>2 DEF SameLine
  <2>3. CASE i > x
    <3>1. NewPlace(x, i) = i + 1 /\ i \in x + 1 .. Len(rows)
      BY <1>2, <1>3, <2>1, <2>3 DEF NewPlace
    <3>2. SameLine(rows'[i + 1], rows[i])
      BY <1>1, <1>6, <3>1
    <3> QED BY <1>2, <1>3, <2>1, <3>1, <3>2
  <2> QED BY <1>3, <2>1, <2>2, <2>3
<1>9. ASSUME NEW j \in 1 .. Len(rows) + 1, j # x + 1
      PROVE  OldPlace(x, j) \in 1 .. Len(rows) /\ j = NewPlace(x, OldPlace(x, j))
  <2>1. Len(rows) \in Nat
    BY <1>2
  <2> QED BY <1>3, <1>9, <2>1 DEF OldPlace, NewPlace
<1>10. DOMAIN rows = 1 .. Len(rows) /\ DOMAIN rows' = 1 .. Len(rows) + 1
       /\ rows' \in Seq(Row)
  BY <1>1, <1>2, <1>6
<1>11. Inserted(e, x)
  BY <1>3, <1>7, <1>8, <1>9, <1>10 DEF Inserted
<1> QED BY <1>11 DEF x, e
\* e is the next line of k.
NextLine(k, e) ==
    /\ e \in Row /\ e.id = ids + 1 /\ e.source = k /\ e.batch = loop[k].batch
    /\ e.parent # 0 => /\ e.parent = loop[k].parent /\ e.stamp = 0
                       /\ e.pstamp = loop[k].pstamp /\ e.index = loop[k].index + 1
    /\ e.parent = 0 => e.pstamp = 0 /\ e.index = 0

\* The parser of k has made e, and its batch has one line less to insert.
ParserStep(k, e) ==
    /\ loop' \in [Source -> Parser]
    /\ \A j \in Source \ {k} : loop'[j] = loop[j]
    /\ loop'[k].cancelled = loop[k].cancelled
    /\ loop'[k].read = loop[k].read /\ loop'[k].batch = loop[k].batch
    /\ loop'[k].left = loop[k].left - 1 /\ loop[k].left # 0
    /\ loop'[k].at = IF loop[k].left = 1 THEN "reading" ELSE "posted"
    /\ e.parent # 0 => /\ loop'[k].parent = loop[k].parent
                       /\ loop'[k].pstamp = loop[k].pstamp
                       /\ loop'[k].index = loop[k].index + 1
    /\ e.parent = 0 => \/ /\ loop'[k].parent = ids + 1 /\ loop'[k].pstamp = e.stamp
                          /\ loop'[k].index = 0
                       \/ loop'[k].parent = 0

\* The line e of k is behind the x-th row.
InsertOf(k, e, x) ==
    /\ NextLine(k, e) /\ ParserStep(k, e) /\ Inserted(e, x)
    /\ ids' = ids + 1 /\ arrived' = Append(arrived, ids + 1) /\ closed' = closed

\* An InsertLine does all of that.
LEMMA InsertStep ==
    ASSUME TypeOK, PostedIsRead, NEW k \in Source, NEW kind \in Kind, InsertLine(k, kind)
    PROVE  LET e == CreateLogEntry(k, kind, ids + 1)
           IN  InsertOf(k, e, InsertSorted(rows, e))
<1> DEFINE e == CreateLogEntry(k, kind, ids + 1)
           q == ParserAfter(loop[k], kind, ids + 1)
           at == IF loop[k].left = 1 THEN "reading" ELSE "posted"
           n == loop[k].left - 1
<1>1. NextLine(k, e)
  BY EntryFields DEF NextLine
<1>2. Inserted(e, InsertSorted(rows, e))
  BY InsertedRows
<1>3. /\ q \in Parser /\ q.cancelled = loop[k].cancelled /\ q.read = loop[k].read
      /\ q.left = loop[k].left /\ q.batch = loop[k].batch
      /\ e.parent # 0 => /\ q.parent = loop[k].parent /\ q.pstamp = loop[k].pstamp
                         /\ q.index = loop[k].index + 1
      /\ e.parent = 0 => \/ q.parent = ids + 1 /\ q.pstamp = e.stamp /\ q.index = 0
                         \/ q.parent = 0
  BY ParserFields
<1>4. /\ loop' = [loop EXCEPT ![k] = [q EXCEPT !.left = n, !.at = at]]
      /\ ids' = ids + 1 /\ arrived' = Append(arrived, ids + 1) /\ closed' = closed
  BY DEF InsertLine
<1>5. loop \in [Source -> Parser] /\ loop[k].left \in Nat
  BY DEF TypeOK, Parser
<1>6. loop[k].left # 0
  BY DEF InsertLine, PostedIsRead
<1>7. n \in Nat /\ at \in {"reading", "posted"}
  BY <1>5, <1>6
<1> DEFINE r == [q EXCEPT !.left = n, !.at = at]
<1>8. loop' = [loop EXCEPT ![k] = r]
  BY <1>3, <1>4
<1> HIDE DEF q, e, n, at
<1>9. /\ r \in Parser /\ r.at = at /\ r.read = q.read /\ r.left = n /\ r.batch = q.batch
      /\ r.parent = q.parent /\ r.pstamp = q.pstamp /\ r.index = q.index
  BY <1>3, <1>7 DEF Parser
<1>10. r.cancelled = q.cancelled
  BY <1>3 DEF Parser
<1> HIDE DEF r
<1>11. /\ loop' \in [Source -> Parser] /\ loop'[k] = r
       /\ \A j \in Source \ {k} : loop'[j] = loop[j]
  BY <1>5, <1>8, <1>9
<1>12. ParserStep(k, e)
  BY <1>3, <1>6, <1>9, <1>10, <1>11 DEF ParserStep, n, at
<1>13. InsertOf(k, e, InsertSorted(rows, e))
  BY <1>1, <1>2, <1>4, <1>12 DEF InsertOf
<1> QED BY <1>13 DEF e
-----------------------------------------------------------------------------
(* An inserted line keeps each part of the invariant.                      *)

\* A row is the new one or was there before.
LEMMA NewOrOld ==
    ASSUME TypeOK, NEW e, NEW x, Inserted(e, x), NEW j \in DOMAIN rows'
    PROVE  \/ j = x + 1 /\ SameLine(rows'[j], e)
           \/ \E i \in DOMAIN rows : /\ j = NewPlace(x, i)
                                     /\ SameLine(rows'[j], rows[i])
BY DEF Inserted

\* Rows keep their order when one is inserted.
LEMMA PlacesKeepOrder ==
    ASSUME TypeOK, NEW e, NEW x, Inserted(e, x),
           NEW i \in DOMAIN rows, NEW j \in DOMAIN rows
    PROVE  /\ NewPlace(x, i) = NewPlace(x, j) => i = j
           /\ i < j => NewPlace(x, i) < NewPlace(x, j)
           /\ j = i + 1 /\ x # i => NewPlace(x, j) = NewPlace(x, i) + 1
<1>1. x \in Nat /\ i \in Nat /\ j \in Nat
  BY DEF Inserted, TypeOK
<1> QED BY <1>1 DEF NewPlace

\* The types of the fields the rows are compared by.
LEMMA RowTypes ==
    ASSUME NEW r \in Row
    PROVE  /\ r.id \in Nat /\ r.source \in Source /\ r.stamp \in Nat
           /\ r.parent \in Nat /\ r.pstamp \in Nat /\ r.index \in Nat
           /\ r.number \in Nat /\ r.batch \in Nat
BY DEF Row

\* What a new line holds of RowFields holds of all the rows.
LEMMA FieldsInserted ==
    ASSUME TypeOK, Sources, RowFields, NEW k \in Source, NEW e, NEW x,
           InsertOf(k, e, x)
    PROVE  RowFields'
<1> SUFFICES ASSUME NEW j \in DOMAIN rows'
             PROVE  /\ rows'[j].id \in 1 .. ids' /\ rows'[j].parent <= ids'
                    /\ rows'[j].parent = 0 => rows'[j].pstamp = 0 /\ rows'[j].index = 0
                    /\ rows'[j].parent # 0 => rows'[j].stamp = 0 /\ rows'[j].index > 0
  BY DEF RowFields
<1>1. ids \in Nat /\ ids' = ids + 1 /\ Inserted(e, x) /\ NextLine(k, e)
  BY DEF InsertOf, TypeOK
<1>2. CASE j = x + 1 /\ SameLine(rows'[j], e)
  <2>1. e \in Row /\ loop[k].parent <= ids
    BY <1>1 DEF NextLine, Sources
  <2>2. loop[k].index \in Nat
    BY DEF TypeOK, Parser
  <2> QED BY <1>1, <1>2, <2>1, <2>2, RowTypes DEF NextLine, SameLine
<1>3. ASSUME NEW i \in DOMAIN rows, SameLine(rows'[j], rows[i])
      PROVE  /\ rows'[j].id \in 1 .. ids' /\ rows'[j].parent <= ids'
             /\ rows'[j].parent = 0 => rows'[j].pstamp = 0 /\ rows'[j].index = 0
             /\ rows'[j].parent # 0 => rows'[j].stamp = 0 /\ rows'[j].index > 0
  <2>1. rows[i] \in Row
    BY DEF TypeOK
  <2> QED BY <1>1, <1>3, <2>1, RowTypes DEF RowFields, SameLine
<1> QED BY <1>1, <1>2, <1>3, NewOrOld

\* The Id of a new line is greater than those before it.
LEMMA IdsInserted ==
    ASSUME TypeOK, RowFields, UniqueIds, NEW k \in Source, NEW e, NEW x,
           InsertOf(k, e, x)
    PROVE  UniqueIds'
<1> SUFFICES ASSUME NEW i \in DOMAIN rows', NEW j \in DOMAIN rows',
                    rows'[i].id = rows'[j].id
             PROVE  i = j
  BY DEF UniqueIds
<1>1. ids \in Nat /\ Inserted(e, x) /\ e.id = ids + 1
  BY DEF InsertOf, NextLine, TypeOK
<1>2. \A m \in DOMAIN rows : rows[m].id # ids + 1
  BY <1>1 DEF RowFields
<1>3. CASE i = x + 1 /\ SameLine(rows'[i], e)
  BY <1>1, <1>2, <1>3, NewOrOld DEF SameLine
<1>4. CASE j = x + 1 /\ SameLine(rows'[j], e)
  BY <1>1, <1>2, <1>4, NewOrOld DEF SameLine
<1>5. ASSUME NEW m \in DOMAIN rows, NEW n \in DOMAIN rows,
             i = NewPlace(x, m), SameLine(rows'[i], rows[m]),
             j = NewPlace(x, n), SameLine(rows'[j], rows[n])
      PROVE  i = j
  BY <1>5 DEF UniqueIds, SameLine
<1> QED BY <1>1, <1>3, <1>4, <1>5, NewOrOld

\* No row that is shown refers to a new line, which may refer to one of them.
LEMMA ParentsInserted ==
    ASSUME TypeOK, Sources, RowFields, ParserParent, ParentRows,
           NEW k \in Source, NEW e, NEW x, InsertOf(k, e, x)
    PROVE  ParentRows'
<1> SUFFICES ASSUME NEW i \in DOMAIN rows', NEW j \in DOMAIN rows',
                    rows'[i].id = rows'[j].parent
             PROVE  /\ rows'[i].source = rows'[j].source
                    /\ rows'[i].parent = 0 /\ rows'[i].stamp = rows'[j].pstamp
  BY DEF ParentRows
<1>1. ids \in Nat /\ Inserted(e, x) /\ NextLine(k, e)
  BY DEF InsertOf, TypeOK
<1>2. \A m \in DOMAIN rows : rows[m].parent # ids + 1 /\ rows[m].id # 0
  <2> SUFFICES ASSUME NEW m \in DOMAIN rows
               PROVE  rows[m].parent # ids + 1 /\ rows[m].id # 0
    OBVIOUS
  <2>1. rows[m] \in Row
    BY DEF TypeOK
  <2> QED BY <1>1, <2>1, RowTypes DEF RowFields
<1>3. e.parent # ids + 1
  <2>1. loop[k].parent <= ids /\ loop[k].parent \in Nat
    BY DEF Sources, TypeOK, Parser
  <2> QED BY <1>1, <2>1 DEF NextLine
<1>4. CASE i = x + 1 /\ SameLine(rows'[i], e)
  BY <1>1, <1>2, <1>3, <1>4, NewOrOld DEF SameLine, NextLine
<1>5. ASSUME NEW m \in DOMAIN rows, SameLine(rows'[i], rows[m])
      PROVE  /\ rows'[i].source = rows'[j].source
             /\ rows'[i].parent = 0 /\ rows'[i].stamp = rows'[j].pstamp
  <2>1. CASE j = x + 1 /\ SameLine(rows'[j], e)
    <3>1. rows[m].id = e.parent /\ e.parent # 0
      BY <1>2, <1>5, <2>1 DEF SameLine
    <3>2. rows[m].id = loop[k].parent /\ e.pstamp = loop[k].pstamp /\ e.source = k
      BY <1>1, <3>1 DEF NextLine
    <3> QED BY <1>5, <2>1, <3>2 DEF ParserParent, SameLine
  <2>2. ASSUME NEW n \in DOMAIN rows, SameLine(rows'[j], rows[n])
        PROVE  /\ rows'[i].source = rows'[j].source
               /\ rows'[i].parent = 0 /\ rows'[i].stamp = rows'[j].pstamp
    BY <1>5, <2>2 DEF ParentRows, SameLine
  <2> QED BY <1>1, <2>1, <2>2, NewOrOld
<1> QED BY <1>1, <1>4, <1>5, NewOrOld

\* A parser's entry is the one it was, or the new line begins it.
LEMMA ParserParentInserted ==
    ASSUME TypeOK, Sources, RowFields, ParserParent,
           NEW k \in Source, NEW e, NEW x, InsertOf(k, e, x)
    PROVE  ParserParent'
<1> SUFFICES ASSUME NEW h \in Source, NEW j \in DOMAIN rows',
                    rows'[j].id = loop'[h].parent
             PROVE  /\ rows'[j].source = h
                    /\ rows'[j].parent = 0 /\ rows'[j].stamp = loop'[h].pstamp
  BY DEF ParserParent
<1>1. /\ ids \in Nat /\ Inserted(e, x) /\ NextLine(k, e) /\ ParserStep(k, e)
  BY DEF InsertOf, TypeOK
<1>2. \A m \in DOMAIN rows : rows[m].id # ids + 1 /\ rows[m].id # 0
  BY <1>1 DEF RowFields
<1>3. \A g \in Source : loop[g].parent # ids + 1
  <2> SUFFICES ASSUME NEW g \in Source PROVE loop[g].parent # ids + 1
    OBVIOUS
  <2>1. loop[g].parent <= ids /\ loop[g].parent \in Nat
    BY DEF Sources, TypeOK, Parser
  <2> QED BY <1>1, <2>1
<1>4. CASE j = x + 1 /\ SameLine(rows'[j], e)
  <2>1. loop'[h].parent = ids + 1
    BY <1>1, <1>4 DEF NextLine, SameLine
  <2>2. h = k
    BY <1>1, <1>3, <2>1 DEF ParserStep
  <2>3. e.parent = 0
    BY <1>1, <1>3, <2>1, <2>2 DEF ParserStep
  <2> QED BY <1>1, <1>4, <2>1, <2>2, <2>3 DEF ParserStep, NextLine, SameLine
<1>5. ASSUME NEW m \in DOMAIN rows, SameLine(rows'[j], rows[m])
      PROVE  /\ rows'[j].source = h
             /\ rows'[j].parent = 0 /\ rows'[j].stamp = loop'[h].pstamp
  <2>1. rows[m].id = loop'[h].parent
    BY <1>5 DEF SameLine
  <2>2. loop'[h].parent = loop[h].parent /\ loop'[h].pstamp = loop[h].pstamp
    BY <1>1, <1>2, <2>1 DEF ParserStep
  <2> QED BY <1>5, <2>1, <2>2 DEF ParserParent, SameLine
<1> QED BY <1>1, <1>4, <1>5, NewOrOld

\* A parser counts the new line of its entry.
LEMMA ParserIndexInserted ==
    ASSUME TypeOK, Sources, RowFields, ParserIndex,
           NEW k \in Source, NEW e, NEW x, InsertOf(k, e, x)
    PROVE  ParserIndex'
<1> SUFFICES ASSUME NEW h \in Source, NEW j \in DOMAIN rows',
                    rows'[j].source = h, loop'[h].parent # 0
             PROVE  /\ rows'[j].parent = loop'[h].parent => rows'[j].index <= loop'[h].index
                    /\ rows'[j].id > loop'[h].parent => loop'[h].index > 0
  BY DEF ParserIndex
<1>1. /\ ids \in Nat /\ Inserted(e, x) /\ NextLine(k, e) /\ ParserStep(k, e)
  BY DEF InsertOf, TypeOK
<1>2. \A m \in DOMAIN rows : /\ rows[m].id \in 1 .. ids /\ rows[m].parent <= ids
                             /\ rows[m].parent \in Nat /\ rows[m].index \in Nat
  <2> SUFFICES ASSUME NEW m \in DOMAIN rows
               PROVE  /\ rows[m].id \in 1 .. ids /\ rows[m].parent <= ids
                      /\ rows[m].parent \in Nat /\ rows[m].index \in Nat
    OBVIOUS
  <2>1. rows[m] \in Row
    BY DEF TypeOK
  <2> QED BY <2>1, RowTypes DEF RowFields
<1>3. /\ loop[h].parent <= ids /\ loop[h].parent \in Nat /\ loop[h].index \in Nat
      /\ loop[k].parent <= ids /\ loop[k].parent \in Nat /\ loop[k].index \in Nat
  BY DEF Sources, TypeOK, Parser
<1>4. CASE j = x + 1 /\ SameLine(rows'[j], e)
  <2>1. h = k
    BY <1>1, <1>4 DEF NextLine, SameLine
  <2>2. CASE e.parent # 0
    BY <1>1, <1>3, <1>4, <2>1, <2>2 DEF NextLine, SameLine, ParserStep
  <2>3. CASE e.parent = 0
    BY <1>1, <1>3, <1>4, <2>1, <2>3 DEF NextLine, SameLine, ParserStep
  <2> QED BY <2>2, <2>3
<1>5. ASSUME NEW m \in DOMAIN rows, SameLine(rows'[j], rows[m])
      PROVE  /\ rows'[j].parent = loop'[h].parent => rows'[j].index <= loop'[h].index
             /\ rows'[j].id > loop'[h].parent => loop'[h].index > 0
  <2>1. rows'[j].parent = rows[m].parent /\ rows'[j].index = rows[m].index
        /\ rows'[j].id = rows[m].id /\ rows[m].source = h
    BY <1>5 DEF SameLine
  <2>2. CASE h # k
    <3>1. loop'[h] = loop[h]
      BY <1>1, <2>2 DEF ParserStep
    <3> QED BY <2>1, <3>1 DEF ParserIndex
  <2>3. CASE h = k /\ e.parent # 0
    <3>1. loop'[h].parent = loop[h].parent /\ loop'[h].index = loop[h].index + 1
      BY <1>1, <2>3 DEF ParserStep
    <3> QED BY <1>2, <1>3, <2>1, <3>1 DEF ParserIndex
  <2>4. CASE h = k /\ e.parent = 0
    <3>1. loop'[h].parent = ids + 1
      BY <1>1, <2>4 DEF ParserStep
    <3> QED BY <1>1, <1>2, <2>1, <3>1
  <2> QED BY <2>2, <2>3, <2>4
<1> QED BY <1>1, <1>4, <1>5, NewOrOld
\* The second line of an entry is put behind the first, and nothing between
\* them: another line that would stand behind the first would also stand
\* behind the second.
LEMMA SecondLineInserted ==
    ASSUME TypeOK, Sources, RowFields, UniqueIds, ParentRows, ParserParent,
           ParserIndex, SecondLineFollows,
           NEW k \in Source, NEW e, NEW x, InsertOf(k, e, x),
           x = InsertSorted(rows, e)
    PROVE  SecondLineFollows'
<1> SUFFICES ASSUME NEW i \in DOMAIN rows', NEW j \in DOMAIN rows',
                    rows'[j].index = 1, rows'[i].id = rows'[j].parent
             PROVE  j = i + 1
  BY DEF SecondLineFollows
<1>1. /\ ids \in Nat /\ Inserted(e, x) /\ NextLine(k, e)
      /\ rows \in Seq(Row) /\ e \in Row
  BY DEF InsertOf, TypeOK, NextLine
<1>2. \A m \in DOMAIN rows : /\ rows[m] \in Row
                             /\ rows[m].parent # ids + 1 /\ rows[m].id # 0
  <2> SUFFICES ASSUME NEW m \in DOMAIN rows
               PROVE  /\ rows[m] \in Row
                      /\ rows[m].parent # ids + 1 /\ rows[m].id # 0
    OBVIOUS
  <2>1. rows[m] \in Row
    BY <1>1
  <2> QED BY <1>1, <2>1, RowTypes DEF RowFields
<1>3. e.parent # ids + 1
  <2>1. loop[k].parent <= ids /\ loop[k].parent \in Nat
    BY DEF Sources, TypeOK, Parser
  <2> QED BY <1>1, <2>1 DEF NextLine
<1>4. loop[k].index \in Nat
  BY DEF TypeOK, Parser
<1>5. PICK m \in DOMAIN rows : i = NewPlace(x, m) /\ SameLine(rows'[i], rows[m])
  <2>1. ~SameLine(rows'[i], e)
    BY <1>1, <1>2, <1>3, NewOrOld DEF SameLine, NextLine
  <2> QED BY <1>1, <2>1, NewOrOld
<1>6. CASE j = x + 1 /\ SameLine(rows'[j], e)
  <2>1. rows[m].id = e.parent /\ e.index = 1 /\ e.parent # 0
    BY <1>2, <1>5, <1>6 DEF SameLine
  <2>2. rows[m].index = 0
    <3>1. rows[m].parent = 0
      BY <1>1, <2>1 DEF NextLine, ParserParent
    <3> QED BY <3>1 DEF RowFields
  <2>3. GoesBehind(rows[m], e)
    BY <2>1, <2>2 DEF GoesBehind
  <2>4. x \in DOMAIN rows /\ GoesBehind(rows[x], e)
    BY <1>1, <2>3, SortedPlace
  <2>5. x = m
    BY <2>1, <2>4 DEF GoesBehind, UniqueIds
  <2>6. NewPlace(x, m) = m /\ m \in Nat
    BY <1>1, <2>5 DEF NewPlace
  <2> QED BY <1>5, <1>6, <2>5, <2>6
<1>7. ASSUME NEW n \in DOMAIN rows, j = NewPlace(x, n), SameLine(rows'[j], rows[n])
      PROVE  j = i + 1
  <2>1. rows[n].index = 1 /\ rows[m].id = rows[n].parent /\ rows[n].parent # 0
    BY <1>2, <1>5, <1>7 DEF SameLine
  <2>2. n = m + 1
    BY <2>1 DEF SecondLineFollows
  <2>3. /\ rows[m].source = rows[n].source /\ rows[m].parent = 0
        /\ rows[m].stamp = rows[n].pstamp
    BY <2>1 DEF ParentRows
  <2>4. rows[m].pstamp = 0 /\ rows[m].index = 0 /\ rows[n].stamp = 0
    BY <2>1, <2>3 DEF RowFields
  <2>5. StampOf(rows[m]) = StampOf(rows[n])
    BY <2>3, <2>4 DEF StampOf
  <2>6. m \in 1 .. Len(rows) /\ n \in 1 .. Len(rows) /\ Len(rows) \in Nat
    BY <1>1
  <2>7. x # m
    <3> SUFFICES ASSUME x = m PROVE FALSE
      OBVIOUS
    <3>1. GoesBehind(rows[m], e) /\ ~GoesBehind(rows[n], e)
      <4>1. x # Len(rows) /\ ~(n <= x)
        BY <2>2, <2>6
      <4>2. /\ GoesBehind(rows[x], e)
            /\ \A y \in DOMAIN rows : GoesBehind(rows[y], e) => y <= x
        BY <1>1, <4>1, SortedPlace
      <4> QED BY <4>1, <4>2
    <3>2. CASE e.parent # 0
      <4>1. /\ rows[m].id = e.parent /\ e.index - 1 = rows[m].index
            /\ e.parent = loop[k].parent /\ e.index = loop[k].index + 1
        BY <1>1, <3>1, <3>2 DEF GoesBehind, NextLine
      <4>2. rows[n].source = k /\ rows[n].parent = loop[k].parent
        BY <2>1, <2>3, <4>1 DEF ParserParent
      <4>3. rows[n].index <= loop[k].index
        BY <2>1, <4>2 DEF ParserIndex
      <4> QED BY <1>4, <2>1, <2>4, <4>1, <4>3
    <3>3. CASE e.parent = 0
      BY <2>5, <3>1, <3>3 DEF GoesBehind
    <3> QED BY <3>2, <3>3
  <2> QED BY <1>1, <1>5, <1>7, <2>2, <2>7, PlacesKeepOrder
<1> QED BY <1>1, <1>6, <1>7, NewOrOld
\* What is shown stays shown, and the new line is.
LEMMA ShownInserted ==
    ASSUME TypeOK, NEW k \in Source, NEW e, NEW x, InsertOf(k, e, x)
    PROVE  /\ \A i \in DOMAIN rows : \E h \in DOMAIN rows' : rows'[h].id = rows[i].id
           /\ \E h \in DOMAIN rows' : rows'[h].id = ids + 1
<1>1. Inserted(e, x) /\ e.id = ids + 1
  BY DEF InsertOf, NextLine
<1>2. x + 1 \in DOMAIN rows'
  BY <1>1 DEF Inserted, TypeOK
<1> QED BY <1>1, <1>2 DEF Inserted, SameLine

\* The numbers the rows and the parsers hold.
LEMMA Bounds ==
    ASSUME TypeOK, Sources, RowFields
    PROVE  /\ ids \in Nat
           /\ \A m \in DOMAIN rows : /\ rows[m].id \in 1 .. ids
                                      /\ rows[m].parent \in 0 .. ids
           /\ \A h \in Source : loop[h].parent \in 0 .. ids
<1>1. ids \in Nat
  BY DEF TypeOK
<1>2. ASSUME NEW m \in DOMAIN rows
      PROVE  rows[m].id \in 1 .. ids /\ rows[m].parent \in 0 .. ids
  <2>1. rows[m] \in Row
    BY DEF TypeOK
  <2> QED BY <1>1, <2>1, RowTypes DEF RowFields
<1>3. ASSUME NEW h \in Source PROVE loop[h].parent \in 0 .. ids
  <2>1. loop[h].parent \in Nat /\ loop[h].parent <= ids
    BY DEF TypeOK, Parser, Sources
  <2> QED BY <1>1, <2>1
<1> QED BY <1>1, <1>2, <1>3

\* A new line belongs to the entry of its parser or begins one.
LEMMA EntryLinesInserted ==
    ASSUME TypeOK, Sources, RowFields, ParserLines, EntryLines,
           NEW k \in Source, NEW e, NEW x, InsertOf(k, e, x)
    PROVE  EntryLines'
<1> DEFINE Good(i, j) ==
             /\ rows'[j].parent < rows'[i].id /\ rows'[i].id < rows'[j].id =>
                  rows'[i].parent = rows'[j].parent
             /\ rows'[i].parent = rows'[j].parent => rows'[i].pstamp = rows'[j].pstamp
             /\ rows'[i].id < rows'[j].parent =>
                  \E h \in DOMAIN rows' : rows'[h].id = rows'[j].parent
<1> SUFFICES ASSUME NEW i \in DOMAIN rows', NEW j \in DOMAIN rows',
                    rows'[i].source = rows'[j].source, rows'[j].parent # 0
             PROVE  Good(i, j)
  BY DEF EntryLines
<1>1. Inserted(e, x) /\ NextLine(k, e)
  BY DEF InsertOf
<1>2. /\ ids \in Nat
      /\ \A m \in DOMAIN rows : rows[m].id \in 1 .. ids /\ rows[m].parent \in 0 .. ids
      /\ loop[k].parent \in 0 .. ids
  BY Bounds
<1>3. \A m \in DOMAIN rows : \E h \in DOMAIN rows' : rows'[h].id = rows[m].id
  BY ShownInserted
<1>4. CASE SameLine(rows'[j], e)
  <2>1. /\ rows'[j].id = ids + 1 /\ rows'[j].source = k
        /\ rows'[j].parent = loop[k].parent /\ loop[k].parent # 0
        /\ rows'[j].pstamp = loop[k].pstamp
    BY <1>1, <1>4 DEF SameLine, NextLine
  <2>2. CASE SameLine(rows'[i], e)
    <3>1. rows'[i].id = rows'[j].id /\ rows'[i].pstamp = rows'[j].pstamp
      BY <1>4, <2>2 DEF SameLine
    <3> QED BY <1>2, <2>1, <3>1
  <2>3. ASSUME NEW m \in DOMAIN rows, SameLine(rows'[i], rows[m]) PROVE Good(i, j)
    <3>1. /\ rows'[i].id = rows[m].id /\ rows'[i].parent = rows[m].parent
          /\ rows'[i].pstamp = rows[m].pstamp /\ rows[m].source = k
      BY <2>1, <2>3 DEF SameLine
    <3>2. /\ rows[m].id > loop[k].parent => rows[m].parent = loop[k].parent
          /\ rows[m].parent = loop[k].parent => rows[m].pstamp = loop[k].pstamp
          /\ rows[m].id < loop[k].parent => \E h \in DOMAIN rows : rows[h].id = loop[k].parent
      BY <2>1, <3>1 DEF ParserLines
    <3>3. rows[m].id \in Nat /\ loop[k].parent \in Nat
      BY <1>2
    <3> QED BY <1>3, <2>1, <3>1, <3>2, <3>3
  <2> QED BY <1>1, <2>2, <2>3, NewOrOld
<1>5. ASSUME NEW n \in DOMAIN rows, SameLine(rows'[j], rows[n]) PROVE Good(i, j)
  <2>1. /\ rows'[j].id = rows[n].id /\ rows'[j].parent = rows[n].parent
        /\ rows'[j].pstamp = rows[n].pstamp /\ rows'[j].source = rows[n].source
    BY <1>5 DEF SameLine
  <2>2. CASE SameLine(rows'[i], e)
    <3>1. /\ rows'[i].id = ids + 1 /\ rows'[i].parent = e.parent
          /\ rows'[i].pstamp = e.pstamp /\ rows[n].source = k
      BY <1>1, <2>1, <2>2 DEF SameLine, NextLine
    <3>2. ~(rows'[i].id < rows'[j].id) /\ ~(rows'[i].id < rows'[j].parent)
      BY <1>2, <2>1, <3>1
    <3>3. ASSUME rows'[i].parent = rows'[j].parent PROVE rows'[i].pstamp = rows'[j].pstamp
      <4>1. e.parent # 0 /\ e.parent = rows[n].parent
        BY <2>1, <3>1, <3>3
      <4>2. e.parent = loop[k].parent /\ e.pstamp = loop[k].pstamp
        BY <1>1, <4>1 DEF NextLine
      <4> QED BY <2>1, <3>1, <4>1, <4>2 DEF ParserLines
    <3> QED BY <3>2, <3>3
  <2>3. ASSUME NEW m \in DOMAIN rows, SameLine(rows'[i], rows[m]) PROVE Good(i, j)
    <3>1. /\ rows'[i].id = rows[m].id /\ rows'[i].parent = rows[m].parent
          /\ rows'[i].pstamp = rows[m].pstamp /\ rows[m].source = rows[n].source
      BY <2>1, <2>3 DEF SameLine
    <3>2. /\ rows[n].parent < rows[m].id /\ rows[m].id < rows[n].id =>
               rows[m].parent = rows[n].parent
          /\ rows[m].parent = rows[n].parent => rows[m].pstamp = rows[n].pstamp
          /\ rows[m].id < rows[n].parent => \E h \in DOMAIN rows : rows[h].id = rows[n].parent
      BY <2>1, <3>1 DEF EntryLines
    <3> QED BY <1>3, <2>1, <3>1, <3>2
  <2> QED BY <1>1, <2>2, <2>3, NewOrOld
<1> QED BY <1>1, <1>4, <1>5, NewOrOld

LEMMA ParserLinesInserted ==
    ASSUME TypeOK, Sources, RowFields, ParserLines,
           NEW k \in Source, NEW e, NEW x, InsertOf(k, e, x)
    PROVE  ParserLines'
<1> DEFINE Good(h, j) ==
             /\ rows'[j].id > loop'[h].parent => rows'[j].parent = loop'[h].parent
             /\ rows'[j].parent = loop'[h].parent => rows'[j].pstamp = loop'[h].pstamp
             /\ rows'[j].id < loop'[h].parent =>
                  \E i \in DOMAIN rows' : rows'[i].id = loop'[h].parent
<1> SUFFICES ASSUME NEW h \in Source, NEW j \in DOMAIN rows',
                    rows'[j].source = h, loop'[h].parent # 0
             PROVE  Good(h, j)
  BY DEF ParserLines
<1>1. Inserted(e, x) /\ NextLine(k, e) /\ ParserStep(k, e)
  BY DEF InsertOf
<1>2. /\ ids \in Nat
      /\ \A m \in DOMAIN rows : rows[m].id \in 1 .. ids /\ rows[m].parent \in 0 .. ids
      /\ \A g \in Source : loop[g].parent \in 0 .. ids
  BY Bounds
<1>3. /\ \A m \in DOMAIN rows : \E i \in DOMAIN rows' : rows'[i].id = rows[m].id
      /\ \E i \in DOMAIN rows' : rows'[i].id = ids + 1
  BY ShownInserted
<1>4. CASE SameLine(rows'[j], e)
  <2>1. /\ rows'[j].id = ids + 1 /\ rows'[j].parent = e.parent
        /\ rows'[j].pstamp = e.pstamp /\ h = k
    BY <1>1, <1>4 DEF SameLine, NextLine
  <2>2. CASE e.parent # 0
    <3>1. /\ loop'[h].parent = loop[k].parent /\ loop'[h].pstamp = loop[k].pstamp
          /\ e.parent = loop[k].parent /\ e.pstamp = loop[k].pstamp
      BY <1>1, <2>1, <2>2 DEF ParserStep, NextLine
    <3> QED BY <1>2, <2>1, <3>1
  <2>3. CASE e.parent = 0
    <3>1. loop'[h].parent = ids + 1
      BY <1>1, <2>1, <2>3 DEF ParserStep
    <3> QED BY <1>2, <2>1, <2>3, <3>1
  <2> QED BY <2>2, <2>3
<1>5. ASSUME NEW m \in DOMAIN rows, SameLine(rows'[j], rows[m]) PROVE Good(h, j)
  <2>1. /\ rows'[j].id = rows[m].id /\ rows'[j].parent = rows[m].parent
        /\ rows'[j].pstamp = rows[m].pstamp /\ rows[m].source = h
    BY <1>5 DEF SameLine
  <2>2. CASE h # k \/ e.parent # 0
    <3>1. loop'[h].parent = loop[h].parent /\ loop'[h].pstamp = loop[h].pstamp
      BY <1>1, <2>2 DEF ParserStep
    <3>2. /\ rows[m].id > loop[h].parent => rows[m].parent = loop[h].parent
          /\ rows[m].parent = loop[h].parent => rows[m].pstamp = loop[h].pstamp
          /\ rows[m].id < loop[h].parent => \E i \in DOMAIN rows : rows[i].id = loop[h].parent
      BY <2>1, <3>1 DEF ParserLines
    <3> QED BY <1>3, <2>1, <3>1, <3>2
  <2>3. CASE h = k /\ e.parent = 0
    <3>1. loop'[h].parent = ids + 1
      BY <1>1, <2>3 DEF ParserStep
    <3>2. rows[m].id \in 1 .. ids /\ rows[m].parent \in 0 .. ids
      BY <1>2
    <3> QED BY <1>2, <1>3, <2>1, <3>1, <3>2
  <2> QED BY <2>2, <2>3
<1> QED BY <1>1, <1>4, <1>5, NewOrOld

\* The new line comes from the batch that is posted.
LEMMA StaleInserted ==
    ASSUME TypeOK, StaleBatches, NEW k \in Source, NEW e, NEW x, InsertOf(k, e, x)
    PROVE  StaleBatches'
<1>1. Inserted(e, x) /\ NextLine(k, e) /\ ParserStep(k, e) /\ closed' = closed
  BY DEF InsertOf
<1> SUFFICES ASSUME NEW h \in closed
             PROVE  /\ h \in Source /\ loop'[h].cancelled
                    /\ \A j \in DOMAIN rows' :
                         rows'[j].source = h => rows'[j].batch = loop'[h].batch
  BY <1>1 DEF StaleBatches
<1>2. h \in Source /\ loop[h].cancelled
  BY DEF StaleBatches
<1>3. loop'[h].cancelled = loop[h].cancelled /\ loop'[h].batch = loop[h].batch
  BY <1>1, <1>2 DEF ParserStep
<1>4. ASSUME NEW j \in DOMAIN rows', rows'[j].source = h
      PROVE  rows'[j].batch = loop[h].batch
  <2>1. CASE SameLine(rows'[j], e)
    BY <1>1, <1>4, <2>1 DEF SameLine, NextLine
  <2>2. ASSUME NEW m \in DOMAIN rows, SameLine(rows'[j], rows[m])
        PROVE  rows'[j].batch = loop[h].batch
    BY <1>4, <2>2 DEF SameLine, StaleBatches
  <2> QED BY <1>1, <2>1, <2>2, NewOrOld
<1> QED BY <1>2, <1>3, <1>4

\* The new line is the last that arrived.
LEMMA ArrivedInserted ==
    ASSUME TypeOK, ArrivedRows, NEW k \in Source, NEW e, NEW x, InsertOf(k, e, x)
    PROVE  ArrivedRows'
<1>1. /\ ids \in Nat /\ Inserted(e, x) /\ NextLine(k, e) /\ arrived \in Seq(Nat)
      /\ arrived' = Append(arrived, ids + 1) /\ ids' = ids + 1
      /\ rows \in Seq(Row) /\ rows' \in Seq(Row)
  BY DEF InsertOf, TypeOK, Inserted
<1> DEFINE N == Len(arrived)
<1>2. /\ N \in Nat /\ Len(arrived') = N + 1 /\ arrived'[N + 1] = ids + 1
      /\ DOMAIN arrived' = 1 .. N + 1 /\ DOMAIN arrived = 1 .. N
      /\ \A n \in 1 .. N : arrived'[n] = arrived[n] /\ arrived[n] \in Nat
  BY <1>1
<1>3. Len(rows') = N + 1
  <2>1. DOMAIN rows' = 1 .. Len(rows) + 1 /\ Len(rows) = N
    BY <1>1 DEF Inserted, ArrivedRows
  <2> QED BY <1>1, <1>2, <2>1
<1>4. \A i \in DOMAIN rows : \E j \in DOMAIN rows' : rows'[j].id = rows[i].id
  BY <1>1 DEF Inserted, SameLine
<1>5. \E j \in DOMAIN rows' : rows'[j].id = ids + 1
  <2>1. x + 1 \in DOMAIN rows'
    BY <1>1 DEF Inserted, TypeOK
  <2> QED BY <1>1, <2>1 DEF Inserted, SameLine, NextLine
<1> HIDE DEF N
<1>6. ids \in Nat /\ ids' = ids + 1
  BY <1>1
<1>7. ASSUME NEW n \in 1 .. N + 1
      PROVE  /\ arrived'[n] <= ids'
             /\ \A m \in 1 .. n - 1 : arrived'[m] < arrived'[n]
             /\ \E i \in DOMAIN rows' : rows'[i].id = arrived'[n]
  <2>1. \A y \in 1 .. N : /\ arrived[y] <= ids
                          /\ \A m \in 1 .. y - 1 : arrived[m] < arrived[y]
                          /\ \E i \in DOMAIN rows : rows[i].id = arrived[y]
    BY <1>2 DEF ArrivedRows
  <2>2. CASE n = N + 1
    <3>1. arrived'[n] = ids + 1
      BY <1>2, <2>2
    <3>2. ASSUME NEW m \in 1 .. n - 1 PROVE arrived'[m] < arrived'[n]
      <4>1. m \in 1 .. N
        BY <1>2, <2>2
      <4>2. arrived'[m] = arrived[m] /\ arrived[m] \in Nat /\ arrived[m] <= ids
        BY <1>2, <2>1, <4>1
      <4> QED BY <1>6, <3>1, <4>2
    <3>3. arrived'[n] <= ids'
      BY <1>6, <3>1
    <3> QED BY <1>5, <3>1, <3>2, <3>3
  <2>3. CASE n \in 1 .. N
    <3>1. arrived'[n] = arrived[n] /\ arrived[n] \in Nat
      BY <1>2, <2>3
    <3>2. ASSUME NEW m \in 1 .. n - 1 PROVE arrived'[m] < arrived'[n]
      <4>1. m \in 1 .. N
        BY <1>2, <2>3
      <4> QED BY <1>2, <2>1, <2>3, <3>1, <4>1
    <3>3. \E i \in DOMAIN rows' : rows'[i].id = arrived[n]
      BY <1>4, <2>1, <2>3
    <3>4. arrived'[n] <= ids'
      BY <1>6, <2>1, <2>3, <3>1
    <3> QED BY <3>1, <3>2, <3>3, <3>4
  <2> QED BY <1>2, <2>2, <2>3
<1>8. ASSUME NEW j \in DOMAIN rows'
      PROVE  \E n \in 1 .. N + 1 : arrived'[n] = rows'[j].id
  <2>1. CASE SameLine(rows'[j], e)
    <3>1. rows'[j].id = ids + 1 /\ N + 1 \in 1 .. N + 1
      BY <1>1, <1>2, <2>1 DEF SameLine, NextLine
    <3> QED BY <1>2, <3>1
  <2>2. ASSUME NEW m \in DOMAIN rows, SameLine(rows'[j], rows[m])
        PROVE  \E n \in 1 .. N + 1 : arrived'[n] = rows'[j].id
    <3>1. PICK n \in 1 .. N : arrived[n] = rows[m].id
      BY <1>2 DEF ArrivedRows
    <3>2. n \in 1 .. N + 1 /\ arrived'[n] = arrived[n]
      BY <1>2
    <3> QED BY <2>2, <3>1, <3>2 DEF SameLine
  <2> QED BY <1>1, <2>1, <2>2, NewOrOld
<1>9. /\ Len(arrived') = Len(rows') /\ DOMAIN arrived' = 1 .. N + 1
  BY <1>2, <1>3
<1> QED BY <1>7, <1>8, <1>9 DEF ArrivedRows
\* What came before an orderly line of one log was orderly and of that log.
LEMMA OrderlyBefore ==
    ASSUME TypeOK, NEW k \in Source, NEW e, NEW x, InsertOf(k, e, x),
           Orderly', SameLog'
    PROVE  Orderly /\ SameLog
<1>1. \A i \in DOMAIN rows : /\ NewPlace(x, i) \in DOMAIN rows'
                             /\ SameLine(rows'[NewPlace(x, i)], rows[i])
  BY DEF InsertOf, Inserted
<1>2. SameLog
  BY <1>1 DEF SameLog, SameLine
<1>3. CASE \A j \in DOMAIN rows' : rows'[j].stamp = 0
  BY <1>1, <1>2, <1>3 DEF Orderly, SameLine
<1>4. CASE /\ \A i, j \in DOMAIN rows' :
                rows'[i].stamp # 0 /\ rows'[j].stamp # 0 /\ rows'[i].id < rows'[j].id =>
                  rows'[i].stamp < rows'[j].stamp
           /\ \A i \in DOMAIN rows' : rows'[i].stamp # 0 \/ rows'[i].parent # 0
  <2>1. ASSUME NEW i \in DOMAIN rows, NEW j \in DOMAIN rows,
               rows[i].stamp # 0, rows[j].stamp # 0, rows[i].id < rows[j].id
        PROVE  rows[i].stamp < rows[j].stamp
    <3> DEFINE m == NewPlace(x, i)
               n == NewPlace(x, j)
    <3>1. /\ m \in DOMAIN rows' /\ n \in DOMAIN rows'
          /\ SameLine(rows'[m], rows[i]) /\ SameLine(rows'[n], rows[j])
      BY <1>1
    <3> HIDE DEF m, n
    <3> QED BY <1>4, <2>1, <3>1 DEF SameLine
  <2>2. \A i \in DOMAIN rows : rows[i].stamp # 0 \/ rows[i].parent # 0
    BY <1>1, <1>4 DEF SameLine
  <2> QED BY <1>2, <2>1, <2>2 DEF Orderly
<1> QED BY <1>3, <1>4 DEF Orderly

\* A line that comes in order goes to the end: a first line because the row at
\* the end has an earlier timestamp, its own or its parent's, or because all
\* the rows belong to an entry whose first line is not shown; a further line
\* because its parent is at the end or has lines already.
LEMMA OrderlyAtEnd ==
    ASSUME TypeOK, Sources, RowFields, ParentRows, ParserParent, ParserIndex,
           EntryLines, NEW k \in Source,
           NEW e, NEW x, InsertOf(k, e, x), x = InsertSorted(rows, e),
           Orderly', SameLog',
           \A i, j \in DOMAIN rows : i < j => rows[i].id < rows[j].id
    PROVE  x = Len(rows)
<1> DEFINE N == Len(rows)
<1> SUFFICES ASSUME x # N PROVE FALSE
  OBVIOUS
<1>1. /\ ids \in Nat /\ Inserted(e, x) /\ NextLine(k, e) /\ rows \in Seq(Row)
      /\ e \in Row
  BY DEF InsertOf, TypeOK, NextLine
<1>2. /\ x \in DOMAIN rows /\ GoesBehind(rows[x], e)
      /\ \A i \in DOMAIN rows : GoesBehind(rows[i], e) => i <= x
  BY <1>1, SortedPlace
<1>3. N \in DOMAIN rows /\ x < N
  BY <1>1, <1>2
<1>4. ~GoesBehind(rows[N], e)
  BY <1>1, <1>2, <1>3
<1>5. rows[x].id < rows[N].id
  BY <1>2, <1>3
<1> HIDE DEF N
<1>6. x + 1 \in DOMAIN rows' /\ SameLine(rows'[x + 1], e)
  BY <1>1, <1>2 DEF Inserted
<1>7. \A i \in DOMAIN rows : /\ NewPlace(x, i) \in DOMAIN rows'
                             /\ SameLine(rows'[NewPlace(x, i)], rows[i])
  BY <1>1 DEF Inserted
<1>8. rows[N].source = k /\ rows[x].source = k
  <2> SUFFICES ASSUME NEW i \in DOMAIN rows PROVE rows[i].source = k
    BY <1>2, <1>3
  <2>1. rows'[NewPlace(x, i)].source = rows'[x + 1].source
    BY <1>6, <1>7 DEF SameLog
  <2> QED BY <1>1, <1>6, <1>7, <2>1 DEF SameLine, NextLine
<1>9. CASE e.parent # 0
  <2>1. /\ rows[x].id = loop[k].parent /\ loop[k].parent # 0
        /\ e.index = loop[k].index + 1 /\ e.index - 1 = rows[x].index
    BY <1>1, <1>2, <1>9 DEF GoesBehind, NextLine
  <2>2. rows[x].index = 0
    <3>1. rows[x].parent = 0
      BY <1>2, <2>1 DEF ParserParent
    <3> QED BY <1>2, <3>1 DEF RowFields
  <2>3. loop[k].index > 0
    BY <1>3, <1>5, <1>8, <2>1 DEF ParserIndex
  <2>4. loop[k].index \in Nat
    BY DEF TypeOK, Parser
  <2> QED BY <2>1, <2>2, <2>3, <2>4
<1>10. CASE e.parent = 0
  <2>1. e.stamp # 0
    BY <1>2, <1>10 DEF GoesBehind
  <2>2. ~(\A j \in DOMAIN rows' : rows'[j].stamp = 0)
    BY <1>6, <2>1 DEF SameLine
  <2>3. ASSUME NEW i \in DOMAIN rows, rows[i].stamp # 0
        PROVE  rows[i].stamp < e.stamp
    <3> DEFINE m == NewPlace(x, i)
    <3>1. m \in DOMAIN rows' /\ SameLine(rows'[m], rows[i])
      BY <1>7
    <3> HIDE DEF m
    <3>2. rows[i].id < e.id
      BY <1>1 DEF RowFields, NextLine
    <3>3. /\ rows'[m].stamp # 0 /\ rows'[x + 1].stamp # 0
          /\ rows'[m].id < rows'[x + 1].id
      BY <1>6, <2>1, <2>3, <3>1, <3>2 DEF SameLine
    <3>4. rows'[m].stamp < rows'[x + 1].stamp
      BY <1>6, <2>2, <3>1, <3>3 DEF Orderly
    <3> QED BY <1>6, <3>1, <3>4 DEF SameLine
  <2>4. ASSUME NEW i \in DOMAIN rows PROVE rows[i].stamp # 0 \/ rows[i].parent # 0
    <3> DEFINE m == NewPlace(x, i)
    <3>1. m \in DOMAIN rows' /\ SameLine(rows'[m], rows[i])
      BY <1>7
    <3> HIDE DEF m
    <3> QED BY <2>2, <3>1 DEF Orderly, SameLine
  <2>5. CASE rows[N].stamp # 0
    BY <1>3, <1>4, <1>10, <2>1, <2>3, <2>5 DEF GoesBehind, StampOf
  <2>6. CASE rows[N].stamp = 0
    <3>1. rows[N].parent # 0
      BY <1>3, <2>4, <2>6
    <3>2. ASSUME NEW p \in DOMAIN rows, rows[p].id = rows[N].parent PROVE FALSE
      <4>1. rows[p].parent = 0 /\ rows[p].stamp = rows[N].pstamp
        BY <1>3, <3>2 DEF ParentRows
      <4>2. rows[p].stamp # 0 /\ rows[p].stamp < e.stamp
        BY <2>3, <2>4, <4>1
      <4> QED BY <1>4, <1>10, <2>1, <2>6, <4>1, <4>2 DEF GoesBehind, StampOf
    <3>3. ASSUME \A p \in DOMAIN rows : rows[p].id # rows[N].parent PROVE FALSE
      <4>1. rows[x].id \in Nat /\ rows[N].parent \in Nat
        BY <1>2, <1>3, Bounds
      <4>2. rows[x].id # rows[N].parent /\ ~(rows[x].id < rows[N].parent)
        BY <1>2, <1>3, <1>8, <3>1, <3>3 DEF EntryLines
      <4>3. rows[N].parent < rows[x].id
        BY <4>1, <4>2
      <4>4. rows[x].parent = rows[N].parent
        BY <1>2, <1>3, <1>5, <1>8, <3>1, <4>3 DEF EntryLines
      <4>5. rows[x].pstamp = rows[N].pstamp
        BY <1>2, <1>3, <1>8, <3>1, <4>4 DEF EntryLines
      <4>6. rows[x].stamp = 0
        BY <1>2, <3>1, <4>4 DEF RowFields
      <4> QED BY <1>2, <1>4, <1>10, <2>6, <4>5, <4>6 DEF GoesBehind, StampOf
    <3> QED BY <3>2, <3>3
  <2> QED BY <2>5, <2>6
<1> QED BY <1>9, <1>10

\* So lines that come in order are shown in that order.
LEMMA OrderInserted ==
    ASSUME TypeOK, Sources, RowFields, ParentRows, ParserParent, ParserIndex,
           EntryLines, ArrivedRows, RowsInOrder, NEW k \in Source,
           NEW e, NEW x, InsertOf(k, e, x), x = InsertSorted(rows, e)
    PROVE  RowsInOrder'
<1> SUFFICES ASSUME Orderly', SameLog'
             PROVE  \A n \in DOMAIN arrived' : rows'[n].id = arrived'[n]
  BY DEF RowsInOrder
<1>1. \A n \in DOMAIN arrived : rows[n].id = arrived[n]
  BY OrderlyBefore DEF RowsInOrder
<1>2. /\ arrived \in Seq(Nat) /\ rows \in Seq(Row) /\ ids \in Nat
      /\ Len(arrived) = Len(rows)
  BY DEF TypeOK, ArrivedRows
<1>3. \A i, j \in DOMAIN rows : i < j => rows[i].id < rows[j].id
  <2> SUFFICES ASSUME NEW i \in DOMAIN rows, NEW j \in DOMAIN rows, i < j
               PROVE  rows[i].id < rows[j].id
    OBVIOUS
  <2>1. i \in DOMAIN arrived /\ j \in DOMAIN arrived /\ i \in 1 .. j - 1
    BY <1>2
  <2>2. arrived[i] < arrived[j]
    BY <2>1 DEF ArrivedRows
  <2> QED BY <1>1, <2>1, <2>2
<1>4. x = Len(rows)
  BY <1>3, OrderlyAtEnd
<1>5. /\ Inserted(e, x) /\ NextLine(k, e) /\ arrived' = Append(arrived, ids + 1)
  BY DEF InsertOf
<1>6. SUFFICES ASSUME NEW n \in DOMAIN arrived' PROVE rows'[n].id = arrived'[n]
  OBVIOUS
<1>7. n \in 1 .. Len(arrived) + 1
  BY <1>2, <1>5
<1>8. CASE n = Len(arrived) + 1
  <2>1. arrived'[n] = ids + 1 /\ n = x + 1
    BY <1>2, <1>4, <1>5, <1>8
  <2> QED BY <1>5, <2>1 DEF Inserted, SameLine, NextLine
<1>9. CASE n \in 1 .. Len(arrived)
  <2>1. arrived'[n] = arrived[n] /\ n \in DOMAIN arrived /\ n \in DOMAIN rows
    BY <1>2, <1>5, <1>9
  <2>2. NewPlace(x, n) = n
    BY <1>2, <1>4, <2>1 DEF NewPlace
  <2>3. rows'[n].id = rows[n].id
    BY <1>5, <2>1, <2>2 DEF Inserted, SameLine
  <2> QED BY <1>1, <2>1, <2>3
<1> QED BY <1>2, <1>7, <1>8, <1>9
\* The number of the new row follows that of the row before it, or is the
\* first, and the rows behind it are counted up.
LEMMA NumbersInserted ==
    ASSUME TypeOK, PostedIsRead, RowFields, Numbered,
           NEW k \in Source, NEW kind \in Kind, InsertLine(k, kind)
    PROVE  Numbered'
<1> DEFINE e == CreateLogEntry(k, kind, ids + 1)
           x == InsertSorted(rows, e)
           first == IF base = 0 THEN LineNumber(k) ELSE base
<1>1. rows' = InsertLogEntry(rows, x, e, first) /\ base' = first /\ ids' = ids + 1
  BY DEF InsertLine
<1>2. rows \in Seq(Row) /\ e \in Row /\ base \in Nat /\ ids \in Nat
  BY EntryFields DEF TypeOK
<1>3. x \in 0 .. Len(rows)
  BY <1>2, PlaceInRows
<1>4. first \in Nat /\ first # 0
  BY <1>2, FirstIsNumber
<1>A. Inserted(e, x) /\ e.id = ids + 1 /\ e.source = k
  BY InsertedRows, EntryFields
<1>B. ids = 0 => first = FirstNumber[k]
  BY FirstIsNumber DEF Numbered
<1> HIDE DEF e, x
<1>5. rows = <<>> \/ first = base
  BY DEF Numbered
<1> HIDE DEF first
<1>6. RowsAfter(rows, x, e, first, rows')
  BY <1>1, <1>2, <1>3, <1>4, InsertRows
<1>7. /\ Len(rows) \in Nat /\ DOMAIN rows = 1 .. Len(rows)
      /\ DOMAIN rows' = 1 .. Len(rows) + 1
  BY <1>2, <1>6 DEF RowsAfter
<1>8. \A i \in 1 .. Len(rows) : rows[i].number = first + i - 1
  <2>1. CASE rows = <<>>
    BY <1>7, <2>1
  <2>2. CASE first = base
    BY <1>7, <2>2 DEF Numbered
  <2> QED BY <1>5, <2>1, <2>2
<1>9. ASSUME NEW j \in 1 .. Len(rows) + 1 PROVE rows'[j].number = first + j - 1
  <2>1. CASE j <= x
    <3>1. j \in 1 .. x /\ j \in 1 .. Len(rows)
      BY <1>3, <1>7, <2>1
    <3> QED BY <1>6, <1>8, <3>1 DEF RowsAfter
  <2>2. CASE j = x + 1
    <3>1. rows'[x + 1].number = IF x = 0 THEN first ELSE rows[x].number + 1
      BY <1>6 DEF RowsAfter
    <3>2. x # 0 => x \in 1 .. Len(rows)
      BY <1>3, <1>7
    <3>3. x # 0 => rows[x].number = first + x - 1
      BY <1>8, <3>2
    <3> QED BY <1>3, <1>4, <2>2, <3>1, <3>3
  <2>3. CASE j > x + 1
    <3> DEFINE i == j - 1
    <3>1. i \in x + 1 .. Len(rows) /\ i \in 1 .. Len(rows) /\ j = i + 1
      BY <1>3, <1>7, <2>3
    <3> HIDE DEF i
    <3>2. rows'[i + 1].number = rows[i].number + 1
      BY <1>6, <3>1 DEF RowsAfter
    <3>3. rows[i].number = first + i - 1
      BY <1>8, <3>1
    <3> QED BY <1>4, <3>1, <3>2, <3>3
  <2> QED BY <1>3, <1>7, <2>1, <2>2, <2>3
<1>10. ASSUME NEW j \in DOMAIN rows', rows'[j].id = 1
       PROVE  first = FirstNumber[rows'[j].source]
  <2>1. CASE SameLine(rows'[j], e)
    <3>1. ids = 0 /\ rows'[j].source = k
      BY <1>2, <1>10, <1>A, <2>1 DEF SameLine
    <3> QED BY <1>B, <3>1
  <2>2. ASSUME NEW m \in DOMAIN rows, SameLine(rows'[j], rows[m])
        PROVE  first = FirstNumber[rows'[j].source]
    <3>1. rows[m].id = 1 /\ rows[m].source = rows'[j].source /\ rows # <<>>
      BY <1>10, <2>2 DEF SameLine
    <3>2. base = FirstNumber[rows[m].source]
      BY <3>1 DEF Numbered
    <3> QED BY <1>5, <3>1, <3>2
  <2> QED BY <1>A, <2>1, <2>2, NewOrOld
<1>11. ids' # 0
  BY <1>1, <1>2
<1> QED BY <1>1, <1>4, <1>7, <1>9, <1>10, <1>11 DEF Numbered

-----------------------------------------------------------------------------
(* The other steps.                                                        *)

\* The enumerations move on or are cancelled; none posts a batch, and no parser
\* reads on.
Moves ==
    /\ loop' \in [Source -> Parser]
    /\ ids' = ids /\ base' = base
    /\ \A h \in Source :
         /\ loop'[h].parent = loop[h].parent /\ loop'[h].pstamp = loop[h].pstamp
         /\ loop'[h].index = loop[h].index /\ loop'[h].read = loop[h].read
         /\ loop'[h].left = loop[h].left /\ loop'[h].batch = loop[h].batch
         /\ loop[h].cancelled => loop'[h].cancelled
         /\ loop'[h].at = "posted" <=> loop[h].at = "posted"

\* What Cancel changes.
LEMMA CancelFields ==
    ASSUME TypeOK, NEW token, NEW h \in Source
    PROVE  LET q == Cancel(token)[h]
           IN  /\ q \in Parser /\ q.at = loop[h].at /\ q.parent = loop[h].parent
               /\ q.pstamp = loop[h].pstamp /\ q.index = loop[h].index
               /\ q.read = loop[h].read /\ q.left = loop[h].left
               /\ q.batch = loop[h].batch
               /\ q.cancelled = Cancelled(h, token)
<1> DEFINE p == loop[h]
           b == Cancelled(h, token)
           q == [p EXCEPT !.cancelled = b]
<1>1. p \in Parser
  BY DEF TypeOK
<1>2. b \in BOOLEAN
  BY Zenon DEF Cancelled
<1>3. Cancel(token)[h] = q
  BY DEF Cancel
<1> HIDE DEF p, b
<1>4. q \in Parser
  BY <1>1, <1>2 DEF Parser
<1>5. /\ q.at = p.at /\ q.parent = p.parent /\ q.pstamp = p.pstamp
      /\ q.index = p.index /\ q.read = p.read /\ q.left = p.left /\ q.batch = p.batch
  BY <1>1 DEF Parser
<1>6. q.cancelled = b
  BY <1>1 DEF Parser
<1> QED BY <1>3, <1>4, <1>5, <1>6 DEF p, b

\* A token is cancelled, and nothing else happens to the enumerations.
LEMMA CancelMoves ==
    ASSUME TypeOK, NEW token, loop' = Cancel(token), ids' = ids, base' = base
    PROVE  Moves /\ \A h \in Source : Cancelled(h, token) => loop'[h].cancelled
<1>1. loop' \in [Source -> Parser]
  <2>1. loop' = [h \in Source |-> loop'[h]]
    BY DEF Cancel
  <2>2. \A h \in Source : loop'[h] \in Parser
    BY CancelFields
  <2> QED BY <2>1, <2>2
<1>2. ASSUME NEW h \in Source
      PROVE  /\ loop'[h].parent = loop[h].parent /\ loop'[h].pstamp = loop[h].pstamp
             /\ loop'[h].index = loop[h].index /\ loop'[h].read = loop[h].read
             /\ loop'[h].left = loop[h].left /\ loop'[h].batch = loop[h].batch
             /\ loop'[h].at = loop[h].at /\ loop'[h].cancelled = Cancelled(h, token)
  BY CancelFields
<1>3. \A h \in Source : loop[h].cancelled => Cancelled(h, token)
  BY DEF Cancelled
<1>4. \A h \in Source : loop'[h].at = "posted" <=> loop[h].at = "posted"
  BY <1>2
<1>5. \A h \in Source : Cancelled(h, token) => loop'[h].cancelled
  BY <1>2
<1> QED BY <1>1, <1>2, <1>3, <1>4, <1>5 DEF Moves

\* A token is cancelled, and an enumeration goes from one step to the next.
LEMMA PageMoves ==
    ASSUME TypeOK, NEW token, NEW k \in Source, loop[k].at # "posted",
           NEW s \in {"clearing", "subscribing", "reading", "ended"},
           loop' = [Cancel(token) EXCEPT ![k].at = s], ids' = ids, base' = base
    PROVE  Moves /\ \A h \in Source : Cancelled(h, token) => loop'[h].cancelled
<1> DEFINE C == Cancel(token)
           c == C[k]
           q == [c EXCEPT !.at = s]
<1>1. \A h \in Source :
        /\ C[h] \in Parser /\ C[h].at = loop[h].at /\ C[h].parent = loop[h].parent
        /\ C[h].pstamp = loop[h].pstamp /\ C[h].index = loop[h].index
        /\ C[h].read = loop[h].read /\ C[h].left = loop[h].left
        /\ C[h].batch = loop[h].batch /\ C[h].cancelled = Cancelled(h, token)
  BY CancelFields
<1>2. C \in [Source -> Parser]
  <2>1. C = [h \in Source |-> C[h]]
    BY DEF Cancel
  <2> HIDE DEF C
  <2> QED BY <1>1, <2>1
<1>3. loop' = [C EXCEPT ![k] = q]
  OBVIOUS
<1>4. c \in Parser
  BY <1>2
<1> HIDE DEF C, c
<1>5. /\ q \in Parser /\ q.at = s /\ q.parent = c.parent /\ q.pstamp = c.pstamp
      /\ q.index = c.index /\ q.read = c.read /\ q.left = c.left /\ q.batch = c.batch
  BY <1>4 DEF Parser
<1>6. q.cancelled = c.cancelled
  BY <1>4 DEF Parser
<1> HIDE DEF q
<1>7. /\ loop' \in [Source -> Parser] /\ loop'[k] = q
      /\ \A h \in Source \ {k} : loop'[h] = C[h]
  BY <1>2, <1>3, <1>5
<1>8. ASSUME NEW h \in Source
      PROVE  /\ loop'[h].parent = loop[h].parent /\ loop'[h].pstamp = loop[h].pstamp
             /\ loop'[h].index = loop[h].index /\ loop'[h].read = loop[h].read
             /\ loop'[h].left = loop[h].left /\ loop'[h].batch = loop[h].batch
             /\ loop'[h].cancelled = Cancelled(h, token)
  <2>1. CASE h = k
    BY <1>1, <1>5, <1>6, <1>7, <2>1 DEF c
  <2>2. CASE h # k
    BY <1>1, <1>7, <2>2
  <2> QED BY <2>1, <2>2
<1>9. ASSUME NEW h \in Source PROVE loop'[h].at = "posted" <=> loop[h].at = "posted"
  <2>1. CASE h = k
    BY <1>5, <1>7, <2>1
  <2>2. CASE h # k
    BY <1>1, <1>7, <2>2
  <2> QED BY <2>1, <2>2
<1>10. \A h \in Source : loop[h].cancelled => Cancelled(h, token)
  BY DEF Cancelled
<1>11. \A h \in Source : Cancelled(h, token) => loop'[h].cancelled
  BY <1>8
<1>12. \A h \in Source : loop[h].cancelled => loop'[h].cancelled
  BY <1>10, <1>11
<1> QED BY <1>7, <1>8, <1>9, <1>11, <1>12 DEF Moves

\* What is said of the enumerations alone.
LEMMA MovesInv ==
    ASSUME TypeOK, PostedIsRead, Sources, Moves
    PROVE  PostedIsRead' /\ Sources'
<1>1. PostedIsRead'
  BY DEF PostedIsRead, Moves
<1> QED BY <1>1 DEF Sources, Moves

\* The rows are as they were, and no parser has read on.
RowsStay ==
    /\ rows' = rows /\ base' = base /\ ids' = ids /\ arrived' = arrived /\ closed' = closed
    /\ \A k \in Source : /\ loop'[k].parent = loop[k].parent
                         /\ loop'[k].pstamp = loop[k].pstamp
                         /\ loop'[k].index = loop[k].index

\* Then what is said of them stays true.
LEMMA RowsStayInv ==
    ASSUME RowFields, UniqueIds, ParentRows, ParserParent, ParserIndex,
           SecondLineFollows, EntryLines, ParserLines, ArrivedRows, RowsInOrder, RowsStay
    PROVE  /\ RowFields' /\ UniqueIds' /\ ParentRows' /\ ParserParent'
           /\ ParserIndex' /\ SecondLineFollows' /\ EntryLines' /\ ParserLines'
           /\ ArrivedRows' /\ RowsInOrder'
<1>1. RowFields' /\ UniqueIds' /\ ParentRows'
  BY DEF RowFields, UniqueIds, ParentRows, RowsStay
<1>2. ParserParent' /\ ParserIndex'
  BY DEF ParserParent, ParserIndex, RowsStay
<1>3. ParserLines'
  BY DEF ParserLines, RowsStay
<1>4. EntryLines'
  BY DEF EntryLines, RowsStay
<1>5. SecondLineFollows' /\ ArrivedRows' /\ RowsInOrder'
  BY DEF SecondLineFollows, ArrivedRows, RowsInOrder, Orderly, SameLog, RowsStay
<1> QED BY <1>1, <1>2, <1>3, <1>4, <1>5

\* A step of the page that leaves the rows alone.
LEMMA StayStep ==
    ASSUME IInv, Moves, PageOK', rows' = rows, arrived' = arrived, closed' = closed
    PROVE  IInv'
<1>1. RowsStay
  BY DEF RowsStay, Moves
<1>2. TypeOK'
  BY DEF IInv, TypeOK, Moves
<1>3. PostedIsRead' /\ Sources'
  BY MovesInv DEF IInv
<1>4. Numbered'
  BY DEF IInv, Numbered, Moves
<1>5. StaleBatches'
  BY DEF IInv, StaleBatches, Moves
<1> QED BY <1>1, <1>2, <1>3, <1>4, <1>5, RowsStayInv DEF IInv

\* A step of the page that clears the rows: the logs that are cancelled now are
\* closed.
LEMMA ClearStep ==
    ASSUME IInv, Moves, PageOK', rows' = <<>>, arrived' = <<>>,
           \A k \in closed' : k \in Source /\ loop'[k].cancelled
    PROVE  IInv'
<1>1. DOMAIN rows' = {} /\ DOMAIN arrived' = {} /\ Len(rows') = 0 /\ Len(arrived') = 0
  OBVIOUS
<1>2. TypeOK'
  BY DEF IInv, TypeOK, Moves
<1>3. PostedIsRead' /\ Sources'
  BY MovesInv DEF IInv
<1>4. Numbered'
  BY <1>1 DEF IInv, Numbered, Moves
<1>5. RowFields' /\ UniqueIds' /\ ParentRows' /\ ParserParent' /\ ParserIndex'
  BY <1>1 DEF RowFields, UniqueIds, ParentRows, ParserParent, ParserIndex
<1>6. SecondLineFollows' /\ EntryLines' /\ ParserLines' /\ ArrivedRows' /\ RowsInOrder'
  BY <1>1 DEF SecondLineFollows, EntryLines, ParserLines, ArrivedRows, RowsInOrder
<1>7. StaleBatches'
  BY <1>1 DEF StaleBatches
<1> QED BY <1>2, <1>3, <1>4, <1>5, <1>6, <1>7 DEF IInv

\* OnParametersSetAsync and SetLogSourceAsync go on to their next await.
LEMMA SwitchSteps ==
    ASSUME IInv, NEW k \in Source, OnParametersSet(k) \/ SetLogSource(k)
    PROVE  IInv'
<1>1. TypeOK /\ PageOK
  BY DEF IInv
<1>2. CASE OnParametersSet(k)
  <2>1. Moves
    BY <1>1, <1>2, PageMoves DEF OnParametersSet
  <2>2. PageOK'
    BY <1>1, <1>2 DEF OnParametersSet, PageOK, Awaits
  <2> QED BY <1>2, <2>1, <2>2, StayStep DEF OnParametersSet
<1>3. CASE SetLogSource(k)
  <2>1. Moves
    BY <1>1, <1>3, PageMoves DEF SetLogSource
  <2>2. PageOK'
    BY <1>1, <1>3 DEF SetLogSource, PageOK
  <2> QED BY <1>3, <2>1, <2>2, StayStep DEF SetLogSource
<1> QED BY <1>2, <1>3

\* The view is cleared, for another log or for none.
LEMMA ClearSteps ==
    ASSUME IInv, NEW k \in Source, ClearLogs(k) \/ ClearWithoutResource(k)
    PROVE  IInv'
<1>1. TypeOK /\ PageOK
  BY DEF IInv
<1>2. /\ rows' = <<>> /\ arrived' = <<>> /\ ids' = ids /\ base' = base
      /\ closed' = {h \in Source : Cancelled(h, subscription)}
      /\ loop[k].at = "clearing"
  BY DEF ClearLogs, ClearWithoutResource, ClearRows, RowsCleared
<1>3. PICK s \in {"clearing", "subscribing", "reading", "ended"} :
        loop' = [Cancel(subscription) EXCEPT ![k].at = s]
  BY DEF ClearLogs, ClearWithoutResource
<1>4. Moves /\ \A h \in Source : Cancelled(h, subscription) => loop'[h].cancelled
  BY <1>1, <1>2, <1>3, PageMoves
<1>5. PageOK'
  BY <1>1 DEF ClearLogs, ClearWithoutResource, PageOK, Awaits
<1> QED BY <1>2, <1>4, <1>5, ClearStep

\* HandleSelectedOptionChangedAsync goes on to its next await.
LEMMA LeaveSteps ==
    ASSUME IInv, StopWatchingLogs \/ LeaveSource \/ LeaveRows
    PROVE  IInv'
<1>1. TypeOK /\ PageOK
  BY DEF IInv
<1>2. CASE StopWatchingLogs
  <2>1. Moves
    BY <1>1, <1>2, CancelMoves DEF StopWatchingLogs
  <2>2. PageOK'
    BY <1>1, <1>2 DEF StopWatchingLogs, PageOK, Awaits
  <2> QED BY <1>2, <2>1, <2>2, StayStep DEF StopWatchingLogs
<1>3. CASE LeaveSource
  <2>1. Moves
    BY <1>1, <1>3, CancelMoves DEF LeaveSource
  <2>2. PageOK'
    BY <1>1, <1>3 DEF LeaveSource, PageOK, Awaits
  <2> QED BY <1>3, <2>1, <2>2, StayStep DEF LeaveSource
<1>4. CASE LeaveRows
  <2>1. /\ rows' = <<>> /\ arrived' = <<>> /\ ids' = ids /\ base' = base /\ loop' = loop
        /\ closed' = {h \in Source : Cancelled(h, 0)}
    BY <1>4 DEF LeaveRows, ClearRows, RowsCleared
  <2>2. Moves
    BY <1>1, <2>1 DEF Moves, TypeOK
  <2>3. 0 \notin Source
    BY NumberAssumption DEF Source
  <2>4. \A h \in closed' : h \in Source /\ loop'[h].cancelled
    BY <2>1, <2>3 DEF Cancelled
  <2>5. PageOK'
    BY <1>1, <1>4 DEF LeaveRows, PageOK
  <2> QED BY <2>1, <2>2, <2>4, <2>5, ClearStep
<1> QED BY <1>2, <1>3, <1>4

\* An enumeration ends.
LEMMA EndStep ==
    ASSUME IInv, NEW k \in Source, EndOfLog(k)
    PROVE  IInv'
<1> DEFINE p == loop[k]
           q == [p EXCEPT !.at = "ended"]
<1>1. /\ loop' = [loop EXCEPT ![k] = q]
      /\ rows' = rows /\ base' = base /\ ids' = ids /\ arrived' = arrived
      /\ closed' = closed /\ p.at = "reading"
  BY DEF EndOfLog
<1>2. loop \in [Source -> Parser] /\ p \in Parser
  BY DEF IInv, TypeOK
<1>3. PageOK'
  BY DEF IInv, PageOK, EndOfLog, page
<1> HIDE DEF p
<1>4. /\ q \in Parser /\ q.at = "ended" /\ q.parent = p.parent /\ q.pstamp = p.pstamp
      /\ q.index = p.index /\ q.read = p.read /\ q.left = p.left /\ q.batch = p.batch
  BY <1>2 DEF Parser
<1>5. q.cancelled = p.cancelled
  BY <1>2 DEF Parser
<1> HIDE DEF q
<1>6. /\ loop' \in [Source -> Parser] /\ loop'[k] = q
      /\ \A h \in Source \ {k} : loop'[h] = loop[h]
  BY <1>1, <1>2, <1>4
<1>7. Moves
  BY <1>1, <1>4, <1>5, <1>6 DEF Moves, p
<1> QED BY <1>1, <1>3, <1>7, StayStep

\* A batch is posted by a log that was not closed.
LEMMA PostStep ==
    ASSUME IInv, NEW k \in Source, NEW n \in 1 .. MaxLines, PostBatch(k, n)
    PROVE  IInv'
<1> DEFINE p == loop[k]
           r == p.read + n
           b == p.batch + 1
           q == [p EXCEPT !.at = "posted", !.left = n, !.read = r, !.batch = b]
<1>1. /\ loop' = [loop EXCEPT ![k] = q]
      /\ rows' = rows /\ base' = base /\ ids' = ids /\ arrived' = arrived
      /\ closed' = closed /\ p.at = "reading" /\ ~p.cancelled
  BY DEF PostBatch, NotCancelled
<1>2. loop \in [Source -> Parser] /\ p \in Parser
  BY DEF IInv, TypeOK
<1>3. n \in Nat /\ n # 0
  BY BoundAssumption
<1>4. PageOK'
  BY DEF IInv, PageOK, PostBatch, page
<1>5. p.left = 0
  BY <1>1 DEF IInv, PostedIsRead
<1> HIDE DEF p
<1>R. r \in Nat /\ b \in Nat
  BY <1>2, <1>3 DEF Parser
<1> HIDE DEF r, b
<1>6. /\ q \in Parser /\ q.at = "posted" /\ q.read = r /\ q.left = n
      /\ q.parent = p.parent /\ q.pstamp = p.pstamp /\ q.index = p.index
  BY <1>2, <1>3, <1>R DEF Parser
<1> HIDE DEF q
<1>7. /\ loop' \in [Source -> Parser] /\ loop'[k] = q
      /\ \A h \in Source \ {k} : loop'[h] = loop[h]
  BY <1>1, <1>2, <1>6
<1>8. RowsStay
  BY <1>1, <1>6, <1>7 DEF RowsStay, p
<1>9. TypeOK'
  BY <1>1, <1>7 DEF IInv, TypeOK
<1>10. p.read \in Nat
  BY <1>2 DEF Parser
<1>11. PostedIsRead'
  BY <1>3, <1>6, <1>7, <1>10 DEF IInv, PostedIsRead, r
<1>12. Sources'
  BY <1>1, <1>8 DEF IInv, Sources, RowsStay
<1>13. Numbered'
  <2>1. ids = 0 => p.read = 0
    BY <1>5 DEF IInv, Numbered, p
  <2>2. ids = 0 => \A h \in Source : loop'[h].read = loop'[h].left
    BY <1>3, <1>6, <1>7, <1>10, <2>1 DEF IInv, Numbered, r
  <2> QED BY <1>1, <2>2 DEF IInv, Numbered
<1>14. StaleBatches'
  <2>1. k \notin closed
    BY <1>1 DEF IInv, StaleBatches, p
  <2> QED BY <1>1, <1>7, <2>1 DEF IInv, StaleBatches
<1> QED BY <1>4, <1>8, <1>9, <1>11, <1>12, <1>13, <1>14, RowsStayInv DEF IInv

\* A line is inserted.
LEMMA InsertInv ==
    ASSUME IInv, NEW k \in Source, NEW kind \in Kind, InsertLine(k, kind)
    PROVE  IInv'
<1> DEFINE e == CreateLogEntry(k, kind, ids + 1)
           x == InsertSorted(rows, e)
<1>1. InsertOf(k, e, x) /\ x = InsertSorted(rows, e)
  BY InsertStep DEF IInv
<1>2. Numbered'
  BY NumbersInserted DEF IInv
<1>3. base' \in Nat
  <2>1. base' = IF base = 0 THEN LineNumber(k) ELSE base
    BY DEF InsertLine
  <2>2. base \in Nat /\ LineNumber(k) \in Nat
    BY FirstIsNumber DEF IInv, TypeOK
  <2> QED BY <2>1, <2>2
<1>4. PageOK'
  BY DEF IInv, PageOK, InsertLine, page
<1> HIDE DEF e, x
<1>5. ParserStep(k, e) /\ Inserted(e, x)
  BY <1>1 DEF InsertOf
<1>6. /\ ids' = ids + 1 /\ arrived' = Append(arrived, ids + 1)
      /\ ids \in Nat /\ arrived \in Seq(Nat)
  BY <1>1 DEF InsertOf, IInv, TypeOK
<1>7. arrived' \in Seq(Nat)
  BY <1>6
<1>8. TypeOK'
  BY <1>3, <1>5, <1>6, <1>7 DEF IInv, TypeOK, ParserStep, Inserted
<1>9. PostedIsRead'
  <2> SUFFICES ASSUME NEW h \in Source
               PROVE  /\ loop'[h].left <= loop'[h].read
                      /\ loop'[h].at = "posted" <=> loop'[h].left # 0
    BY DEF PostedIsRead
  <2>1. CASE h # k
    BY <1>5, <2>1 DEF IInv, PostedIsRead, ParserStep
  <2>2. CASE h = k
    <3>1. loop[k].left \in Nat /\ loop[k].read \in Nat /\ loop[k].left <= loop[k].read
      BY DEF IInv, TypeOK, Parser, PostedIsRead
    <3> QED BY <1>5, <2>2, <3>1 DEF ParserStep
  <2> QED BY <2>1, <2>2
<1>10. Sources'
  <2> SUFFICES ASSUME NEW h \in Source PROVE loop'[h].parent <= ids'
    BY DEF Sources
  <2>1. loop[h].parent \in Nat /\ loop[h].parent <= ids
    BY DEF IInv, Sources, TypeOK, Parser
  <2>2. loop'[h].parent \in {0, ids + 1, loop[h].parent}
    BY <1>5 DEF ParserStep
  <2> QED BY <1>6, <2>1, <2>2
<1>11. RowFields' /\ UniqueIds' /\ ParentRows'
  BY <1>1, FieldsInserted, IdsInserted, ParentsInserted DEF IInv
<1>12. ParserParent' /\ ParserIndex'
  BY <1>1, ParserParentInserted, ParserIndexInserted DEF IInv
<1>13. SecondLineFollows'
  BY <1>1, SecondLineInserted DEF IInv
<1>14. EntryLines' /\ ParserLines'
  BY <1>1, EntryLinesInserted, ParserLinesInserted DEF IInv
<1>15. StaleBatches'
  BY <1>1, StaleInserted DEF IInv
<1>16. ArrivedRows' /\ RowsInOrder'
  BY <1>1, ArrivedInserted, OrderInserted DEF IInv
<1> QED BY <1>2, <1>4, <1>8, <1>9, <1>10, <1>11, <1>12, <1>13, <1>14, <1>15, <1>16 DEF IInv
-----------------------------------------------------------------------------
(* Theorems.                                                               *)

\* At first no log is open and there are no rows.
LEMMA InitInv ==
    ASSUME Init
    PROVE  IInv
<1>1. /\ rows = <<>> /\ base = 0 /\ ids = 0 /\ arrived = <<>> /\ closed = {}
      /\ loop = [k \in Source |-> Unopened]
  BY DEF Init
<1>2. DOMAIN rows = {} /\ DOMAIN arrived = {} /\ Len(rows) = 0 /\ Len(arrived) = 0
  BY <1>1
<1>3. /\ Unopened \in Parser /\ Unopened.at = "unopened" /\ Unopened.parent = 0
      /\ Unopened.read = 0 /\ Unopened.left = 0
  BY DEF Unopened, Parser
<1> HIDE DEF Unopened
<1>4. \A k \in Source : loop[k] = Unopened
  BY <1>1
<1>5. TypeOK
  BY <1>1, <1>3 DEF TypeOK
<1>6. PostedIsRead /\ Sources
  BY <1>1, <1>3, <1>4 DEF PostedIsRead, Sources
<1>7. Numbered
  BY <1>1, <1>2, <1>3, <1>4 DEF Numbered
<1>8. RowFields /\ UniqueIds /\ ParentRows /\ ParserParent /\ ParserIndex
  BY <1>2 DEF RowFields, UniqueIds, ParentRows, ParserParent, ParserIndex
<1>9. SecondLineFollows /\ EntryLines /\ ParserLines /\ ArrivedRows /\ RowsInOrder
  BY <1>2 DEF SecondLineFollows, EntryLines, ParserLines, ArrivedRows, RowsInOrder
<1>10. StaleBatches
  BY <1>1 DEF StaleBatches
<1>11. PageOK
  BY DEF Init, PageOK
<1> QED BY <1>5, <1>6, <1>7, <1>8, <1>9, <1>10, <1>11 DEF IInv

\* The invariant holds in every state.
THEOREM LogInvariant == Spec => []IInv
<1>1. Init => IInv
  BY InitInv
<1>2. IInv /\ [Next]_vars => IInv'
  <2> SUFFICES ASSUME IInv, [Next]_vars PROVE IInv'
    OBVIOUS
  <2>1. CASE StopWatchingLogs \/ LeaveSource \/ LeaveRows
    BY <2>1, LeaveSteps
  <2>2. ASSUME NEW k \in Source, OnParametersSet(k) \/ SetLogSource(k) PROVE IInv'
    BY <2>2, SwitchSteps
  <2>3. ASSUME NEW k \in Source, ClearLogs(k) \/ ClearWithoutResource(k) PROVE IInv'
    BY <2>3, ClearSteps
  <2>4. ASSUME NEW k \in Source, EndOfLog(k) PROVE IInv'
    BY <2>4, EndStep
  <2>5. ASSUME NEW k \in Source, NEW n \in 1 .. MaxLines, PostBatch(k, n) PROVE IInv'
    BY <2>5, PostStep
  <2>6. ASSUME NEW k \in Source, NEW kind \in Kind, InsertLine(k, kind) PROVE IInv'
    BY <2>6, InsertInv
  <2>7. CASE UNCHANGED vars
    <3>1. /\ rows' = rows /\ base' = base /\ loop' = loop /\ ids' = ids
          /\ arrived' = arrived /\ closed' = closed
      BY <2>7 DEF vars
    <3>2. PageOK'
      BY <2>7 DEF vars, page, IInv, PageOK
    <3>3. Moves
      BY <3>1 DEF Moves, IInv, TypeOK
    <3> QED BY <3>1, <3>2, <3>3, StayStep
  <2> QED BY <2>1, <2>2, <2>3, <2>4, <2>5, <2>6, <2>7 DEF Next
<1> QED BY <1>1, <1>2, PTL DEF Spec

\* The numbers that are shown are consecutive, wherever lines were inserted:
\* the loop of InsertLogEntry that counts up the rows behind the new one.  They
\* start at the number of the first line ever inserted while that is shown.
THEOREM NumbersShown == Spec => []NumbersConsecutive
<1>1. IInv => NumbersConsecutive
  <2> SUFFICES ASSUME IInv, NEW i \in DOMAIN rows
               PROVE  /\ rows[i].number = rows[1].number + i - 1
                      /\ rows[i].id = 1 => rows[1].number = FirstNumber[rows[i].source]
    BY DEF NumbersConsecutive
  <2>1. base \in Nat /\ i \in Nat /\ 1 \in DOMAIN rows
    BY DEF IInv, TypeOK
  <2>2. rows[1].number = base /\ rows[i].number = base + i - 1
    BY <2>1 DEF IInv, Numbered
  <2> QED BY <2>1, <2>2 DEF IInv, Numbered
<1> QED BY <1>1, LogInvariant, PTL

\* The second line of an entry is shown right behind the first, whatever else
\* InsertSorted has put among the rows.
THEOREM SecondLineShown == Spec => []SecondLineFollows
<1>1. IInv => SecondLineFollows
  BY DEF IInv
<1> QED BY <1>1, LogInvariant, PTL

\* What holds of the lines in the order they arrived holds of the rows.
LEMMA OrderOfArrival ==
    ASSUME TypeOK, UniqueIds, ArrivedRows, RowsInOrder
    PROVE  ArrivalOrderKept
<1> DEFINE At(id) == CHOOSE i \in DOMAIN rows : rows[i].id = id
           E(n) == rows[At(arrived[n])]
           stamped == {n \in DOMAIN arrived : E(n).stamp # 0}
           orderly == \/ stamped = {}
                      \/ /\ \A m, n \in stamped : m < n => E(m).stamp < E(n).stamp
                         /\ \A n \in DOMAIN arrived : E(n).stamp # 0 \/ E(n).parent # 0
           oneLog == \A m, n \in DOMAIN arrived : E(m).source = E(n).source
<1> SUFFICES ASSUME orderly, oneLog
             PROVE  \A n \in DOMAIN arrived : rows[n].id = arrived[n]
  BY DEF ArrivalOrderKept
<1>1. arrived \in Seq(Nat) /\ DOMAIN arrived \subseteq Nat
  BY DEF TypeOK
<1>2. ASSUME NEW i \in DOMAIN rows
      PROVE  \E n \in DOMAIN arrived : arrived[n] = rows[i].id /\ E(n) = rows[i]
  <2>1. PICK n \in DOMAIN arrived : arrived[n] = rows[i].id
    BY DEF ArrivedRows
  <2>2. At(arrived[n]) = i
    BY <2>1 DEF UniqueIds
  <2> QED BY <2>1, <2>2
<1>3. ASSUME NEW m \in DOMAIN arrived, NEW n \in DOMAIN arrived,
             arrived[m] < arrived[n]
      PROVE  m < n
  <2> SUFFICES ASSUME ~(m < n) PROVE FALSE
    OBVIOUS
  <2>1. m = n \/ n \in 1 .. m - 1
    BY <1>1
  <2>2. arrived[m] \in Nat /\ arrived[n] \in Nat
    BY <1>1
  <2>3. n \in 1 .. m - 1 => arrived[n] < arrived[m]
    BY DEF ArrivedRows
  <2> QED BY <1>3, <2>1, <2>2, <2>3
<1> HIDE DEF At, E
<1>4. SameLog
  BY <1>2 DEF SameLog
<1>5. CASE stamped = {}
  <2>1. \A i \in DOMAIN rows : rows[i].stamp = 0
    BY <1>2, <1>5
  <2> QED BY <1>4, <2>1 DEF RowsInOrder, Orderly
<1>6. CASE /\ \A m, n \in stamped : m < n => E(m).stamp < E(n).stamp
           /\ \A n \in DOMAIN arrived : E(n).stamp # 0 \/ E(n).parent # 0
  <2>1. \A i \in DOMAIN rows : rows[i].stamp # 0 \/ rows[i].parent # 0
    BY <1>2, <1>6
  <2>2. ASSUME NEW i \in DOMAIN rows, NEW j \in DOMAIN rows,
               rows[i].stamp # 0, rows[j].stamp # 0, rows[i].id < rows[j].id
        PROVE  rows[i].stamp < rows[j].stamp
    <3>1. PICK m \in DOMAIN arrived : arrived[m] = rows[i].id /\ E(m) = rows[i]
      BY <1>2
    <3>2. PICK n \in DOMAIN arrived : arrived[n] = rows[j].id /\ E(n) = rows[j]
      BY <1>2
    <3>3. m < n
      BY <1>3, <2>2, <3>1, <3>2
    <3>4. m \in stamped /\ n \in stamped
      BY <2>2, <3>1, <3>2
    <3>5. E(m).stamp < E(n).stamp
      BY <1>6, <3>3, <3>4
    <3> QED BY <3>1, <3>2, <3>5
  <2>3. Orderly
    BY <2>1, <2>2 DEF Orderly
  <2> QED BY <1>4, <2>3 DEF RowsInOrder
<1> QED BY <1>5, <1>6

\* A log whose lines come in order is shown in that order: InsertSorted, which
\* searches the rows from the last, puts each of them at the end.
THEOREM ArrivalOrder == Spec => []ArrivalOrderKept
<1>1. IInv => ArrivalOrderKept
  BY OrderOfArrival DEF IInv
<1> QED BY <1>1, LogInvariant, PTL

\* Of a log that was closed one batch can still come, with all its lines: the
\* one it had posted when its token was cancelled, however the page's switches
\* overlap.
THEOREM OneStale == Spec => []OneStaleBatch
<1>1. IInv => OneStaleBatch
  BY DEF IInv, StaleBatches, OneStaleBatch
<1> QED BY <1>1, LogInvariant, PTL
=============================================================================
